--------------------------- MODULE RelayRoom_proofs ---------------------------
(* Machine-checked proofs about the two ends of a connection to an inbox.      *)
(* First RelayRoom, for any set of connections, any caps and any time limits;  *)
(* then RelayClient, for any number of sockets, frames and faults.             *)
EXTENDS RelayRoom, RelayClient, TLAPS

\* What the suspended "auth" handlers have established.
AuthsOK ==
    \A a \in auths : /\ a.valid => a.sock \in Keyed
                     /\ a.stage = "claim" => a.valid

\* AUTOINCREMENT makes the id a name of the message, for rows and for copies.
IdsNameBodies ==
    /\ \A r \in q : r.id = r.body /\ r.id < nextId
    /\ \A s \in Sock : \A c \in got[s] : c[1] = c[2]

\* The alarm serves every deadline, unless its handler is still running.
AlarmServes ==
    \/ pushing /\ alarm = None
    \/ \A t \in Deadlines(q, pushDue) : alarm # None /\ (alarm <= t \/ alarm <= now)

\* What WakeCovered needs of the messages nobody took, and of the deadline.
WakeBooks ==
    /\ \A r \in q : r.body \in unwoken => ~r.silent
    /\ \A b \in unwoken : b < nextId
    /\ pushDue # None => pushDue <= now + PushCoalesce

\* A deadline set after a push began is a whole window later.
PushBooks ==
    lastPush # None => /\ lastPush <= now
                       /\ pushDue # None => lastPush + PushCoalesce <= pushDue

\* The inductive invariant.
Inv ==
    /\ TypeOK /\ AuthsOK /\ OnlyOwnersReceive /\ IdsNameBodies /\ OwnerSeesAll
    /\ AlarmServes /\ NoPhantomWake /\ WakeBooks /\ WakeCovered /\ PushBooks

-----------------------------------------------------------------------------
(* scheduleNextAlarm leaves an alarm that is in time for everything it is      *)
(* computed from.                                                              *)
LEMMA ScheduleNextCovers ==
    ASSUME NEW rows \in SUBSET Row, NEW due \in Time \union {None},
           ScheduleNext(rows, due)
    PROVE  /\ alarm' \in Time \union {None}
           /\ \A t \in Deadlines(rows, due) : alarm' # None /\ alarm' <= t
<1>1. Deadlines(rows, due) \subseteq Nat
  BY RelayRoomAssumption DEF Deadlines, Row, Time
<1>2. CASE Deadlines(rows, due) = {}
  BY <1>2 DEF ScheduleNext
<1>3. CASE Deadlines(rows, due) # {}
  <2>1. PICK t \in Deadlines(rows, due) :
           (\A u \in Deadlines(rows, due) : t <= u) /\ alarm' = t
    BY <1>3 DEF ScheduleNext
  <2> QED BY <1>1, <2>1, RelayRoomAssumption DEF Time
<1> QED BY <1>2, <1>3

(* Closing sockets opens none and keeps every socket's state well-formed.      *)
LEMMA ClosedSockets ==
    ASSUME TypeOK, NEW S
    PROVE  /\ Closed(S) \in [Sock -> ConnState]
           /\ \A p \in Sock : Closed(S)[p] = "open" => conn[p] = "open"
BY DEF Closed, TypeOK, ConnState

(* The rows a sweep keeps are rows of the queue.                               *)
LEMMA SweptRows == Swept \subseteq q
BY DEF Swept

(* Handlers that only remove rows and clear an idle deadline keep the parts    *)
(* of the invariant about the deadline.                                        *)
LEMMA FewerRows ==
    ASSUME Inv, NEW rows \in SUBSET q
    PROVE  LET due == ClearIfIdle(rows, pushDue) IN
           /\ due \in Time \union {None}
           /\ due # None => due = pushDue /\ HasVisible(rows)
           /\ \A r \in rows : r.body \in unwoken =>
                 due # None /\ due <= r.ts + PushCoalesce
           /\ Deadlines(rows, due) \subseteq Deadlines(q, pushDue)
<1>1. \A r \in rows : r.body \in unwoken => HasVisible(rows)
  BY DEF Inv, WakeBooks, HasVisible
<1> QED
  BY <1>1 DEF Inv, TypeOK, ClearIfIdle, WakeCovered, Deadlines, HasVisible

-----------------------------------------------------------------------------
(* One lemma per action: it preserves the inductive invariant.                *)

(* A minute passes only when the alarm is not due, so no deadline is missed.   *)
LEMMA TickInv == ASSUME Inv, Tick PROVE Inv'
<1> USE RelayRoomAssumption DEF Tick, queueVars, alarmVars, sockVars, wakeVars
<1>1. TypeOK' BY DEF Inv, TypeOK, Time
<1>2. (AuthsOK /\ OnlyOwnersReceive /\ IdsNameBodies /\ OwnerSeesAll)'
  BY DEF Inv, AuthsOK, OnlyOwnersReceive, IdsNameBodies, OwnerSeesAll
<1>3. AlarmServes'
  <2>1. now \in Nat /\ now' = now + 1 /\ alarm \in Nat \cup {None}
    BY DEF Inv, TypeOK, Time
  <2>2. \A t : alarm # None /\ (alarm <= t \/ alarm <= now)
              => alarm' # None /\ (alarm' <= t \/ alarm' <= now')
    BY <2>1
  <2>3. /\ UNCHANGED <<pushing, alarm>>
        /\ Deadlines(q', pushDue') = Deadlines(q, pushDue)
    OBVIOUS
  <2> QED BY <2>2, <2>3 DEF Inv, AlarmServes
<1>4. (NoPhantomWake /\ WakeCovered)'
  BY DEF Inv, NoPhantomWake, WakeCovered, HasVisible
<1>5. (WakeBooks /\ PushBooks)'
  BY DEF Inv, WakeBooks, PushBooks, TypeOK, Time
<1> QED BY <1>1, <1>2, <1>3, <1>4, <1>5 DEF Inv

(* The accept path of RelayRoom.fetch hands a fresh, unauthenticated state.    *)
LEMMA ConnectInv == ASSUME Inv, NEW s \in Sock, Connect(s) PROVE Inv'
<1> USE RelayRoomAssumption
<1>1. PICK victims \in SlotVictims : conn' = [Closed(victims) EXCEPT ![s] = "open"]
  BY DEF Connect
<1>2. /\ Swept \in SUBSET q
      /\ q' = Swept /\ pushDue' = ClearIfIdle(Swept, pushDue)
      /\ alarm' \in Time \union {None}
      /\ \A t \in Deadlines(q', pushDue') : alarm' # None /\ alarm' <= t
  BY FewerRows, ScheduleNextCovers, SweptRows DEF Connect, Inv, TypeOK
<1>3. TypeOK'
  BY <1>1, <1>2, FewerRows, ClosedSockets
  DEF Connect, Inv, TypeOK, FreshAtt, Attachment, wakeVars, Time, ConnState
<1>4. (AuthsOK /\ OnlyOwnersReceive /\ IdsNameBodies)'
  BY <1>2 DEF Connect, Inv, AuthsOK, OnlyOwnersReceive, IdsNameBodies, TypeOK, FreshAtt
<1>5. OwnerSeesAll'
  BY <1>1, <1>2, ClosedSockets
  DEF Connect, Inv, OwnerSeesAll, TypeOK, FreshAtt, Copies, CopyOf
<1>6. AlarmServes'
  BY <1>2 DEF AlarmServes, Deadlines
<1>7. (NoPhantomWake /\ WakeCovered /\ WakeBooks /\ PushBooks)'
  BY <1>2, FewerRows
  DEF Connect, Inv, NoPhantomWake, WakeCovered, WakeBooks, PushBooks, HasVisible,
      TypeOK, wakeVars
<1> QED BY <1>3, <1>4, <1>5, <1>6, <1>7 DEF Inv

(* Handlers that touch only the sockets' own state.                            *)
LEMMA SocketOnly ==
    ASSUME Inv, UNCHANGED <<now, queueVars, alarmVars, wakeVars>>
    PROVE  (AlarmServes /\ NoPhantomWake /\ WakeBooks /\ WakeCovered /\ PushBooks)'
BY DEF Inv, AlarmServes, NoPhantomWake, WakeBooks, WakeCovered, PushBooks, queueVars,
       alarmVars, wakeVars, Deadlines, HasVisible

(* A socket that dies unseen keeps its attachment; it receives nothing more.   *)
LEMMA VanishInv == ASSUME Inv, NEW s \in Sock, Vanish(s) PROVE Inv'
<1> USE DEF Vanish, queueVars, alarmVars, wakeVars
<1>1. TypeOK' BY DEF Inv, TypeOK, ConnState
<1>2. (AuthsOK /\ OnlyOwnersReceive /\ IdsNameBodies /\ OwnerSeesAll)'
  BY DEF Inv, AuthsOK, OnlyOwnersReceive, IdsNameBodies, OwnerSeesAll, TypeOK, Copies, CopyOf
<1> QED BY <1>1, <1>2, SocketOnly DEF Inv

(* A client's close leaves only the socket's own state behind.                 *)
LEMMA ShutInv == ASSUME Inv, NEW s \in Sock, Shut(s) PROVE Inv'
<1> USE DEF Shut, queueVars, alarmVars, wakeVars
<1>1. TypeOK' BY DEF Inv, TypeOK, ConnState
<1>2. (AuthsOK /\ OnlyOwnersReceive /\ IdsNameBodies /\ OwnerSeesAll)'
  BY DEF Inv, AuthsOK, OnlyOwnersReceive, IdsNameBodies, OwnerSeesAll, TypeOK, Copies, CopyOf
<1> QED BY <1>1, <1>2, SocketOnly DEF Inv

(* webSocketClose forgets the socket: its copies and suspended auths are void. *)
LEMMA GoneInv == ASSUME Inv, NEW s \in Sock, Gone(s) PROVE Inv'
<1> USE RelayRoomAssumption DEF Gone, queueVars, alarmVars, wakeVars
<1>1. TypeOK'
  BY DEF Inv, TypeOK, ConnState, FreshAtt, Attachment, Time, Copy
<1>2. AuthsOK' BY DEF Inv, AuthsOK
<1>3. (OnlyOwnersReceive /\ IdsNameBodies /\ OwnerSeesAll)'
  BY DEF Inv, OnlyOwnersReceive, IdsNameBodies, OwnerSeesAll, TypeOK, FreshAtt, Copies, CopyOf
<1> QED BY <1>1, <1>2, <1>3, SocketOnly DEF Inv

(* The hello handler issues a new nonce and downgrades the socket to a guest.  *)
LEMMA HelloInv == ASSUME Inv, NEW s \in Sock, Hello(s) PROVE Inv'
<1> USE DEF Hello, queueVars, alarmVars, wakeVars
<1>1. /\ att' \in [Sock -> Attachment]
      /\ \A p \in Sock : att'[p].owner = att[p].owner
  <2>1. Challenged(att[s]) \in Attachment /\ Challenged(att[s]).owner = att[s].owner
    <3>1. att[s] \in Attachment /\ now \in Nat
      BY DEF Inv, TypeOK, Time
    <3>2. att[s].nonce + 1 \in Nat
      BY <3>1 DEF Attachment
    <3> QED BY <3>1, <3>2 DEF Attachment, Time, Challenged
  <2> QED BY <2>1 DEF Inv, TypeOK
<1>2. /\ conn' \in [Sock -> ConnState]
      /\ \A p \in Sock : conn'[p] = "open" => conn[p] = "open"
  BY ClosedSockets DEF Inv, TypeOK
<1>3. TypeOK' BY <1>1, <1>2 DEF Inv, TypeOK
<1>4. (AuthsOK /\ IdsNameBodies)' BY DEF Inv, AuthsOK, IdsNameBodies
<1>5. (OnlyOwnersReceive /\ OwnerSeesAll)'
  BY <1>1, <1>2 DEF Inv, OnlyOwnersReceive, OwnerSeesAll, Copies, CopyOf
<1> QED BY <1>3, <1>4, <1>5, SocketOnly DEF Inv

(* The auth handler up to its first await adds one suspended auth.             *)
LEMMA AuthStartInv ==
    ASSUME Inv, NEW s \in Sock, NEW valid \in BOOLEAN, AuthStart(s, valid)
    PROVE  Inv'
<1> USE DEF AuthStart, queueVars, alarmVars, wakeVars
<1>1. TypeOK' BY DEF Inv, TypeOK, Auth, Attachment
<1>2. AuthsOK' BY DEF Inv, AuthsOK
<1>3. (OnlyOwnersReceive /\ IdsNameBodies /\ OwnerSeesAll)'
  BY DEF Inv, OnlyOwnersReceive, IdsNameBodies, OwnerSeesAll, Copies, CopyOf
<1> QED BY <1>1, <1>2, <1>3, SocketOnly DEF Inv

(* The end of an "auth" handler: what it keeps of the invariant.               *)
LEMMA AuthCommitKeeps ==
    ASSUME Inv, NEW s \in Keyed, AuthCommit(s)
    PROVE  /\ TypeOK' \/ ~(auths' \subseteq Auth /\ claimed' \in BOOLEAN)
           /\ (OnlyOwnersReceive /\ IdsNameBodies /\ OwnerSeesAll)'
           /\ (AlarmServes /\ NoPhantomWake /\ WakeBooks /\ WakeCovered /\ PushBooks)'
<1> USE RelayRoomAssumption
<1>1. s \in Sock
  OBVIOUS
<1>2. /\ att' \in [Sock -> Attachment]
      /\ \A p \in Sock : p # s => att'[p].owner = att[p].owner
      /\ att'[s].owner
  <2>1. Owned(att[s]) \in Attachment /\ Owned(att[s]).owner
    BY <1>1 DEF Inv, TypeOK, Attachment, Time, Owned
  <2> QED BY <1>1, <2>1 DEF AuthCommit, Inv, TypeOK
<1>3. UNCHANGED <<now, nextId, pushing, lastPush>>
  BY DEF AuthCommit
<1>4. CASE Writable(s)
  <2>1. PICK drop \in TrimVictims(Guests \ {s}) : conn' = Closed(drop)
    BY <1>4 DEF AuthCommit
  <2>2. /\ q' = Swept /\ pushDue' = None /\ unwoken' = {}
        /\ got' = [got EXCEPT ![s] =
                     IF conn[s] = "open" THEN @ \union Copies(Swept) ELSE @]
        /\ ScheduleNext(Swept, None)
    BY <1>4 DEF AuthCommit, Drain
  <2>3. /\ Swept \in SUBSET q
        /\ alarm' \in Time \union {None}
        /\ \A t \in Deadlines(q', pushDue') : alarm' # None /\ alarm' <= t
    BY <2>2, SweptRows, ScheduleNextCovers DEF Inv, TypeOK
  <2>4. Copies(Swept) \subseteq Copy
    BY <2>3 DEF Copies, CopyOf, Copy, Inv, TypeOK, Row
  <2>5. TypeOK' \/ ~(auths' \subseteq Auth /\ claimed' \in BOOLEAN)
    BY <1>2, <1>3, <2>1, <2>2, <2>3, <2>4, ClosedSockets DEF Inv, TypeOK, Time
  <2>6. (OnlyOwnersReceive /\ IdsNameBodies)'
    BY <1>1, <1>2, <1>3, <2>2, <2>3
    DEF Inv, OnlyOwnersReceive, IdsNameBodies, TypeOK, Copies, CopyOf
  <2>7. OwnerSeesAll'
    BY <1>1, <1>2, <2>1, <2>2, <2>3, ClosedSockets
    DEF Inv, OwnerSeesAll, TypeOK, Copies, CopyOf
  <2>8. (AlarmServes /\ NoPhantomWake /\ WakeBooks /\ WakeCovered /\ PushBooks)'
    BY <1>3, <2>2, <2>3
    DEF Inv, AlarmServes, NoPhantomWake, WakeBooks, WakeCovered, PushBooks
  <2> QED BY <2>5, <2>6, <2>7, <2>8
<1>5. CASE ~Writable(s)
  <2>1. conn' = Closed({s}) /\ UNCHANGED <<q, got, pushDue, alarm, unwoken>>
    BY <1>5 DEF AuthCommit
  <2>2. TypeOK' \/ ~(auths' \subseteq Auth /\ claimed' \in BOOLEAN)
    BY <1>2, <1>3, <2>1, ClosedSockets DEF Inv, TypeOK
  <2>3. (OnlyOwnersReceive /\ IdsNameBodies)'
    BY <1>1, <1>2, <1>3, <2>1 DEF Inv, OnlyOwnersReceive, IdsNameBodies
  <2>4. conn'[s] # "open"
    BY <1>1, <1>5, <2>1 DEF Closed, Writable
  <2>5. OwnerSeesAll'
    BY <1>1, <1>2, <2>1, <2>4, ClosedSockets DEF Inv, OwnerSeesAll, Copies, CopyOf
  <2>6. (AlarmServes /\ NoPhantomWake /\ WakeBooks /\ WakeCovered /\ PushBooks)'
    BY <1>3, <2>1
    DEF Inv, AlarmServes, NoPhantomWake, WakeBooks, WakeCovered, PushBooks, Deadlines,
        HasVisible
  <2> QED BY <2>2, <2>3, <2>5, <2>6
<1> QED BY <1>4, <1>5

(* The auth handler between its awaits: signature checked, claim looked up.    *)
LEMMA AuthVerifiedInv == ASSUME Inv, NEW a \in auths, AuthVerified(a) PROVE Inv'
<1> USE RelayRoomAssumption
<1>1. a \in Auth /\ (a.valid => a.sock \in Keyed)
  BY DEF Inv, TypeOK, AuthsOK
<1>2. CASE ~Verifies(a)
  <2>1. /\ auths' = auths \ {a} /\ conn' = Closed({a.sock})
        /\ UNCHANGED <<now, queueVars, alarmVars, att, got, wakeVars>>
    BY <1>2 DEF AuthVerified
  <2>2. TypeOK'
    BY <2>1, ClosedSockets DEF Inv, TypeOK, queueVars, alarmVars, wakeVars
  <2>3. (AuthsOK /\ OnlyOwnersReceive /\ IdsNameBodies /\ OwnerSeesAll)'
    BY <2>1, ClosedSockets
    DEF Inv, AuthsOK, OnlyOwnersReceive, IdsNameBodies, OwnerSeesAll, Copies, CopyOf,
        queueVars
  <2> QED BY <2>1, <2>2, <2>3, SocketOnly DEF Inv
<1>3. CASE Verifies(a) /\ claimed
  <2>1. auths' = auths \ {a} /\ AuthCommit(a.sock) /\ UNCHANGED claimed
    BY <1>3 DEF AuthVerified
  <2>2. a.sock \in Keyed
    BY <1>1, <1>3 DEF Verifies
  <2>3. auths' \subseteq Auth /\ claimed' \in BOOLEAN /\ AuthsOK'
    BY <2>1 DEF Inv, TypeOK, AuthsOK
  <2> QED BY <2>1, <2>2, <2>3, AuthCommitKeeps DEF Inv
<1>4. CASE Verifies(a) /\ ~claimed
  <2>1. /\ auths' = (auths \ {a}) \union {[a EXCEPT !.stage = "claim"]}
        /\ UNCHANGED <<now, queueVars, alarmVars, conn, att, got, wakeVars>>
    BY <1>4 DEF AuthVerified
  <2>2. [a EXCEPT !.stage = "claim"] \in Auth
    BY <1>1 DEF Auth
  <2>3. TypeOK'
    BY <2>1, <2>2 DEF Inv, TypeOK, queueVars, alarmVars, wakeVars
  <2>4. AuthsOK'
    BY <1>1, <1>4, <2>1 DEF Inv, AuthsOK, Auth, Verifies
  <2>5. (OnlyOwnersReceive /\ IdsNameBodies /\ OwnerSeesAll)'
    BY <2>1 DEF Inv, OnlyOwnersReceive, IdsNameBodies, OwnerSeesAll, Copies, CopyOf, queueVars
  <2> QED BY <2>1, <2>3, <2>4, <2>5, SocketOnly DEF Inv
<1> QED BY <1>2, <1>3, <1>4

(* The auth handler after its last await upgrades the socket and drains.       *)
LEMMA AuthClaimedInv ==
    ASSUME Inv, NEW a \in auths, NEW allowed \in BOOLEAN, AuthClaimed(a, allowed)
    PROVE  Inv'
<1>1. a.sock \in Keyed
  BY DEF Inv, AuthsOK, AuthClaimed
<1>2. auths' \subseteq Auth /\ claimed' \in BOOLEAN /\ AuthsOK'
  BY DEF AuthClaimed, Inv, TypeOK, AuthsOK
<1> QED BY <1>1, <1>2, AuthCommitKeeps DEF Inv, AuthClaimed

(* The send handler stores a row, delivers it, and arms the wake and the alarm. *)
LEMMA SendInv ==
    ASSUME Inv, NEW s \in Sock, NEW silent \in BOOLEAN, Send(s, silent)
    PROVE  Inv'
<1> USE RelayRoomAssumption
<1> DEFINE row  == [id |-> nextId, body |-> nextId, ts |-> now, silent |-> silent]
           rows == Swept \union {row}
           due  == ClearIfIdle(Swept, pushDue)
           wake == LiveOwners = {} /\ ~silent
<1>1. /\ q' = rows /\ nextId' = nextId + 1
      /\ got' = [p \in Sock |-> IF p \in LiveOwners /\ conn[p] = "open"
                                THEN got[p] \union {CopyOf(row)} ELSE got[p]]
      /\ pushDue' = IF wake THEN ArmPush(due) ELSE due
      /\ ScheduleNext(rows, pushDue')
      /\ unwoken' = IF wake THEN unwoken \union {nextId} ELSE unwoken
      /\ UNCHANGED <<now, claimed, pushing, conn, att, auths, lastPush>>
  BY DEF Send, RowId
<1>2. row \in Row /\ CopyOf(row) = <<nextId, nextId>> /\ CopyOf(row) \in Copy
  BY DEF Inv, TypeOK, Row, CopyOf, Copy
<1>3. Swept \subseteq q /\ rows \in SUBSET Row
  BY <1>2, SweptRows DEF Inv, TypeOK
<1>4. /\ due \in Time \union {None}
      /\ due # None => due = pushDue /\ HasVisible(Swept)
      /\ \A r \in Swept : r.body \in unwoken => due # None /\ due <= r.ts + PushCoalesce
  BY <1>3, FewerRows
<1>5. now \in Nat /\ now + PushCoalesce \in Nat
  BY DEF Inv, TypeOK, Time
<1>6. /\ pushDue' \in Time \union {None}
      /\ pushDue' # None => pushDue' <= now + PushCoalesce
      /\ wake => pushDue' # None
      /\ due # None => pushDue' = due
      /\ pushDue' # None => pushDue' = due \/ pushDue' = now + PushCoalesce
  BY <1>1, <1>4, <1>5 DEF ArmPush, Inv, WakeBooks, TypeOK, Time
<1>7. /\ alarm' \in Time \union {None}
      /\ \A t \in Deadlines(q', pushDue') : alarm' # None /\ alarm' <= t
  BY <1>1, <1>3, <1>6, ScheduleNextCovers
<1>8. TypeOK'
  <2>1. got' \in [Sock -> SUBSET Copy]
    BY <1>1, <1>2 DEF Inv, TypeOK
  <2> QED BY <1>1, <1>3, <1>6, <1>7, <2>1 DEF Inv, TypeOK
<1>9. (AuthsOK /\ IdsNameBodies)'
  <2>1. AuthsOK'
    BY <1>1 DEF Inv, AuthsOK
  <2>2. \A r \in q' : r.id = r.body /\ r.id < nextId'
    BY <1>1, <1>3 DEF Inv, IdsNameBodies, TypeOK, Row
  <2>3. \A p \in Sock : \A c \in got'[p] : c[1] = c[2]
    BY <1>1, <1>2 DEF Inv, IdsNameBodies
  <2> QED BY <2>1, <2>2, <2>3 DEF IdsNameBodies
<1>10. OnlyOwnersReceive'
  BY <1>1 DEF Inv, OnlyOwnersReceive, LiveOwners
<1>11. OwnerSeesAll'
  <2> SUFFICES ASSUME NEW p \in Sock, att[p].owner, conn[p] = "open"
               PROVE  Copies(rows) \subseteq got'[p]
    BY <1>1 DEF OwnerSeesAll
  <2>1. p \in LiveOwners
    BY DEF LiveOwners, Listed, Writable
  <2>2. Copies(Swept) \subseteq got[p]
    BY <1>3 DEF Inv, OwnerSeesAll, Copies
  <2> QED BY <1>1, <2>1, <2>2 DEF Copies
<1>12. AlarmServes'
  BY <1>7 DEF AlarmServes
<1>13. NoPhantomWake'
  BY <1>1, <1>4, <1>6 DEF NoPhantomWake, HasVisible
<1>14. WakeBooks'
  <2>1. nextId \notin unwoken
    BY DEF Inv, WakeBooks, TypeOK
  <2>2. \A r \in q' : r.body \in unwoken' => ~r.silent
    <3> SUFFICES ASSUME NEW r \in rows, r.body \in unwoken'
                 PROVE  ~r.silent
      BY <1>1
    <3>1. CASE r = row
      BY <1>1, <2>1, <3>1
    <3>2. CASE r # row
      BY <1>1, <1>3, <3>2 DEF Inv, WakeBooks, IdsNameBodies, TypeOK
    <3> QED BY <3>1, <3>2
  <2>3. \A b \in unwoken' : b < nextId'
    BY <1>1 DEF Inv, WakeBooks, TypeOK
  <2> QED BY <1>1, <1>6, <2>2, <2>3 DEF WakeBooks
<1>15. WakeCovered'
  <2> SUFFICES ASSUME NEW r \in rows, r.body \in unwoken'
               PROVE  pushDue' # None /\ pushDue' <= r.ts + PushCoalesce
    BY <1>1 DEF WakeCovered
  <2>1. CASE r = row
    <3>1. nextId \notin unwoken
      BY DEF Inv, WakeBooks, TypeOK
    <3> QED BY <1>1, <1>6, <2>1, <3>1
  <2>2. CASE r # row
    <3>1. r \in Swept /\ r.body # nextId
      BY <1>3, <2>2 DEF Inv, IdsNameBodies, TypeOK
    <3> QED BY <1>1, <1>4, <1>6, <3>1
  <2> QED BY <2>1, <2>2
<1>16. PushBooks'
  BY <1>1, <1>4, <1>5, <1>6 DEF Inv, PushBooks, TypeOK, Time
<1> QED BY <1>8, <1>9, <1>10, <1>11, <1>12, <1>13, <1>14, <1>15, <1>16 DEF Inv

(* The send handler at QUEUE_CAP sweeps and refuses, storing nothing.          *)
LEMMA FullSendInv == ASSUME Inv, NEW s \in Sock, FullSend(s) PROVE Inv'
<1> USE RelayRoomAssumption DEF FullSend, sockVars, wakeVars
<1>1. Swept \in SUBSET q
  BY SweptRows
<1>2. TypeOK' BY <1>1, FewerRows DEF Inv, TypeOK
<1>3. (AuthsOK /\ OnlyOwnersReceive /\ IdsNameBodies /\ OwnerSeesAll)'
  BY <1>1 DEF Inv, AuthsOK, OnlyOwnersReceive, IdsNameBodies, OwnerSeesAll, Copies
<1>4. AlarmServes'
  BY <1>1, FewerRows DEF Inv, AlarmServes
<1>5. (NoPhantomWake /\ WakeBooks /\ WakeCovered /\ PushBooks)'
  BY <1>1, FewerRows DEF Inv, NoPhantomWake, WakeBooks, WakeCovered, PushBooks
<1> QED BY <1>2, <1>3, <1>4, <1>5 DEF Inv

(* The ack handler deletes one row and clears an idle push deadline.           *)
LEMMA AckInv == ASSUME Inv, NEW s \in Sock, NEW copy \in got[s], Ack(s, copy) PROVE Inv'
<1> USE RelayRoomAssumption DEF Ack, sockVars, wakeVars
<1>1. q' \in SUBSET q
  OBVIOUS
<1>2. /\ alarm' \in Time \union {None}
      /\ \A t \in Deadlines(q', pushDue') : alarm' # None /\ alarm' <= t
  BY <1>1, FewerRows, ScheduleNextCovers DEF Inv, TypeOK
<1>3. TypeOK' BY <1>1, <1>2, FewerRows DEF Inv, TypeOK
<1>4. (AuthsOK /\ OnlyOwnersReceive /\ IdsNameBodies /\ OwnerSeesAll)'
  BY <1>1 DEF Inv, AuthsOK, OnlyOwnersReceive, IdsNameBodies, OwnerSeesAll, Copies
<1>5. AlarmServes'
  BY <1>2 DEF AlarmServes
<1>6. (NoPhantomWake /\ WakeBooks /\ WakeCovered /\ PushBooks)'
  BY <1>1, FewerRows DEF Inv, NoPhantomWake, WakeBooks, WakeCovered, PushBooks
<1> QED BY <1>3, <1>4, <1>5, <1>6 DEF Inv

(* alarm() sweeps, starts a due push and schedules the next alarm.             *)
LEMMA AlarmFiresInv == ASSUME Inv, AlarmFires PROVE Inv'
<1> USE RelayRoomAssumption DEF sockVars
<1>1. Swept \in SUBSET q /\ q' = Swept
  BY SweptRows DEF AlarmFires
<1>2. /\ pushDue' \in Time \union {None}
      /\ pushDue' # None => pushDue' = pushDue /\ HasVisible(q') /\ unwoken' = unwoken
      /\ \A r \in q' : r.body \in unwoken' => pushDue' # None /\ pushDue' <= r.ts + PushCoalesce
      /\ unwoken' \subseteq unwoken
  BY <1>1, FewerRows DEF AlarmFires, DueWhilePushing
<1>3. \/ pushing' /\ alarm' = None /\ lastPush' = now /\ pushDue' = None
      \/ ScheduleNext(q', pushDue') /\ UNCHANGED <<pushing, lastPush>>
  BY <1>1 DEF AlarmFires, DueWhilePushing
<1>4. \/ pushing' /\ alarm' = None
      \/ /\ alarm' \in Time \union {None}
         /\ \A t \in Deadlines(q', pushDue') : alarm' # None /\ alarm' <= t
  BY <1>1, <1>2, <1>3, ScheduleNextCovers DEF Inv, TypeOK
<1>5. TypeOK'
  BY <1>1, <1>2, <1>3, <1>4 DEF AlarmFires, Inv, TypeOK, Time
<1>6. (AuthsOK /\ OnlyOwnersReceive /\ IdsNameBodies /\ OwnerSeesAll)'
  BY <1>1
  DEF AlarmFires, Inv, AuthsOK, OnlyOwnersReceive, IdsNameBodies, OwnerSeesAll, Copies
<1>7. AlarmServes'
  BY <1>4 DEF AlarmServes
<1>8. (NoPhantomWake /\ WakeCovered)'
  BY <1>2 DEF NoPhantomWake, WakeCovered
<1>9. WakeBooks'
  BY <1>1, <1>2 DEF AlarmFires, Inv, WakeBooks
<1>10. PushBooks'
  BY <1>2, <1>3 DEF AlarmFires, Inv, PushBooks, TypeOK, Time
<1> QED BY <1>5, <1>6, <1>7, <1>8, <1>9, <1>10 DEF Inv

(* The end of a push re-arms what arrived while it was in flight.              *)
LEMMA PushDoneInv == ASSUME Inv, PushDone PROVE Inv'
<1> USE RelayRoomAssumption DEF PushDone, queueVars, sockVars, wakeVars
<1>1. q \in SUBSET q /\ q \in SUBSET Row
  BY DEF Inv, TypeOK
<1>2. /\ alarm' \in Time \union {None}
      /\ \A t \in Deadlines(q', pushDue') : alarm' # None /\ alarm' <= t
  BY <1>1, FewerRows, ScheduleNextCovers
<1>3. TypeOK' BY <1>1, <1>2, FewerRows DEF Inv, TypeOK
<1>4. (AuthsOK /\ OnlyOwnersReceive /\ IdsNameBodies /\ OwnerSeesAll)'
  BY DEF Inv, AuthsOK, OnlyOwnersReceive, IdsNameBodies, OwnerSeesAll, Copies, CopyOf
<1>5. AlarmServes'
  BY <1>2 DEF AlarmServes
<1>6. (NoPhantomWake /\ WakeBooks /\ WakeCovered /\ PushBooks)'
  BY <1>1, FewerRows DEF Inv, NoPhantomWake, WakeBooks, WakeCovered, PushBooks, HasVisible
<1> QED BY <1>3, <1>4, <1>5, <1>6 DEF Inv

(* Eviction loses memory (suspended handlers, the push flag) and no storage.   *)
LEMMA RestartInv == ASSUME Inv, Restart PROVE Inv'
<1> USE RelayRoomAssumption DEF Restart, queueVars, wakeVars
<1>1. q \in SUBSET Row /\ pushDue \in Time \union {None} /\ now \in Nat
  BY DEF Inv, TypeOK, Time
<1>2. alarm' \in Time \union {None}
  BY <1>1, ScheduleNextCovers DEF Inv, TypeOK, Time
<1>3. AlarmServes'
  <2>1. CASE pushing
    BY <1>1, <2>1 DEF Inv, AlarmServes, Deadlines, TypeOK, Time
  <2>2. CASE ~pushing /\ alarm = None
    BY <1>1, <2>2, ScheduleNextCovers DEF AlarmServes, Deadlines
  <2>3. CASE ~pushing /\ alarm # None
    BY <2>3 DEF Inv, AlarmServes, Deadlines
  <2> QED BY <2>1, <2>2, <2>3 DEF Inv, TypeOK
<1>4. TypeOK'
  BY <1>2 DEF Inv, TypeOK, ConnState, FreshAtt, Attachment, Time, Copy
<1>5. (AuthsOK /\ OnlyOwnersReceive /\ IdsNameBodies /\ OwnerSeesAll)'
  BY DEF Inv, AuthsOK, OnlyOwnersReceive, IdsNameBodies, OwnerSeesAll, FreshAtt
<1>6. (NoPhantomWake /\ WakeBooks /\ WakeCovered /\ PushBooks)'
  BY DEF Inv, NoPhantomWake, WakeBooks, WakeCovered, PushBooks, HasVisible
<1> QED BY <1>3, <1>4, <1>5, <1>6 DEF Inv

-----------------------------------------------------------------------------
(* A room that was just created satisfies the invariant.                       *)
LEMMA InitInv == Init => Inv
<1> SUFFICES ASSUME Init PROVE Inv
  OBVIOUS
<1> USE RelayRoomAssumption DEF Init
<1>1. TypeOK
  BY DEF TypeOK, Time, ConnState, FreshAtt, Attachment
<1>2. AuthsOK /\ OnlyOwnersReceive /\ IdsNameBodies /\ OwnerSeesAll
  BY DEF AuthsOK, OnlyOwnersReceive, IdsNameBodies, OwnerSeesAll, FreshAtt
<1>3. AlarmServes /\ NoPhantomWake /\ WakeBooks /\ WakeCovered /\ PushBooks
  BY DEF AlarmServes, Deadlines, NoPhantomWake, WakeBooks, WakeCovered, PushBooks
<1> QED BY <1>1, <1>2, <1>3 DEF Inv

(* Every step of the room keeps the invariant: the cases of Next, together.    *)
LEMMA NextInv == Inv /\ [Next]_vars => Inv'
<1> SUFFICES ASSUME Inv, [Next]_vars PROVE Inv'
  OBVIOUS
<1>1. CASE UNCHANGED vars
  BY <1>1
  DEF vars, queueVars, alarmVars, sockVars, wakeVars, Inv, TypeOK, AuthsOK,
      OnlyOwnersReceive, IdsNameBodies, OwnerSeesAll, AlarmServes, NoPhantomWake,
      WakeBooks, WakeCovered, PushBooks, Copies, CopyOf, Deadlines, HasVisible
<1>2. CASE Tick \/ AlarmFires \/ PushDone \/ Restart
  BY <1>2, TickInv, AlarmFiresInv, PushDoneInv, RestartInv
<1>3. ASSUME NEW s \in Sock, SocketStep(s) PROVE Inv'
  BY <1>3, ConnectInv, VanishInv, ShutInv, GoneInv, HelloInv, AuthStartInv, SendInv,
     FullSendInv, AckInv
  DEF SocketStep
<1>4. ASSUME NEW a \in auths, AuthVerified(a) PROVE Inv'
  BY <1>4, AuthVerifiedInv
<1>5. ASSUME NEW a \in auths, NEW allowed \in BOOLEAN, AuthClaimed(a, allowed)
      PROVE  Inv'
  BY <1>5, AuthClaimedInv
<1> QED BY <1>1, <1>2, <1>3, <1>4, <1>5 DEF Next

(* The inductive invariant holds of every behaviour.                           *)
THEOREM RelayInvariant == Spec => []Inv
BY InitInv, NextInv, PTL DEF Spec

(* Every variable keeps its type, for any sockets, caps and time limits.       *)
THEOREM TypeCorrect == Spec => []TypeOK
<1>1. Inv => TypeOK
  BY DEF Inv
<1> QED BY <1>1, RelayInvariant, PTL

(* Nobody without the inbox's key becomes its owner or receives a message.     *)
THEOREM ReceptionNeedsKey == Spec => []OnlyOwnersReceive
<1>1. Inv => OnlyOwnersReceive
  BY DEF Inv
<1> QED BY <1>1, RelayInvariant, PTL

(* A working owner socket has received everything that is still queued.        *)
THEOREM DeliveryComplete == Spec => []OwnerSeesAll
<1>1. Inv => OwnerSeesAll
  BY DEF Inv
<1> QED BY <1>1, RelayInvariant, PTL

(* Messages reach the owner's sockets, all of them, and no other socket.       *)
THEOREM DeliveryExact == Spec => []OwnersReceive
<1>1. Inv => OwnersReceive
  BY DEF Inv, OwnersReceive
<1> QED BY <1>1, RelayInvariant, PTL

(* Push and expiry share one alarm, and neither makes the other late.          *)
THEOREM AlarmInTime == Spec => []AlarmNeverLate
<1>1. Inv => AlarmNeverLate
  BY DEF Inv, AlarmServes, AlarmNeverLate
<1> QED BY <1>1, RelayInvariant, PTL

(* A wake-up is armed only while a visible message waits.                      *)
THEOREM WakesHaveCause == Spec => []NoPhantomWake
<1>1. Inv => NoPhantomWake
  BY DEF Inv
<1> QED BY <1>1, RelayInvariant, PTL

(* A message nobody took keeps its wake-up deadline.                           *)
THEOREM WakesAreKept == Spec => []WakeCovered
<1>1. Inv => WakeCovered
  BY DEF Inv
<1> QED BY <1>1, RelayInvariant, PTL

-----------------------------------------------------------------------------
(* The steps that remove rows: a sweep, or an owner's acknowledgement.         *)
LEMMA RowsLeave ==
    ASSUME Inv, [Next]_vars
    PROVE  \/ Swept \subseteq q' \/ q \subseteq q'
           \/ \E s \in Sock : \E c \in got[s] :
                 att[s].owner /\ q' = {r \in q : r.id # c[1]}
<1>1. CASE UNCHANGED vars
  BY <1>1 DEF vars, queueVars
<1>2. CASE Tick \/ AlarmFires \/ PushDone \/ Restart
  BY <1>2 DEF Tick, AlarmFires, PushDone, Restart, queueVars
<1>3. ASSUME NEW s \in Sock, SocketStep(s)
      PROVE  \/ Swept \subseteq q' \/ q \subseteq q'
             \/ \E c \in got[s] : att[s].owner /\ q' = {r \in q : r.id # c[1]}
  <2>1. CASE Connect(s) \/ Vanish(s) \/ Shut(s) \/ Gone(s) \/ Hello(s) \/ FullSend(s)
    BY <2>1 DEF Connect, Vanish, Shut, Gone, Hello, FullSend, queueVars
  <2>2. CASE \E valid \in BOOLEAN : AuthStart(s, valid)
    BY <2>2 DEF AuthStart, queueVars
  <2>3. CASE \E silent \in BOOLEAN : Send(s, silent)
    BY <2>3 DEF Send
  <2>4. CASE \E c \in got[s] : Ack(s, c)
    BY <2>4 DEF Ack
  <2> QED BY <1>3, <2>1, <2>2, <2>3, <2>4 DEF SocketStep
<1>4. ASSUME NEW a \in auths, AuthVerified(a)
      PROVE  Swept \subseteq q' \/ q \subseteq q'
  BY <1>4 DEF AuthVerified, AuthCommit, queueVars
<1>5. ASSUME NEW a \in auths, NEW allowed \in BOOLEAN, AuthClaimed(a, allowed)
      PROVE  Swept \subseteq q' \/ q \subseteq q'
  BY <1>5 DEF AuthClaimed, AuthCommit
<1> QED BY <1>1, <1>2, <1>3, <1>4, <1>5 DEF Next

(* No message is lost: it expires, or an owner that received it acknowledges.  *)
THEOREM NothingLost == Spec => NoLoss
<1>1. ASSUME Inv, [Next]_vars PROVE NoLossStep
  <2> SUFFICES ASSUME NEW r \in q, r \notin q', ~(r.ts + QueueTTL <= now)
               PROVE  \E s \in Keyed : att[s].owner /\ CopyOf(r) \in got[s]
    BY DEF NoLossStep
  <2>1. r \in Swept
    BY <1>1, RelayRoomAssumption DEF Swept, Inv, TypeOK, Row, Time
  <2>0. \E s \in Sock : \E c \in got[s] : att[s].owner /\ q' = {x \in q : x.id # c[1]}
    <3>1. ~(Swept \subseteq q') /\ ~(q \subseteq q')
      BY <2>1
    <3> QED BY ONLY <1>1, <3>1, RowsLeave
  <2> PICK s \in Sock : \E c \in got[s] : att[s].owner /\ q' = {x \in q : x.id # c[1]}
    BY <2>0
  <2>2. PICK c \in got[s] : att[s].owner /\ q' = {x \in q : x.id # c[1]}
    OBVIOUS
  <2>3. c = <<c[1], c[2]>> /\ c[1] = c[2]
    BY <1>1, <2>2 DEF Inv, TypeOK, Copy, IdsNameBodies
  <2>4. r.id = c[1] /\ r.body = r.id
    BY <1>1, <2>2 DEF Inv, IdsNameBodies
  <2>5. s \in Keyed
    BY <1>1, <2>2 DEF Inv, OnlyOwnersReceive
  <2> QED BY <2>2, <2>3, <2>4, <2>5 DEF CopyOf
<1> QED BY <1>1, RelayInvariant, PTL DEF Spec, NoLoss

(* Two wake-up pushes are at least the coalescing window apart.                *)
THEOREM PushesSpaced == Spec => PushSpacing
<1>1. ASSUME Inv, [Next]_vars PROVE PushSpacingStep
  <2> SUFFICES ASSUME ~pushing, pushing', lastPush # None
               PROVE  lastPush + PushCoalesce <= now
    BY DEF PushSpacingStep
  <2>1. AlarmFires
    <3>1. ASSUME NEW s \in Sock, SocketStep(s) PROVE pushing' = pushing
      <4>1. CASE Connect(s) \/ Vanish(s) \/ Shut(s) \/ Gone(s) \/ Hello(s) \/ FullSend(s)
        BY <4>1 DEF Connect, Vanish, Shut, Gone, Hello, FullSend, alarmVars
      <4>2. CASE \E valid \in BOOLEAN : AuthStart(s, valid)
        BY <4>2 DEF AuthStart, alarmVars
      <4>3. CASE \E silent \in BOOLEAN : Send(s, silent)
        BY <4>3 DEF Send
      <4>4. CASE \E c \in got[s] : Ack(s, c)
        BY <4>4 DEF Ack
      <4> QED BY <3>1, <4>1, <4>2, <4>3, <4>4 DEF SocketStep
    <3>2. ASSUME NEW a \in auths, AuthVerified(a) PROVE pushing' = pushing
      BY <3>2 DEF AuthVerified, AuthCommit, alarmVars
    <3>3. ASSUME NEW a \in auths, NEW allowed \in BOOLEAN, AuthClaimed(a, allowed)
          PROVE  pushing' = pushing
      BY <3>3 DEF AuthClaimed, AuthCommit
    <3>4. CASE Tick \/ PushDone \/ Restart \/ UNCHANGED vars
      BY <3>4 DEF Tick, PushDone, Restart, vars, alarmVars
    <3> QED BY <1>1, <3>1, <3>2, <3>3, <3>4 DEF Next
  <2>2. PushIsDue
    BY <2>1 DEF AlarmFires
  <2> QED BY <1>1, <2>2, RelayRoomAssumption DEF PushIsDue, Inv, PushBooks, TypeOK, Time
<1> QED BY <1>1, RelayInvariant, PTL DEF Spec, PushSpacing

-----------------------------------------------------------------------------
(***************************************************************************)
(* The other end of a connection: module RelayClient, for any number of    *)
(* sockets, frames and faults.                                              *)
(***************************************************************************)

SocketState == {"connecting", "open", "closing", "closed"}
Frame == ({"pong", "challenge"} \X Socket) \cup ({"sent", "nack"} \X Msg)
Fate == {"none", "plain", "waiting", "sent", "failed"}

\* The variables' types.
ClientTypes ==
    /\ owner \in BOOLEAN /\ closedByUs \in BOOLEAN
    /\ dropped \in BOOLEAN /\ scheduled \in BOOLEAN
    /\ ws \in Socket /\ readyState \in [Socket -> SocketState]
    /\ link \subseteq Socket /\ proven \subseteq Socket /\ signing \subseteq Socket
    /\ down \in [Socket -> SUBSET Frame]
    /\ status \in [Msg -> Fate]
    /\ outbox \subseteq Msg /\ left \subseteq Msg
    /\ retries \in Nat /\ faults \in 0..MaxFaults
    /\ beating \in BOOLEAN /\ pong \in BOOLEAN

\* The heartbeat belongs to a socket whose close event is still to come.
Beats ==
    /\ pong => beating
    /\ beating => readyState[ws] # "closed"

\* Whatever is connecting or open is the socket whose events count.
OneSocket == \A s \in Socket : readyState[s] \in {"connecting", "open"} => s = ws

\* A frame waits or has left, only what has left is answered, and a frame whose
\* promise failed does not wait, unless all promises were failed by close.
Books ==
    /\ outbox \cap left = {}
    /\ \A m \in Msg : status[m] \in {"plain", "waiting", "sent"} => m \in outbox \cup left
    /\ \A m \in outbox \cup left : status[m] # "none"
    /\ \A m \in outbox : ~dropped => status[m] # "failed"
    /\ \A s \in Socket : \A f \in down[s] : f[1] \in {"sent", "nack"} => f[2] \in left

ClientInv == ClientTypes /\ Beats /\ OneSocket /\ Books

\* A client that was closed with no timer pending has no socket, and nothing that
\* would open one.
Quiet ==
    /\ ~dropped => ~closedByUs
    /\ dropped /\ ~scheduled => closedByUs /\ retries = 0 /\ Live = {}

-----------------------------------------------------------------------------
(* Facts about connecting.                                                 *)

\* ws.close() leaves nothing connecting or open.
LEMMA ClosingEndsAll ==
    ASSUME ClientTypes, OneSocket
    PROVE  /\ Closing \in [Socket -> SocketState]
           /\ \A s \in Socket : Closing[s] \notin {"connecting", "open"}
           /\ Closing[ws] = "closed" => readyState[ws] = "closed"
           /\ readyState[ws] = "closed" => Closing = readyState
BY DEF ClientTypes, OneSocket, Closing, Live, SocketState

\* connect leaves one live socket, and it is the one whose events count.
LEMMA ConnectsOne ==
    ASSUME ClientTypes, NEW c \in [Socket -> SocketState],
           \A s \in Socket : c[s] \in {"connecting", "open"} => s = ws,
           ConnectFrom(c)
    PROVE  /\ closedByUs' = FALSE
           /\ ws' \in Socket /\ readyState' \in [Socket -> SocketState]
           /\ readyState'[ws'] \in {"connecting", "open"}
           /\ \A s \in Socket : readyState'[s] \in {"connecting", "open"} => s = ws'
<1>1. CASE c[ws] \in {"connecting", "open"}
  BY <1>1 DEF ConnectFrom, ClientTypes
<1>2. CASE c[ws] \notin {"connecting", "open"}
  <2>1. PICK s \in NewSock(c) : ws' = s /\ readyState' = [c EXCEPT ![s] = "connecting"]
    BY <1>2 DEF ConnectFrom
  <2>2. s \in Socket
    BY DEF NewSock
  <2>3. closedByUs' = FALSE
    BY DEF ConnectFrom
  <2> QED
    BY <1>2, <2>1, <2>2, <2>3 DEF ClientTypes, SocketState
<1> QED
  BY <1>1, <1>2

\* What the relay answers is a frame of the protocol, about what was written.
LEMMA AnswersAreFrames ==
    ASSUME NEW ms \in SUBSET Msg, NEW answers \in Answers(ms)
    PROVE  /\ answers \subseteq Frame
           /\ \A f \in answers : f[1] \in {"sent", "nack"} /\ f[2] \in ms
<1>1. PICK full \in SUBSET ms :
          answers = {<<IF m \in full THEN "nack" ELSE "sent", m>> : m \in ms}
  BY DEF Answers
<1>2. \A f \in answers : \E m \in ms : f = <<"nack", m>> \/ f = <<"sent", m>>
  BY <1>1
<1> QED
  BY <1>2 DEF Frame

\* What is written to a socket adds answers to what is on its way from it.
LEMMA AnsweredAdds ==
    ASSUME ClientTypes, NEW s \in Socket, NEW answers \in SUBSET Frame,
           Answered(s, answers)
    PROVE  /\ down' \in [Socket -> SUBSET Frame]
           /\ \A t \in Socket : \A f \in down'[t] : f \in down[t] \/ f \in answers
BY DEF ClientTypes, Answered

-----------------------------------------------------------------------------
(* Each action keeps the invariant.                                        *)

LEMMA ClientInitInv == ClientInit => ClientInv /\ Quiet
<1> SUFFICES ASSUME ClientInit PROVE ClientInv /\ Quiet
  OBVIOUS
<1>1. 1 \in Socket /\ 0 \in 0..MaxFaults
  BY RelayClientAssumption DEF Socket
<1>2. ClientTypes
  BY <1>1 DEF ClientInit, ClientTypes, SocketState, Frame, Fate
<1>3. Beats /\ OneSocket /\ Books
  BY <1>1 DEF ClientInit, Beats, OneSocket, Books
<1>4. Quiet
  BY DEF ClientInit, Quiet
<1> QED
  BY <1>2, <1>3, <1>4 DEF ClientInv

\* Steps that touch neither sockets nor frames nor timers.
LEMMA StutterInv == ClientInv /\ UNCHANGED clientVars => ClientInv'
BY DEF ClientInv, ClientTypes, Beats, OneSocket, Books, clientVars, sockets, frames, timers, closed

LEMMA ReconnectKeeps ==
    ASSUME ClientInv, Reconnect, UNCHANGED signing, faults' \in 0..MaxFaults
    PROVE  ClientInv'
<1>1. /\ Closing \in [Socket -> SocketState]
      /\ \A s \in Socket : Closing[s] \notin {"connecting", "open"}
  BY ClosingEndsAll DEF ClientInv
<1>2. /\ closedByUs' = FALSE
      /\ ws' \in Socket /\ readyState' \in [Socket -> SocketState]
      /\ \A s \in Socket : readyState'[s] \in {"connecting", "open"} => s = ws'
  BY <1>1, ConnectsOne DEF ClientInv, Reconnect
<1>3. ClientTypes'
  BY <1>2 DEF ClientInv, ClientTypes, Reconnect, StopHeartbeat, frames, closed
<1>4. Beats'
  BY DEF Reconnect, StopHeartbeat, Beats
<1>5. OneSocket'
  BY <1>2 DEF OneSocket
<1>6. Books'
  BY DEF ClientInv, Books, Reconnect, frames, closed
<1> QED
  BY <1>3, <1>4, <1>5, <1>6 DEF ClientInv

LEMMA FaultBound == ASSUME ClientInv, Fault PROVE faults' \in 0..MaxFaults
BY RelayClientAssumption DEF ClientInv, ClientTypes, Fault

LEMMA OpensInv == ASSUME ClientInv, Opens PROVE ClientInv'
<1>1. PICK answers \in Answers(outbox) :
          Answered(ws, answers \cup IF owner THEN {<<"challenge", ws>>} ELSE {})
  BY DEF Opens
<1> DEFINE all == answers \cup IF owner THEN {<<"challenge", ws>>} ELSE {}
<1>2. /\ answers \subseteq Frame
      /\ \A f \in answers : f[1] \in {"sent", "nack"} /\ f[2] \in outbox
  BY AnswersAreFrames DEF ClientInv, ClientTypes
<1>3. all \subseteq Frame
  BY <1>2 DEF ClientInv, ClientTypes, Frame
<1>4. \A f \in all : f[1] \in {"sent", "nack"} => f[2] \in outbox
  BY <1>2
<1>5. /\ down' \in [Socket -> SUBSET Frame]
      /\ \A t \in Socket : \A f \in down'[t] : f \in down[t] \/ f \in all
  BY <1>1, <1>3, AnsweredAdds DEF ClientInv, ClientTypes
<1> HIDE DEF all
<1>6. ClientTypes'
  BY <1>5 DEF ClientInv, ClientTypes, Opens, SocketState, closed
<1>7. Beats' /\ OneSocket'
  BY DEF ClientInv, ClientTypes, Opens, Beats, OneSocket
<1>8. Books'
  BY <1>4, <1>5 DEF ClientInv, ClientTypes, Books, Opens
<1> QED
  BY <1>6, <1>7, <1>8 DEF ClientInv

LEMMA ClosedInv == ASSUME ClientInv, NEW s \in Socket, OnClose(s) PROVE ClientInv'
<1>a. retries' \in Nat
  <2>1. retries' = retries \/ retries' = retries + 1
    BY DEF OnClose, timers
  <2> QED
    BY <2>1 DEF ClientInv, ClientTypes
<1>c. beating' \in BOOLEAN /\ pong' \in BOOLEAN
  BY DEF ClientInv, ClientTypes, OnClose, StopHeartbeat, timers
<1>b. /\ readyState' = [readyState EXCEPT ![s] = "closed"]
      /\ link' = link \cup {s} /\ proven' = proven \ {s}
      /\ down' = [down EXCEPT ![s] = {}]
      /\ UNCHANGED <<owner, ws, closedByUs, signing, status, outbox, left, closed, faults>>
  BY DEF OnClose, frames
<1>1. ClientTypes'
  BY <1>a, <1>b, <1>c DEF ClientInv, ClientTypes, SocketState, closed
<1>2. Beats' /\ OneSocket'
  BY DEF ClientInv, ClientTypes, Beats, OneSocket, OnClose, StopHeartbeat, timers
<1>3. Books'
  BY DEF ClientInv, ClientTypes, Books, OnClose, frames, closed
<1> QED
  BY <1>1, <1>2, <1>3 DEF ClientInv

LEMMA RetryInv == ASSUME ClientInv, Retry PROVE ClientInv'
<1>1. /\ ws' \in Socket /\ readyState' \in [Socket -> SocketState]
      /\ readyState'[ws'] \in {"connecting", "open"}
      /\ \A s \in Socket : readyState'[s] \in {"connecting", "open"} => s = ws'
      /\ closedByUs' = FALSE
  BY ConnectsOne DEF ClientInv, ClientTypes, OneSocket, Retry
<1>r. retries' \in Nat
  BY DEF ClientInv, ClientTypes, Retry
<1>2. ClientTypes'
  BY <1>1, <1>r DEF ClientInv, ClientTypes, Retry, frames, closed
<1>3. Beats' /\ OneSocket'
  BY <1>1 DEF ClientInv, Beats, OneSocket, Retry
<1>4. Books'
  BY DEF ClientInv, Books, Retry, frames, closed
<1> QED
  BY <1>2, <1>3, <1>4 DEF ClientInv

LEMMA FailsInv == ASSUME ClientInv, Fails PROVE ClientInv'
<1>1. /\ Closing \in [Socket -> SocketState]
      /\ \A s \in Socket : Closing[s] \notin {"connecting", "open"}
      /\ Closing[ws] = "closed" => readyState[ws] = "closed"
  BY ClosingEndsAll DEF ClientInv
<1>2. faults' \in 0..MaxFaults
  BY FaultBound DEF Fails
<1>3. ClientTypes'
  BY <1>1, <1>2 DEF ClientInv, ClientTypes, Fails, frames, timers, closed
<1>4. Beats' /\ OneSocket'
  BY <1>1 DEF ClientInv, Beats, OneSocket, Fails, timers
<1>5. Books'
  BY DEF ClientInv, Books, Fails, frames, closed
<1> QED
  BY <1>3, <1>4, <1>5 DEF ClientInv

LEMMA DiesInv == ASSUME ClientInv, Dies PROVE ClientInv'
<1>1. faults' \in 0..MaxFaults
  BY FaultBound DEF Dies
<1>2. ClientTypes'
  BY <1>1 DEF ClientInv, ClientTypes, Dies, frames, timers, closed
<1>3. Beats' /\ OneSocket'
  BY DEF ClientInv, Beats, OneSocket, Dies, timers
<1>4. Books'
  BY DEF ClientInv, ClientTypes, Books, Dies, frames, closed
<1> QED
  BY <1>2, <1>3, <1>4 DEF ClientInv

LEMMA BeatInv == ASSUME ClientInv, Beat PROVE ClientInv'
<1>1. {<<"pong", ws>>} \subseteq Frame
  BY DEF ClientInv, ClientTypes, Frame
<1>2. /\ down' \in [Socket -> SUBSET Frame]
      /\ \A t \in Socket : \A f \in down'[t] : f \in down[t] \/ f \in {<<"pong", ws>>}
  BY <1>1, AnsweredAdds DEF ClientInv, ClientTypes, Beat
<1>3. ClientTypes'
  BY <1>2 DEF ClientInv, ClientTypes, Beat, frames, closed
<1>4. Beats' /\ OneSocket'
  BY DEF ClientInv, Beats, OneSocket, Beat
<1>5. Books'
  BY <1>2 DEF ClientInv, Books, Beat, frames, closed
<1> QED
  BY <1>3, <1>4, <1>5 DEF ClientInv

LEMMA ReceiveInv ==
    ASSUME ClientInv, NEW f \in down[ws], Receive(f)
    PROVE  ClientInv'
<1>1. /\ f \in Frame
      /\ down' \in [Socket -> SUBSET Frame]
      /\ \A t \in Socket : \A g \in down'[t] : g \in down[t]
  BY DEF ClientInv, ClientTypes, Receive
<1>2. \/ f[1] = "pong" /\ pong' = FALSE /\ UNCHANGED <<status, signing>>
      \/ /\ f[1] \in {"sent", "nack"} /\ UNCHANGED <<pong, signing>>
         /\ Settle(f[2], "sent") \/ Settle(f[2], "failed")
      \/ signing' = signing \cup {ws} /\ UNCHANGED <<pong, status>>
  BY DEF Receive
<1>3. CASE f[1] \in {"sent", "nack"} /\ UNCHANGED <<pong, signing>>
           /\ (Settle(f[2], "sent") \/ Settle(f[2], "failed"))
  <2>1. f[2] \in left /\ f[2] \in Msg
    BY <1>3 DEF ClientInv, ClientTypes, Books
  <2>2. /\ status' \in [Msg -> Fate]
        /\ \A m \in Msg : m # f[2] => status'[m] = status[m]
        /\ status'[f[2]] # "none"
    BY <1>3, <2>1 DEF ClientInv, ClientTypes, Books, Settle, Fate
  <2>3. ClientTypes'
    BY <1>1, <1>3, <2>2 DEF ClientInv, ClientTypes, Receive, closed
  <2>4. Beats' /\ OneSocket'
    BY <1>3 DEF ClientInv, Beats, OneSocket, Receive
  <2>5. Books'
    BY <1>1, <2>1, <2>2 DEF ClientInv, ClientTypes, Books, Receive, closed
  <2> QED
    BY <2>3, <2>4, <2>5 DEF ClientInv
<1>4. CASE UNCHANGED status /\ (pong' = FALSE \/ UNCHANGED pong)
           /\ (signing' = signing \cup {ws} \/ UNCHANGED signing)
  <2>1. ClientTypes'
    BY <1>1, <1>4 DEF ClientInv, ClientTypes, Receive, closed
  <2>2. Beats' /\ OneSocket'
    BY <1>4 DEF ClientInv, Beats, OneSocket, Receive
  <2>3. Books'
    BY <1>1, <1>4 DEF ClientInv, ClientTypes, Books, Receive, closed
  <2> QED
    BY <2>1, <2>2, <2>3 DEF ClientInv
<1> QED
  BY <1>2, <1>3, <1>4

LEMMA SignedInv == ASSUME ClientInv, NEW n \in Socket, Signed(n) PROVE ClientInv'
<1>1. /\ Closing \in [Socket -> SocketState]
      /\ \A s \in Socket : Closing[s] \notin {"connecting", "open"}
      /\ Closing[ws] = "closed" => readyState[ws] = "closed"
  BY ClosingEndsAll DEF ClientInv
<1>2. /\ readyState' = readyState \/ readyState' = Closing
      /\ proven' \subseteq Socket /\ signing' \subseteq Socket
  BY DEF Signed, ClientInv, ClientTypes
<1>3. ClientTypes'
  BY <1>1, <1>2 DEF ClientInv, ClientTypes, Signed, frames, timers, closed
<1>4. Beats' /\ OneSocket'
  BY <1>1, <1>2 DEF ClientInv, Beats, OneSocket, Signed, timers
<1>5. Books'
  BY DEF ClientInv, Books, Signed, frames, closed
<1> QED
  BY <1>3, <1>4, <1>5 DEF ClientInv

LEMMA SendFrameInv ==
    ASSUME ClientInv, NEW m \in Msg, NEW promised \in BOOLEAN, SendFrame(m, promised)
    PROVE  ClientInv'
<1>1. /\ status[m] = "none" /\ m \notin outbox \cup left /\ ~dropped /\ dropped' = dropped
      /\ status' = [status EXCEPT ![m] = IF promised THEN "waiting" ELSE "plain"]
  BY DEF SendFrame, ClientInv, Books, closed
<1>2. /\ status' \in [Msg -> Fate]
      /\ \A k \in Msg : k # m => status'[k] = status[k]
      /\ status'[m] \in {"waiting", "plain"}
  BY <1>1 DEF ClientInv, ClientTypes, Fate
<1>3. Beats' /\ OneSocket'
  BY DEF ClientInv, Beats, OneSocket, SendFrame, timers
<1>4. CASE IsUp
  <2>1. PICK answers \in Answers({m}) : Answered(ws, answers)
    BY <1>4 DEF SendFrame
  <2>2. /\ answers \subseteq Frame
        /\ \A f \in answers : f[2] \in {m}
    BY AnswersAreFrames
  <2>3. /\ down' \in [Socket -> SUBSET Frame]
        /\ \A t \in Socket : \A f \in down'[t] : f \in down[t] \/ f \in answers
    BY <2>1, <2>2, AnsweredAdds DEF ClientInv, ClientTypes
  <2>4. left' = left \cup {m} /\ outbox' = outbox
    BY <1>4 DEF SendFrame
  <2>5. ClientTypes'
    BY <1>2, <2>3, <2>4 DEF ClientInv, ClientTypes, SendFrame, timers, closed
  <2>6. Books'
    BY <1>1, <1>2, <2>2, <2>3, <2>4 DEF ClientInv, ClientTypes, Books
  <2> QED
    BY <1>3, <2>5, <2>6 DEF ClientInv
<1>5. CASE ~IsUp
  <2>1. outbox' = outbox \cup {m} /\ left' = left /\ down' = down
    BY <1>5 DEF SendFrame
  <2>2. ClientTypes'
    BY <1>2, <2>1 DEF ClientInv, ClientTypes, SendFrame, timers, closed
  <2>3. Books'
    BY <1>1, <1>2, <2>1 DEF ClientInv, ClientTypes, Books
  <2> QED
    BY <1>3, <2>2, <2>3 DEF ClientInv
<1> QED
  BY <1>4, <1>5

LEMMA TimeoutInv == ASSUME ClientInv, NEW m \in Msg, Timeout(m) PROVE ClientInv'
<1>1. /\ status[m] = "waiting" /\ status' = [status EXCEPT ![m] = "failed"]
      /\ outbox' = outbox \ {m}
  BY DEF Timeout, Settle, ClientInv, ClientTypes
<1>2. ClientTypes'
  BY <1>1 DEF ClientInv, ClientTypes, Timeout, sockets, timers, Fate, closed
<1>3. Beats' /\ OneSocket'
  BY DEF ClientInv, Beats, OneSocket, Timeout, sockets, timers
<1>4. Books'
  BY <1>1 DEF ClientInv, ClientTypes, Books, Timeout, sockets, closed
<1> QED
  BY <1>2, <1>3, <1>4 DEF ClientInv

LEMMA CloseInv == ASSUME ClientInv, Close PROVE ClientInv'
<1>1. /\ Closing \in [Socket -> SocketState]
      /\ \A s \in Socket : Closing[s] \notin {"connecting", "open"}
  BY ClosingEndsAll DEF ClientInv
<1>2. /\ status' \in [Msg -> Fate]
      /\ \A m \in Msg : \/ status'[m] = status[m]
                        \/ status[m] = "waiting" /\ status'[m] = "failed"
  BY DEF ClientInv, ClientTypes, Close, Fate
<1>3. ClientTypes'
  <2>1. scheduled' \in BOOLEAN
    BY DEF Close
  <2> QED
    BY <1>1, <1>2, <2>1 DEF ClientInv, ClientTypes, Close, StopHeartbeat
<1>4. Beats' /\ OneSocket'
  BY <1>1 DEF Close, StopHeartbeat, Beats, OneSocket
<1>5. Books'
  BY <1>2 DEF ClientInv, ClientTypes, Books, Close
<1> QED
  BY <1>3, <1>4, <1>5 DEF ClientInv

LEMMA ClientStepInv == ASSUME ClientInv, [ClientNext]_clientVars PROVE ClientInv'
<1>1. CASE UNCHANGED clientVars
  BY <1>1, StutterInv
<1>2. CASE Opens
  BY <1>2, OpensInv
<1>3. CASE Retry
  BY <1>3, RetryInv
<1>4. CASE Beat
  BY <1>4, BeatInv
<1>5. CASE NoPong
  <2>1. Reconnect /\ UNCHANGED signing /\ faults' = faults
    BY <1>5 DEF NoPong, PongTimeout, Reconnect
  <2> QED
    BY <2>1, ReconnectKeeps DEF ClientInv, ClientTypes
<1>6. CASE SlowPong
  <2>1. Reconnect /\ UNCHANGED signing /\ Fault
    BY <1>6 DEF SlowPong, PongTimeout, Reconnect
  <2> QED
    BY <2>1, ReconnectKeeps, FaultBound
<1>7. CASE Foreground
  <2>1. Reconnect /\ UNCHANGED signing /\ Fault
    BY <1>7 DEF Foreground, Reconnect
  <2> QED
    BY <2>1, ReconnectKeeps, FaultBound
<1>8. CASE Fails
  BY <1>8, FailsInv
<1>9. CASE Dies
  BY <1>9, DiesInv
<1>10. CASE Close
  BY <1>10, CloseInv
<1>11. CASE \E s \in Socket : OnClose(s) \/ Signed(s)
  BY <1>11, ClosedInv, SignedInv
<1>12. CASE \E f \in down[ws] : Receive(f)
  BY <1>12, ReceiveInv
<1>13. CASE \E m \in Msg : Timeout(m) \/ \E promised \in BOOLEAN : SendFrame(m, promised)
  BY <1>13, TimeoutInv, SendFrameInv
<1> QED
  BY <1>1, <1>2, <1>3, <1>4, <1>5, <1>6, <1>7, <1>8, <1>9, <1>10, <1>11, <1>12, <1>13
     DEF ClientNext

-----------------------------------------------------------------------------
(* A closed client stays closed.                                           *)

\* A step of an open client that closes nothing leaves Quiet alone.
LEMMA OpenKeepsQuiet ==
    ASSUME Quiet, ~dropped, ~dropped', ~closedByUs'
    PROVE  Quiet'
BY DEF Quiet

\* So does a step after close that opens nothing.
LEMMA ClosedKeepsQuiet ==
    ASSUME Quiet, dropped, ~scheduled, dropped', closedByUs', retries' = retries,
           \A s \in Socket : readyState'[s] \in {"connecting", "open"} => s \in Live
    PROVE  Quiet'
BY DEF Quiet, Live

\* The steps that such a client no longer takes.
LEMMA ClosedIsInert ==
    ASSUME ClientInv, Quiet, dropped, ~scheduled
    PROVE  /\ ~IsUp /\ readyState[ws] # "connecting" /\ ~Reconnect
           /\ retries = 0 /\ closedByUs
BY DEF ClientInv, ClientTypes, Quiet, Live, IsUp, Reconnect

\* No step but close changes whether and how the application has closed it.
LEMMA OnlyCloseCloses ==
    ASSUME ClientNext, ~Close
    PROVE  dropped' = dropped /\ scheduled' = scheduled
BY DEF ClientNext, Opens, Retry, Beat, NoPong, SlowPong, PongTimeout, Foreground,
   Reconnect, Fails, Dies, OnClose, Signed, Receive, Timeout, SendFrame, closed

LEMMA StepQuiet ==
    ASSUME ClientInv, Quiet, [ClientNext]_clientVars
    PROVE  Quiet'
<1>1. CASE UNCHANGED clientVars
  BY <1>1 DEF Quiet, Live, clientVars, sockets, frames, timers, closed
<1>2. CASE ClientNext /\ dropped /\ ~scheduled
  <2>1. /\ ~IsUp /\ readyState[ws] # "connecting" /\ ~Reconnect
        /\ retries = 0 /\ closedByUs /\ Live = {}
    BY <1>2, ClosedIsInert DEF Quiet
  <2>2. ~Opens /\ ~Beat /\ ~NoPong /\ ~SlowPong /\ ~Foreground /\ ~Dies /\ ~Close
    BY <1>2, <2>1 DEF Opens, Beat, NoPong, SlowPong, PongTimeout, Foreground, Dies, Close
  <2>3. dropped'
    BY <1>2, <2>2, OnlyCloseCloses
  <2>4. CASE \E s \in Socket : OnClose(s)
    <3>1. PICK s \in Socket : OnClose(s)
      BY <2>4
    <3>2. closedByUs' /\ retries' = retries
      BY <2>1, <3>1 DEF OnClose, timers
    <3>3. \A t \in Socket : readyState'[t] \in {"connecting", "open"} => t \in Live
      BY <3>1 DEF OnClose, Live, ClientInv, ClientTypes
    <3> QED
      BY <1>2, <2>3, <3>2, <3>3, ClosedKeepsQuiet
  <2>5. CASE \E s \in Socket : Signed(s)
    <3>1. PICK s \in Socket : Signed(s)
      BY <2>5
    <3>2. closedByUs' /\ retries' = retries /\ readyState' = readyState
      BY <2>1, <3>1 DEF Signed, timers
    <3> QED
      BY <1>2, <2>3, <3>2, ClosedKeepsQuiet DEF Live
  <2>6. CASE \E m \in Msg : Timeout(m)
    <3>1. closedByUs' /\ retries' = retries /\ readyState' = readyState
      BY <2>1, <2>6 DEF Timeout, timers, sockets
    <3> QED
      BY <1>2, <2>3, <3>1, ClosedKeepsQuiet DEF Live
  <2>7. ~Retry /\ ~Fails
    <3>1. ~Retry
      BY <2>1 DEF Retry
    <3>2. ~Fails
      BY <2>1 DEF Fails
    <3> QED
      BY <3>1, <3>2
  <2>8. /\ ~ \E f \in down[ws] : Receive(f)
        /\ ~ \E m \in Msg : \E promised \in BOOLEAN : SendFrame(m, promised)
    BY <1>2, <2>1 DEF Receive, SendFrame
  <2> QED
    BY <1>2, <2>2, <2>4, <2>5, <2>6, <2>7, <2>8 DEF ClientNext
<1>3. CASE ClientNext /\ dropped /\ scheduled
  <2>1. ~Close
    BY <1>3 DEF Close
  <2> QED
    BY <1>3, <2>1, OnlyCloseCloses DEF Quiet
<1>4. CASE ~dropped /\ Close
  <2>1. /\ retries' = retries /\ dropped' /\ closedByUs' /\ retries \in Nat
    BY <1>4 DEF Close, StopHeartbeat, ClientInv, ClientTypes
  <2>2. ~scheduled' => retries' = 0
    <3>1. scheduled' <=> retries > 0
      BY <1>4 DEF Close
    <3> QED
      BY <2>1, <3>1
  <2>3. \A s \in Socket : readyState'[s] \notin {"connecting", "open"}
    BY <1>4, ClosingEndsAll DEF Close, ClientInv
  <2> QED
    BY <2>1, <2>2, <2>3 DEF Quiet, Live
<1>5. CASE ~dropped /\ ClientNext /\ ~Close
  <2>1. ~closedByUs /\ ~dropped'
    BY <1>5, OnlyCloseCloses DEF Quiet
  <2>2. closedByUs' = FALSE \/ closedByUs' = closedByUs
    BY <1>5 DEF ClientNext, Opens, Retry, Beat, NoPong, SlowPong, PongTimeout, Foreground,
       Reconnect, ConnectFrom, Fails, Dies, OnClose, Signed, Receive, Timeout, SendFrame, sockets
  <2> QED
    BY <1>5, <2>1, <2>2, OpenKeepsQuiet
<1> QED
  BY <1>1, <1>2, <1>3, <1>4, <1>5

-----------------------------------------------------------------------------
(* Theorems about the client.                                              *)

\* The inductive invariant holds in every behaviour of the client (relay.ts).
THEOREM ClientInvariant == ClientSpec => []ClientInv
<1>1. ClientInit => ClientInv
  BY ClientInitInv
<1>2. ClientInv /\ [ClientNext]_clientVars => ClientInv'
  BY ClientStepInv
<1> QED
  BY <1>1, <1>2, PTL DEF ClientSpec

\* Types, and that the heartbeat and its timer belong to a socket (startHeartbeat,
\* stopHeartbeat).
THEOREM ClientTypeCorrect == ClientSpec => []ClientTypeOK
<1>1. ClientInv => ClientTypeOK
  BY DEF ClientInv, ClientTypes, Beats, Books, ClientTypeOK, SocketState, Frame, Fate
<1> QED
  BY <1>1, ClientInvariant, PTL

\* connect and reconnect never leave two sockets beside each other, also when the
\* client is closed while a timer is pending.
THEOREM OneConnection == ClientSpec => [](Live \subseteq {ws})
<1>1. ClientInv => Live \subseteq {ws}
  BY DEF ClientInv, OneSocket, Live
<1> QED
  BY <1>1, ClientInvariant, PTL

\* Unless a timer to connect was pending when the application closed the client
\* there is no connection after it, and a frame whose caller was told that it
\* failed does not leave (close, sendConfirmed).
THEOREM StaysDisciplined == ClientSpec => []Disciplined
<1>1. ClientInit => ClientInv /\ Quiet
  BY ClientInitInv
<1>2. ClientInv /\ Quiet /\ [ClientNext]_clientVars => (ClientInv /\ Quiet)'
  BY ClientStepInv, StepQuiet
<1>3. ClientInv /\ Quiet => Disciplined
  BY DEF ClientInv, OneSocket, Books, Quiet, Live, Disciplined
<1> QED
  BY <1>1, <1>2, <1>3, PTL DEF ClientSpec
=============================================================================
