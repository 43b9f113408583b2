------------------------------ MODULE RelayRoom ------------------------------
(* The mailbox Durable Object of worker/relay.ts: one inbox, its queue of      *)
(* sealed messages, the WebSockets attached to it, the ownership proof, and    *)
(* the single alarm that serves both the wake-up push and the queue's expiry.  *)
(*                                                                             *)
(* A frame's handler runs in one step from the moment its actor has been       *)
(* charged: charging awaits another object, so the frames of a socket reach    *)
(* their handlers in any order and possibly after the socket is gone.          *)
(* Two handlers are suspended again in the middle: "auth" awaits Web Crypto    *)
(* and, in an unclaimed room, the claim; alarm() awaits the push requests.     *)
(* Storage awaits are not steps: the input gate delivers nothing meanwhile.    *)
(* Bodies and the byte cap are abstracted (FullSend may refuse any message     *)
(* when the queue is not empty); push subscriptions are not modelled.         *)
EXTENDS Naturals, FiniteSets

CONSTANTS
    Sock,               \* identities of connections
    Keyed,              \* the connections whose client holds the inbox's key
    None,               \* "null": no deadline, no alarm
    MaxQueue,           \* MAX_QUEUE
    MaxQueueUnclaimed,  \* MAX_QUEUE_UNCLAIMED
    QueueTTL,           \* QUEUE_TTL_MS
    PushCoalesce,       \* PUSH_COALESCE_MS
    ChallengeTTL,       \* AUTH_CHALLENGE_TTL_MS
    MaxConnections,     \* MAX_CONNECTIONS
    MaxUnauth,          \* MAX_UNAUTH_CONNECTIONS
    KeepGuests,         \* how many guests an owner's arrival leaves connected
    MaxTime,            \* bound: the clock stops here
    LastSend,           \* bound: no message is offered after this time
    MaxSends,           \* bound: messages ever accepted
    MaxHello,           \* bound: challenges per connection
    MaxAuths            \* bound: suspended "auth" handlers per connection

ASSUME RelayRoomAssumption ==
    /\ Keyed \subseteq Sock
    /\ None \notin Nat
    /\ MaxQueue \in Nat /\ MaxQueueUnclaimed \in Nat
    /\ QueueTTL \in Nat /\ PushCoalesce \in Nat /\ ChallengeTTL \in Nat
    /\ MaxConnections \in Nat /\ MaxUnauth \in Nat /\ KeepGuests \in Nat
    /\ MaxTime \in Nat /\ LastSend \in Nat /\ MaxSends \in Nat /\ MaxHello \in [Sock -> Nat]
    /\ MaxAuths \in Nat

VARIABLES
    now,      \* Date.now()
    q,        \* table q: rows [id, body, ts, silent]
    nextId,   \* the next AUTOINCREMENT id, and the body of the next message
    claimed,  \* table room_state has its row
    pushDue,  \* alarm_state row "pushDue"
    alarm,    \* the object's alarm
    pushing,  \* an alarm() call is suspended in notifyOwner
    conn,     \* what getWebSockets() and send() see of a connection
    att,      \* serialized attachments
    auths,    \* "auth" handlers suspended in an await
    got,      \* history: copies <<id, body>> a connection's client has received
    unwoken,  \* history: visible bodies no owner took and no wake-up has considered
    lastPush  \* history: when the last wake-up push began

queueVars == <<q, nextId, claimed>>
alarmVars == <<pushDue, alarm, pushing>>
sockVars  == <<conn, att, auths, got>>
wakeVars  == <<unwoken, lastPush>>
vars == <<now, queueVars, alarmVars, sockVars, wakeVars>>

Time == Nat
\* body stands for the sealed message: no two messages share it.
Row == [id : Nat, body : Nat, ts : Time, silent : BOOLEAN]
Copy == Nat \X Nat

(* "open": both ends live.  "half": the client is gone and the relay has not  *)
(* noticed, so its sends still succeed.  "shut": closing, still listed by      *)
(* getWebSockets(), and send() throws.  "off": no longer listed.               *)
ConnState == {"off", "open", "half", "shut"}
Attachment == [owner : BOOLEAN, since : Time, nonce : Nat, nonceAt : Time]
\* Faulty variant: an attachment without its connection time.
Unstamped(t) == [owner |-> FALSE, since |-> None, nonce |-> 0, nonceAt |-> 0]

\* The attachment of a connection accepted at time t.
FreshAtt(t) == [owner |-> FALSE, since |-> t, nonce |-> 0, nonceAt |-> 0]

Auth == [sock : Sock, nonce : Nat, valid : BOOLEAN, stage : {"verify", "claim"}]

TypeOK ==
    /\ now \in Time
    /\ q \subseteq Row
    /\ nextId \in Nat
    /\ claimed \in BOOLEAN
    /\ pushDue \in Time \union {None}
    /\ alarm \in Time \union {None}
    /\ pushing \in BOOLEAN
    /\ conn \in [Sock -> ConnState]
    /\ att \in [Sock -> Attachment]
    /\ auths \subseteq Auth
    /\ got \in [Sock -> SUBSET Copy]
    /\ unwoken \subseteq Nat
    /\ lastPush \in Time \union {None}

-----------------------------------------------------------------------------
(* Reads of the tables and of the socket list.                                *)

CopyOf(r) == <<r.id, r.body>>
Copies(rows) == {CopyOf(r) : r \in rows}

\* sweepExpired: the rows a sweep keeps.
Swept == {r \in q : r.ts + QueueTTL > now}

\* pendingVisibleCount() > 0.
HasVisible(rows) == \E r \in rows : ~r.silent

\* Faulty variant: a deadline outlives the messages it was armed for.
ClearNever(rows, due) == due

\* clearPushDueIfIdle: the deadline that is left when the queue holds `rows`.
ClearIfIdle(rows, due) == IF HasVisible(rows) THEN due ELSE None

Listed == {s \in Sock : conn[s] # "off"}
Guests == {s \in Listed : ~att[s].owner}
OwnerOnline == \E s \in Listed : att[s].owner

\* sendJson returns true: to a client that may be gone without notice.
Writable(s) == conn[s] \in {"open", "half"}

\* closeSocket on every socket of S.
Closed(S) == [s \in Sock |-> IF s \in S /\ conn[s] # "off" THEN "shut" ELSE conn[s]]

-----------------------------------------------------------------------------
(* The one alarm.                                                             *)

\* What the alarm has to serve: the push deadline and each row's expiry.
Deadlines(rows, due) ==
    {r.ts + QueueTTL : r \in rows} \union (IF due = None THEN {} ELSE {due})

\* Faulty variant: the push is scheduled alone and replaces the expiry's alarm.
SchedulePushOnly(rows, due) == alarm' = due

\* scheduleNextAlarm: the earliest of the deadlines, no alarm without one.
ScheduleNext(rows, due) ==
    IF Deadlines(rows, due) = {}
    THEN alarm' = None
    ELSE \E t \in Deadlines(rows, due) :
            /\ \A u \in Deadlines(rows, due) : t <= u
            /\ alarm' = t

\* Faulty variant: every later message of a burst postpones the wake-up.
ArmPushPostponed(due) == now + PushCoalesce

\* scheduleWake: INSERT OR IGNORE keeps the first message's deadline.
ArmPush(due) == IF due = None THEN now + PushCoalesce ELSE due

-----------------------------------------------------------------------------
Init ==
    /\ now = 0
    /\ q = {} /\ nextId = 1 /\ claimed = FALSE
    /\ pushDue = None /\ alarm = None /\ pushing = FALSE
    /\ conn = [s \in Sock |-> "off"]
    /\ att = [s \in Sock |-> FreshAtt(0)]
    /\ auths = {}
    /\ got = [s \in Sock |-> {}]
    /\ unwoken = {} /\ lastPush = None

Tick ==
    /\ now < MaxTime
    /\ now' = now + 1
    /\ UNCHANGED <<queueVars, alarmVars, sockVars, wakeVars>>

-----------------------------------------------------------------------------
(* Connections.                                                               *)

\* makeConnectionSlot: nobody is evicted below both caps; at a cap one of the
\* longest connected guests is.  Owners never are.
SlotVictims ==
    IF Cardinality(Listed) < MaxConnections /\ Cardinality(Guests) < MaxUnauth
    THEN {{}}
    ELSE {{v} : v \in {g \in Guests : \A h \in Guests : att[g].since <= att[h].since}}

\* fetch: accept a WebSocket.  Without a slot the answer is 429 and nothing
\* changes.  An identity is used again once its old handlers have ended.
Connect(s) ==
    /\ conn[s] = "off"
    /\ \A a \in auths : a.sock # s
    /\ \E victims \in SlotVictims :
          conn' = [Closed(victims) EXCEPT ![s] = "open"]
    /\ att' = [att EXCEPT ![s] = FreshAtt(now)]
    /\ q' = Swept
    /\ pushDue' = ClearIfIdle(Swept, pushDue)
    /\ ScheduleNext(Swept, pushDue')
    /\ UNCHANGED <<now, nextId, claimed, pushing, auths, got, wakeVars>>

\* The client of a connection is lost and the relay does not know.  It makes
\* no difference to a guest, which is sent nothing.
Vanish(s) ==
    /\ s \in Keyed /\ conn[s] = "open"
    /\ conn' = [conn EXCEPT ![s] = "half"]
    /\ UNCHANGED <<now, queueVars, alarmVars, att, auths, got, wakeVars>>

\* The socket starts to close: the client's close frame, an error, or one of
\* the handlers' refusals (rate limit, malformed or oversized frame).
Shut(s) ==
    /\ Writable(s)
    /\ conn' = [conn EXCEPT ![s] = "shut"]
    /\ UNCHANGED <<now, queueVars, alarmVars, att, auths, got, wakeVars>>

\* webSocketClose, webSocketError: the socket leaves the list.  Its attachment
\* lives on only for a handler that is still suspended.
Gone(s) ==
    /\ conn[s] = "shut"
    /\ conn' = [conn EXCEPT ![s] = "off"]
    /\ att' = IF \E a \in auths : a.sock = s THEN att ELSE [att EXCEPT ![s] = FreshAtt(0)]
    /\ got' = [got EXCEPT ![s] = {}]
    /\ UNCHANGED <<now, queueVars, alarmVars, auths, wakeVars>>

-----------------------------------------------------------------------------
(* Proving ownership.                                                         *)

\* The attachment with a fresh challenge.
Challenged(a) == [a EXCEPT !.nonce = a.nonce + 1, !.nonceAt = now]

\* The attachment written at the end of "auth": the challenge is used up.
Owned(a) == [a EXCEPT !.owner = TRUE, !.nonce = 0, !.nonceAt = 0]

\* hello: a new challenge replaces the one before it.  Nonces are numbered
\* within a connection; 0 stands for none.
Hello(s) ==
    /\ conn[s] # "off"
    /\ att[s].nonce < MaxHello[s]
    /\ att' = [att EXCEPT ![s] = Challenged(@)]
    /\ conn' = IF Writable(s) THEN conn ELSE Closed({s})
    /\ UNCHANGED <<now, queueVars, alarmVars, auths, got, wakeVars>>

\* auth, up to its first await.  The signature is right only if the client
\* holds the key and signed the challenge this handler has read.
AuthStart(s, valid) ==
    /\ conn[s] # "off"
    /\ att[s].nonce # 0
    /\ now <= att[s].nonceAt + ChallengeTTL
    /\ valid => s \in Keyed
    /\ Cardinality({a \in auths : a.sock = s}) < MaxAuths
    /\ auths' = auths \union
         {[sock |-> s, nonce |-> att[s].nonce, valid |-> valid, stage |-> "verify"]}
    /\ UNCHANGED <<now, queueVars, alarmVars, conn, att, got, wakeVars>>

\* trimGuests: all but the newest `keep` guests are closed.
TrimVictims(guests) ==
    LET keep == IF Cardinality(guests) < KeepGuests THEN Cardinality(guests) ELSE KeepGuests
    IN  {drop \in SUBSET guests :
            /\ Cardinality(guests \ drop) = keep
            /\ \A d \in drop, g \in guests \ drop : att[d].since <= att[g].since}

\* Faulty variant: the drain serves user-visible messages only.
DrainVisible(s, rows) ==
    got' = [got EXCEPT ![s] = IF conn[s] = "open"
                              THEN @ \union Copies({r \in rows : ~r.silent}) ELSE @]

\* The drain: every row, in the order of the ids, to the fresh owner socket.
Drain(s, rows) ==
    got' = [got EXCEPT ![s] = IF conn[s] = "open" THEN @ \union Copies(rows) ELSE @]

\* auth, after its last await: the attachment is written from what the handler
\* read at its start, and the owner is served in the same step.
AuthCommit(s) ==
    /\ att' = [att EXCEPT ![s] = Owned(@)]
    /\ IF Writable(s)
       THEN /\ \E drop \in TrimVictims(Guests \ {s}) : conn' = Closed(drop)
            /\ q' = Swept
            /\ Drain(s, Swept)
            /\ pushDue' = None
            /\ ScheduleNext(Swept, None)
            /\ unwoken' = {}
       ELSE /\ conn' = Closed({s})
            /\ UNCHANGED <<q, got, pushDue, alarm, unwoken>>
    /\ UNCHANGED <<now, nextId, pushing, lastPush>>

\* Faulty variant: the challenge is compared and the signature is not.
VerifiesNonce(a) == att[a.sock].nonce = a.nonce

\* The signature was right, and no second hello superseded the challenge
\* while Web Crypto ran.
Verifies(a) == a.valid /\ att[a.sock].nonce = a.nonce

\* auth, Web Crypto has answered.  In a claimed room the handler ends here.
AuthVerified(a) ==
    /\ a \in auths /\ a.stage = "verify"
    /\ \/ /\ ~Verifies(a)
          /\ auths' = auths \ {a}
          /\ conn' = Closed({a.sock})
          /\ UNCHANGED <<now, queueVars, alarmVars, att, got, wakeVars>>
       \/ /\ Verifies(a) /\ claimed
          /\ auths' = auths \ {a}
          /\ AuthCommit(a.sock)
          /\ UNCHANGED claimed
       \/ /\ Verifies(a) /\ ~claimed
          /\ auths' = (auths \ {a}) \union {[a EXCEPT !.stage = "claim"]}
          /\ UNCHANGED <<now, queueVars, alarmVars, conn, att, got, wakeVars>>

\* auth, the claim has been answered.  A refused or failed claim never gates
\* the owner; a granted one counts only for the challenge it was made under.
AuthClaimed(a, allowed) ==
    /\ a \in auths /\ a.stage = "claim"
    /\ auths' = auths \ {a}
    /\ claimed' = (claimed \/ (allowed /\ att[a.sock].nonce = a.nonce))
    /\ AuthCommit(a.sock)

-----------------------------------------------------------------------------
(* Messages.                                                                  *)

QueueCap == IF claimed THEN MaxQueue ELSE MaxQueueUnclaimed

\* Owners the live copy of a new row is sent to.
LiveOwners == {s \in Listed : att[s].owner /\ Writable(s)}

\* Faulty variant: INTEGER PRIMARY KEY without AUTOINCREMENT gives one more than
\* the largest id present.
ReusedId(rows) ==
    IF rows = {} THEN 1
    ELSE CHOOSE n \in 1..nextId : n - 1 \in {r.id : r \in rows} /\ \A r \in rows : r.id < n

\* AUTOINCREMENT: an id is never given twice.
RowId(rows) == nextId

\* send, accepted: the row is stored, acknowledged to the sender, offered to
\* every owner socket, and wakes the owner only if none of them took it.
Send(s, silent) ==
    LET kept == Swept
        row  == [id |-> RowId(kept), body |-> nextId, ts |-> now, silent |-> silent]
        due  == ClearIfIdle(kept, pushDue)
        wake == LiveOwners = {} /\ ~silent
    IN  /\ conn[s] # "off"
        /\ nextId <= MaxSends /\ now <= LastSend
        /\ Cardinality(kept) < QueueCap
        /\ q' = kept \union {row}
        /\ nextId' = nextId + 1
        /\ got' = [p \in Sock |-> IF p \in LiveOwners /\ conn[p] = "open"
                                  THEN got[p] \union {CopyOf(row)} ELSE got[p]]
        /\ pushDue' = IF wake THEN ArmPush(due) ELSE due
        /\ ScheduleNext(kept \union {row}, pushDue')
        /\ unwoken' = IF wake THEN unwoken \union {row.body} ELSE unwoken
        /\ UNCHANGED <<now, claimed, pushing, conn, att, auths, lastPush>>

\* send, refused as "full": the sweep stays done and the alarm is left alone.
FullSend(s) ==
    /\ conn[s] # "off"
    /\ Swept # {}
    /\ q' = Swept
    /\ pushDue' = ClearIfIdle(Swept, pushDue)
    /\ UNCHANGED <<now, nextId, claimed, alarm, pushing, sockVars, wakeVars>>

\* ack: an authenticated owner deletes a row its client has received, however
\* late the frame is handled: the socket may be closing by then.
Ack(s, copy) ==
    /\ conn[s] # "off" /\ att[s].owner
    /\ copy \in got[s]
    /\ q' = {r \in q : r.id # copy[1]}
    /\ pushDue' = ClearIfIdle(q', pushDue)
    /\ ScheduleNext(q', pushDue')
    /\ UNCHANGED <<now, nextId, claimed, pushing, sockVars, wakeVars>>

-----------------------------------------------------------------------------
(* The alarm.                                                                 *)

PushIsDue == pushDue # None /\ pushDue <= now

\* Faulty variant: the due deadline is still there while the requests go out.
DueWhilePushingKept == pushDue

\* The due deadline is cleared before the requests go out.
DueWhilePushing == None

\* alarm(), up to the push requests or to its end.
AlarmFires ==
    /\ alarm # None /\ alarm <= now /\ ~pushing
    /\ q' = Swept
    /\ IF PushIsDue
       THEN /\ pushDue' = DueWhilePushing
            /\ unwoken' = {}
       ELSE /\ pushDue' = ClearIfIdle(Swept, pushDue)
            /\ UNCHANGED unwoken
    /\ IF PushIsDue /\ HasVisible(Swept) /\ ~OwnerOnline
       THEN pushing' = TRUE /\ alarm' = None /\ lastPush' = now
       ELSE ScheduleNext(Swept, pushDue') /\ UNCHANGED <<pushing, lastPush>>
    /\ UNCHANGED <<now, nextId, claimed, sockVars>>

\* alarm(), notifyOwner has returned.
PushDone ==
    /\ pushing
    /\ pushing' = FALSE
    /\ pushDue' = ClearIfIdle(q, pushDue)
    /\ ScheduleNext(q, pushDue')
    /\ UNCHANGED <<now, queueVars, sockVars, wakeVars>>

\* The object is restarted (a deploy, an eviction).  Its sockets and suspended
\* handlers are gone, its tables are not.  An alarm() that had not returned is
\* due again unless a send has set another; the constructor seeds a missing one.
Restart ==
    /\ conn' = [s \in Sock |-> "off"]
    /\ att' = [s \in Sock |-> FreshAtt(0)]
    /\ got' = [s \in Sock |-> {}]
    /\ auths' = {}
    /\ pushing' = FALSE
    /\ IF pushing
       THEN \E t \in {now, alarm} \ {None} : alarm' = t
       ELSE IF alarm = None THEN ScheduleNext(q, pushDue) ELSE UNCHANGED alarm
    /\ UNCHANGED <<now, queueVars, pushDue, wakeVars>>

-----------------------------------------------------------------------------
SocketStep(s) ==
    \/ Connect(s) \/ Vanish(s) \/ Shut(s) \/ Gone(s) \/ Hello(s) \/ FullSend(s)
    \/ \E valid \in BOOLEAN : AuthStart(s, valid)
    \/ \E silent \in BOOLEAN : Send(s, silent)
    \/ \E copy \in got[s] : Ack(s, copy)

Next ==
    \/ Tick \/ AlarmFires \/ PushDone \/ Restart
    \/ \E s \in Sock : SocketStep(s)
    \/ \E a \in auths : AuthVerified(a)
    \/ \E a \in auths, allowed \in BOOLEAN : AuthClaimed(a, allowed)

\* Time passes, the platform delivers due alarms, and a push request ends
\* (PUSH_TIMEOUT_MS).  Nothing is assumed of clients.
Fairness == WF_vars(Tick) /\ WF_vars(AlarmFires) /\ WF_vars(PushDone)

Spec == Init /\ [][Next]_vars
FairSpec == Spec /\ Fairness

-----------------------------------------------------------------------------
(* Only a socket whose client holds the key is ever the owner or receives a   *)
(* message (worker/relay.ts, protocol comment).                               *)
OnlyOwnersReceive ==
    \A s \in Sock : att[s].owner \/ got[s] # {} => s \in Keyed

(* An owner whose socket works has received everything still queued: the      *)
(* drain and the live copies leave no gap, also when a message arrives while   *)
(* the owner's auth is suspended.                                             *)
OwnerSeesAll ==
    \A s \in Sock : att[s].owner /\ conn[s] = "open" => Copies(q) \subseteq got[s]

(* Together: a socket receives what is queued if it proved the key while its   *)
(* auth was suspended, and a socket that did not never receives anything.      *)
OwnersReceive == OnlyOwnersReceive /\ OwnerSeesAll

(* Between handlers the single alarm is never later than what it must serve:  *)
(* a push deadline or an expiry that is not already due has an alarm in time. *)
AlarmNeverLate ==
    ~pushing => \A t \in Deadlines(q, pushDue) : alarm # None /\ (alarm <= t \/ alarm <= now)

(* A wake-up is armed only while a visible message waits: silent frames and    *)
(* messages already acknowledged or expired arm none (the phantom push).       *)
NoPhantomWake == pushDue # None => HasVisible(q)

(* A visible message that no owner socket took keeps a wake-up deadline, at    *)
(* most the coalescing window after the message, until an owner proves itself, *)
(* the alarm has decided about a push, or the message is gone.                 *)
WakeCovered ==
    \A r \in q : r.body \in unwoken => pushDue # None /\ pushDue <= r.ts + PushCoalesce

(* A message leaves the queue because it expired or because an owner who had   *)
(* received it acknowledged it: a late acknowledgement never deletes another.  *)
NoLossStep ==
    \A r \in q : r \in q' \/ r.ts + QueueTTL <= now
                          \/ \E s \in Keyed : att[s].owner /\ CopyOf(r) \in got[s]
NoLoss == [][NoLossStep]_vars

(* A burst of messages makes one push: pushes are at least the coalescing      *)
(* window apart.                                                               *)
PushSpacingStep ==
    ~pushing /\ pushing' => lastPush = None \/ lastPush + PushCoalesce <= now
PushSpacing == [][PushSpacingStep]_vars

(* Storage of an abandoned mailbox is freed by the alarm alone, without any    *)
(* client: once nobody sends, the queue empties and stays empty.               *)
AbandonedQueueDrains == <>[](q = {})
=============================================================================
