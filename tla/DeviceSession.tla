---------------------------- MODULE DeviceSession ----------------------------
(* One pair of devices and the session between them: session.ts sets it up    *)
(* and runs the ratchet, Messenger.tsx makes it durable and talks to the relay.*)
(*                                                                            *)
(* Everything a device does to the session goes through one promise chain     *)
(* (enqueueInbox), a task at a time; a task is suspended at its storage        *)
(* writes, and a crash, or a failing write, may come at any of them. What is   *)
(* sealed reaches the relay after its task, in any order. The relay keeps a    *)
(* row until it is acknowledged, and may hold a ciphertext under two ids.      *)
(* An import of a backup fences the messenger off until it succeeds (a reload, *)
(* and another account) or fails (Resume).                                     *)
(* Contact, master and device-list checks are those of other modules: here     *)
(* both devices are authorised, and a frame that is not genuine is Damaged.    *)
EXTENDS Ratchet, FiniteSets

CONSTANTS
    Low, High,   \* the devices, in the order of their DH keys
    Junk,        \* a ciphertext made with no key of the session
    MaxSends,    \* bound: messages a device seals, a function
    MaxFaults,   \* bound: crashes, failed writes, lost acks, copies, damage
    MaxDamage    \* bound: those of the faults that are damaged rows

Dev == {Low, High}

ASSUME DeviceSessionAssumption ==
    /\ Low # High
    /\ MaxSends \in [Dev -> Nat] /\ MaxFaults \in Nat /\ MaxDamage \in Nat

Peer(d) == IF d = Low THEN High ELSE Low

\* What is kept and sent. A key pair, or a secret, is known by its owner and a
\* number; keys and roots of a frame that is not genuine may be Junk.
Key      == Dev \X Nat
Part     == Key \union {Junk}
Root     == Seq(Part \union SUBSET Part)
ChainKey == [root : Root, i : Nat]
Entry    == [dh : Part \union {None}, n : Nat, key : ChainKey]
RatchetState ==
    [DHs : Part, DHr : Part \union {None}, RK : Root,
     CKs : ChainKey \union {None}, CKr : ChainKey \union {None},
     Ns : Nat, Nr : Nat, PN : Nat,
     skipped : Seq(Entry)]
Session == [secret : Key, pending : BOOLEAN, ratchet : RatchetState]
Frame ==
    [from : Dev, mid : Dev \X Nat, x3dh : Part \union {None},
     dh : Part, pn : Nat, n : Nat, key : ChainKey \union {Junk}]
Row     == [id : Nat, frame : Frame]
Receipt == [at : {"apply", "commit", "ack"}, row : Row, cand : Session]

ASSUME SymbolAssumption ==
    /\ None \notin Nat \union Part \union ChainKey \union Session \union Frame \union Receipt
    /\ Junk \notin Key \union ChainKey

VARIABLES
    mem,       \* the live session: None or [ratchet, pending, secret]
    disk,      \* the session as last saved
    log,       \* the saved message log: mids, in order of arrival
    sending,   \* None, or the frame of the send the promise chain is suspended in
    receiving, \* None, or the receive it is suspended in: [at, row, cand]
    fenced,    \* None, or the next row id when a restore fenced the messenger off
    sealed,    \* frames saved but not yet handed to the relay
    rows,      \* the relay's queue for the device: [id, frame]
    seen,      \* seenIds: ack ids handled since the start
    minted,    \* key pairs and secrets the device has generated
    said,      \* messages the device has sealed
    sent,      \* history: frames that reached the relay
    nextId,    \* the relay's next row id
    waived,    \* history: keys of frames the receiver gave up on by a stated limit
    abandoned, \* history: rows whose message a fenced messenger would not store
    faults     \* faults so far: [all, damage]

tasks   == <<sending, receiving>>
history == <<sent, waived, abandoned>>
vars == <<mem, disk, log, tasks, fenced, sealed, rows, seen, minted, said, nextId, faults, history>>

SPK(d)    == <<d, 0>>
KeyOf(d)  == <<d, minted[d] + 1>>

Init ==
    /\ mem = [d \in Dev |-> None] /\ disk = [d \in Dev |-> None]
    /\ log = [d \in Dev |-> <<>>]
    /\ sending = [d \in Dev |-> None] /\ receiving = [d \in Dev |-> None]
    /\ sealed = [d \in Dev |-> {}]
    /\ rows = [d \in Dev |-> {}] /\ seen = [d \in Dev |-> {}]
    /\ minted = [d \in Dev |-> 0] /\ said = [d \in Dev |-> 0]
    /\ sent = {} /\ nextId = 1
    /\ waived = {} /\ abandoned = [d \in Dev |-> {}]
    /\ fenced = [d \in Dev |-> None]
    /\ faults = [all |-> 0, damage |-> 0]

\* The promise chain starts a task only when the one before has settled.
QueueFree(d) == sending[d] = None /\ receiving[d] = None

-----------------------------------------------------------------------------
(* Sending *)

\* initiateX3DH: a session of our own, whose header every frame carries until
\* the peer is heard on it.
Initiated(d) ==
    [secret  |-> KeyOf(d), pending |-> TRUE,
     ratchet |-> InitInitiator(KeyOf(d), KeyOf(d), SPK(Peer(d)))]

SendingSession(d) == IF mem[d] = None THEN Initiated(d) ELSE mem[d]

FrameOf(d, s) ==
    [from |-> d, mid |-> <<d, said[d] + 1>>,
     x3dh |-> IF s.pending THEN s.secret ELSE None,
     dh   |-> s.ratchet.DHs, pn |-> s.ratchet.PN, n |-> s.ratchet.Ns,
     key  |-> s.ratchet.CKs]

\* Faulty variant: a send does not wait for a receive.
EncryptBypassing(d) ==
    /\ sending[d] = None /\ said[d] < MaxSends[d]
    /\ LET s == SendingSession(d)
       IN  /\ mem' = [mem EXCEPT ![d] = [s EXCEPT !.ratchet = AfterEncrypt(@)]]
           /\ sending' = [sending EXCEPT ![d] = FrameOf(d, s)]
    /\ said' = [said EXCEPT ![d] = @ + 1]
    /\ minted' = [minted EXCEPT ![d] = IF mem[d] = None THEN @ + 1 ELSE @]
    /\ UNCHANGED <<disk, log, receiving, sealed, rows, seen, nextId, faults, fenced, history>>

\* encryptForDevice, in place on the live contact; then the save begins.
Encrypt(d) ==
    /\ QueueFree(d) /\ said[d] < MaxSends[d]
    /\ LET s == SendingSession(d)
       IN  /\ mem' = [mem EXCEPT ![d] = [s EXCEPT !.ratchet = AfterEncrypt(@)]]
           /\ sending' = [sending EXCEPT ![d] = FrameOf(d, s)]
    /\ said' = [said EXCEPT ![d] = @ + 1]
    /\ minted' = [minted EXCEPT ![d] = IF mem[d] = None THEN @ + 1 ELSE @]
    /\ UNCHANGED <<disk, log, receiving, sealed, rows, seen, nextId, faults, fenced, history>>

\* saveContact succeeds: only now does the frame leave the task. A fenced
\* messenger has no relay left to give it to.
SendSaved(d) ==
    /\ sending[d] # None
    /\ disk' = [disk EXCEPT ![d] = mem[d]]
    /\ sealed' = [sealed EXCEPT ![d] = IF fenced[d] = None THEN @ \union {sending[d]} ELSE @]
    /\ sending' = [sending EXCEPT ![d] = None]
    /\ UNCHANGED <<mem, log, receiving, rows, seen, minted, said, nextId, faults, fenced, history>>

\* The frame goes to the relay, which stores it and gives it an id.
Wire(d, f) ==
    /\ f \in sealed[d]
    /\ sealed' = [sealed EXCEPT ![d] = @ \ {f}]
    /\ sent' = sent \union {f}
    /\ rows' = [rows EXCEPT ![Peer(d)] = @ \union {[id |-> nextId, frame |-> f]}]
    /\ nextId' = nextId + 1
    /\ UNCHANGED <<mem, disk, log, tasks, seen, minted, said, waived, faults, fenced, abandoned>>

-----------------------------------------------------------------------------
(* Receiving *)

NeverLosesTie(d, s, f) == FALSE  \* Faulty variant: both give up their session

\* Both initiated: the lower key keeps its session and refuses the peer's.
LosesTie(d, s, f) == f.x3dh # None /\ s # None /\ s.pending /\ d = Low

\* The session a frame is opened with: a fresh responder's for a prekey frame
\* when there is none, or when we lost the tie; else the one we have.
BuildsFresh(s, f) == f.x3dh # None /\ (s # None => s.pending)

OpeningRatchet(d, s, f) ==
    IF BuildsFresh(s, f) THEN InitResponder(f.x3dh, SPK(d)) ELSE s.ratchet

\* receiveEnvelope finds a session for the frame and the frame authenticates.
Accepts(d, s, f) ==
    /\ ~LosesTie(d, s, f)
    /\ s = None => BuildsFresh(s, f)
    /\ Opens(OpeningRatchet(d, s, f), f)

\* What receiveEnvelope leaves in the candidate.
Candidate(d, s, f) ==
    [secret  |-> IF BuildsFresh(s, f) THEN f.x3dh ELSE s.secret,
     pending |-> FALSE,
     ratchet |-> AfterDecrypt(OpeningRatchet(d, s, f), f, KeyOf(d))]

\* Frames of the peer that the relay was given, and may hold a copy of, or that
\* it may yet be given.
Underway(d) == {f \in sent : f.from = Peer(d)} \union sealed[Peer(d)]

\* Keys of such frames that a full cache gave up for later ones.
Evicted(d, f, cand) ==
    LET cache == cand.ratchet.skipped
    IN  {g.key : g \in {h \in Underway(d) \ {f} :
            /\ Accepts(d, mem[d], h) /\ ~Accepts(d, cand, h)
            /\ Len(cache) = MaxSkipSession
            /\ \A k \in DOMAIN cache :
                  cache[k].key.root = h.key.root => h.key.i < cache[k].key.i}}

\* The receive in progress has come to this point.
At(d, point) == receiving[d] # None /\ receiving[d].at = point

\* A row the promise chain may turn to: any while the inbox is connected, those
\* queued before the fence while it is not.
Offered(d) == {row \in rows[d] : fenced[d] # None => row.id < fenced[d]}

\* The row is acknowledged; it survives if the acknowledgement is lost, and a
\* fenced messenger has no inbox client to send one with.
Acknowledge(d, row) ==
    /\ seen' = [seen EXCEPT ![d] = @ \union {row.id}]
    /\ \/ fenced[d] = None /\ rows' = [rows EXCEPT ![d] = @ \ {row}] /\ UNCHANGED faults
       \/ fenced[d] # None /\ UNCHANGED <<rows, faults>>
       \/ /\ fenced[d] = None /\ faults.all < MaxFaults /\ faults' = [faults EXCEPT !.all = @ + 1]
          /\ UNCHANGED rows

\* A row whose id was handled before is acknowledged again, unopened.
AckAgain(d, row) ==
    /\ QueueFree(d) /\ row \in Offered(d) /\ row.id \in seen[d]
    /\ Acknowledge(d, row)
    /\ UNCHANGED <<mem, disk, log, tasks, sealed, minted, said, nextId, fenced, history>>

\* onInbox up to the first write: the decryption of a copy of the session.
Open(d, row) ==
    /\ QueueFree(d) /\ row \in Offered(d) /\ row.id \notin seen[d]
    /\ Accepts(d, mem[d], row.frame)
    /\ receiving' = [receiving EXCEPT ![d] =
                        [at |-> "apply", row |-> row, cand |-> Candidate(d, mem[d], row.frame)]]
    /\ minted' = [minted EXCEPT ![d] = @ + 1]
    /\ UNCHANGED <<mem, disk, log, sending, sealed, rows, seen, said, nextId, faults, fenced, history>>

\* Why a device may give up on a frame: it does not authenticate, it jumps too
\* far, or it belongs to the session that lost the tie.
Genuine(f) == f.key # Junk

TooFar(d, s, f) ==
    (s # None \/ BuildsFresh(s, f)) /\ ~WithinLimits(OpeningRatchet(d, s, f), f)

Superseded(d, s, f) == d = Low /\ s # None /\ f.key.root[1] # s.secret

Excluded(d, s, f) == Genuine(f) => TooFar(d, s, f) \/ Superseded(d, s, f)

\* Faulty variant: the draft is committed though the frame does not authenticate
DropCommits(d, row) ==
    /\ QueueFree(d) /\ row \in Offered(d) /\ row.id \notin seen[d]
    /\ ~Accepts(d, mem[d], row.frame)
    /\ Acknowledge(d, row)
    /\ mem' = IF mem[d] # None /\ row.frame.x3dh = None
              THEN [mem EXCEPT ![d] = Candidate(d, mem[d], row.frame)] ELSE mem
    /\ waived' = IF Genuine(row.frame) /\ Excluded(d, mem[d], row.frame)
                 THEN waived \union {row.frame.key} ELSE waived
    /\ UNCHANGED <<disk, log, tasks, sealed, minted, said, sent, nextId, fenced, abandoned>>

\* A frame that cannot be read is dropped for good.
Drop(d, row) ==
    /\ QueueFree(d) /\ row \in Offered(d) /\ row.id \notin seen[d]
    /\ ~Accepts(d, mem[d], row.frame)
    /\ Acknowledge(d, row)
    /\ waived' = IF Genuine(row.frame) /\ Excluded(d, mem[d], row.frame)
                 THEN waived \union {row.frame.key} ELSE waived
    /\ UNCHANGED <<mem, disk, log, tasks, sealed, minted, said, sent, nextId, fenced, abandoned>>

Logged(d, mid) == \E k \in DOMAIN log[d] : log[d][k] = mid

\* Faulty variant: the log is not asked whether it has the message.
ApplyAgain(d) ==
    /\ At(d, "apply")
    /\ log' = [log EXCEPT ![d] = Append(@, receiving[d].row.frame.mid)]
    /\ receiving' = [receiving EXCEPT ![d].at = "commit"]
    /\ UNCHANGED <<mem, disk, sending, sealed, rows, seen, minted, said, nextId, faults, fenced, history>>

\* The message joins the log unless the log has it, and is saved.
Apply(d) ==
    /\ At(d, "apply")
    /\ LET mid == receiving[d].row.frame.mid
       IN  /\ fenced[d] = None \/ Logged(d, mid)
           /\ log' = [log EXCEPT ![d] = IF Logged(d, mid) THEN @ ELSE Append(@, mid)]
    /\ receiving' = [receiving EXCEPT ![d].at = "commit"]
    /\ UNCHANGED <<mem, disk, sending, sealed, rows, seen, minted, said, nextId, faults, fenced, history>>

\* A fenced messenger takes no message-log task: MessengerInactiveError, which
\* onInbox swallows with the frames it drops for good.
Refuse(d) ==
    /\ At(d, "apply") /\ fenced[d] # None
    /\ ~Logged(d, receiving[d].row.frame.mid)
    /\ Acknowledge(d, receiving[d].row)
    /\ receiving' = [receiving EXCEPT ![d] = None]
    /\ abandoned' = [abandoned EXCEPT ![d] = @ \union {receiving[d].row}]
    /\ UNCHANGED <<mem, disk, log, sending, fenced, sealed, minted, said, sent, waived, nextId>>

\* commitReceiveState: the candidate is saved, then published to the live contact.
Commit(d) ==
    /\ At(d, "commit")
    /\ disk' = [disk EXCEPT ![d] = receiving[d].cand]
    /\ mem' = [mem EXCEPT ![d] = receiving[d].cand]
    /\ waived' = waived \union Evicted(d, receiving[d].row.frame, receiving[d].cand)
    /\ receiving' = [receiving EXCEPT ![d].at = "ack"]
    /\ UNCHANGED <<log, sending, sealed, rows, seen, minted, said, sent, nextId, faults, fenced, abandoned>>

Finish(d) ==
    /\ At(d, "ack")
    /\ Acknowledge(d, receiving[d].row)
    /\ receiving' = [receiving EXCEPT ![d] = None]
    /\ UNCHANGED <<mem, disk, log, sending, sealed, minted, said, nextId, fenced, history>>

-----------------------------------------------------------------------------
(* Faults *)

Fault(damage) ==
    /\ faults.all < MaxFaults /\ faults.damage + damage <= MaxDamage
    /\ faults' = [all |-> faults.all + 1, damage |-> faults.damage + damage]

\* The save of a send fails: its frame goes nowhere, the live session stays advanced.
SendFails(d) ==
    /\ sending[d] # None
    /\ Fault(0)
    /\ sending' = [sending EXCEPT ![d] = None]
    /\ UNCHANGED <<mem, disk, log, receiving, sealed, rows, seen, minted, said, nextId, fenced, history>>

\* Faulty variant: the row of a failed receive is acknowledged like any other.
ReceiveFailsAcked(d) ==
    /\ At(d, "apply") \/ At(d, "commit")
    /\ Fault(0)
    /\ rows' = [rows EXCEPT ![d] = @ \ {receiving[d].row}]
    /\ receiving' = [receiving EXCEPT ![d] = None]
    /\ UNCHANGED <<mem, disk, log, sending, sealed, seen, minted, said, nextId, fenced, history>>

\* Faulty variant: a rejected task breaks the promise chain.
ReceiveFailsBlocks(d) ==
    /\ At(d, "apply") \/ At(d, "commit")
    /\ Fault(0)
    /\ receiving' = [receiving EXCEPT ![d].at = "rejected"]
    /\ UNCHANGED <<mem, disk, log, sending, sealed, rows, seen, minted, said, nextId, fenced, history>>

\* A write of a receive fails: the candidate is abandoned and the row stays with
\* the relay, unacknowledged.
ReceiveFails(d) ==
    /\ At(d, "apply") \/ At(d, "commit")
    /\ Fault(0)
    /\ receiving' = [receiving EXCEPT ![d] = None]
    /\ UNCHANGED <<mem, disk, log, sending, sealed, rows, seen, minted, said, nextId, fenced, history>>

\* The page goes away; the next boot loads what was saved.
Crash(d) ==
    /\ Fault(0)
    /\ mem' = [mem EXCEPT ![d] = disk[d]]
    /\ sending' = [sending EXCEPT ![d] = None]
    /\ receiving' = [receiving EXCEPT ![d] = None]
    /\ sealed' = [sealed EXCEPT ![d] = {}]
    /\ seen' = [seen EXCEPT ![d] = {}]
    /\ fenced' = [fenced EXCEPT ![d] = None]
    /\ UNCHANGED <<disk, log, rows, minted, said, nextId, history>>

\* suspendForRestore: relays closed, what they had not sent gone with them; tasks
\* already in the promise chain still run.
Suspend(d) ==
    /\ fenced[d] = None
    /\ Fault(0)
    /\ fenced' = [fenced EXCEPT ![d] = nextId]
    /\ sealed' = [sealed EXCEPT ![d] = {}]
    /\ UNCHANGED <<mem, disk, log, tasks, rows, seen, minted, said, nextId, history>>

\* resumeAfterFailedRestore, once the chain has drained: the inbox reconnects.
Resume(d) ==
    /\ fenced[d] # None /\ QueueFree(d)
    /\ fenced' = [fenced EXCEPT ![d] = None]
    /\ UNCHANGED <<mem, disk, log, tasks, sealed, rows, seen, minted, said, nextId, faults, history>>

Arrive(d, f) ==
    /\ rows' = [rows EXCEPT ![d] = @ \union {[id |-> nextId, frame |-> f]}]
    /\ nextId' = nextId + 1
    /\ UNCHANGED <<mem, disk, log, tasks, sealed, seen, minted, said, fenced, history>>

\* The relay holds a ciphertext a second time.
Copy(d, f) == f \in sent /\ f.from = Peer(d) /\ Fault(0) /\ Arrive(d, f)

\* The inbox takes frames from anyone: one with a known header, or with a key
\* pair nobody knows, that does not authenticate.
Damaged(d) ==
    {[f EXCEPT !.key = Junk] : f \in {g \in sent : g.from = Peer(d)}}
    \union {[from |-> Peer(d), mid |-> <<Peer(d), 0>>, x3dh |-> x,
             dh |-> Junk, pn |-> 0, n |-> 0, key |-> Junk] : x \in {None, Junk}}

Damage(d, f) == f \in Damaged(d) /\ Fault(1) /\ Arrive(d, f)

-----------------------------------------------------------------------------
Deliver(d) ==
    \E row \in rows[d] : Open(d, row) \/ Drop(d, row) \/ AckAgain(d, row)

Store(d) == Apply(d) \/ Refuse(d)

Next ==
    \E d \in Dev :
        \/ Encrypt(d) \/ SendSaved(d)
        \/ \E f \in sealed[d] : Wire(d, f)
        \/ \E row \in rows[d] : Open(d, row) \/ Drop(d, row) \/ AckAgain(d, row)
        \/ Store(d) \/ Commit(d) \/ Finish(d)
        \/ Suspend(d) \/ Resume(d)
        \/ SendFails(d) \/ ReceiveFails(d) \/ Crash(d)
        \/ \E f \in sent : Copy(d, f)
        \/ \E f \in Damaged(d) : Damage(d, f)

Spec == Init /\ [][Next]_vars

\* What goes on by itself: tasks run on, what was saved is sent, and the relay
\* offers every row again.
Progress(d) ==
    \/ SendSaved(d) \/ Store(d) \/ Commit(d) \/ Finish(d) \/ Resume(d)
    \/ \E f \in sealed[d] : Wire(d, f)
    \/ Deliver(d)

FairSpec == Spec /\ WF_vars(\E d \in Dev : Progress(d))

-----------------------------------------------------------------------------
(* Properties *)

\* The variables have the shapes the code gives them; a session that exists can
\* send (ratchetEncrypt's "chain not ready" is never thrown).
TypeOK ==
    /\ \A d \in Dev : \A s \in {mem[d], disk[d]} \ {None} :
          /\ s.pending \in BOOLEAN
          /\ s.ratchet.CKs # None /\ s.ratchet.CKs.i = s.ratchet.Ns
          /\ s.ratchet.CKr # None => s.ratchet.CKr.i = s.ratchet.Nr
    /\ \A d \in Dev : sending[d] = None \/ receiving[d] = None
    /\ \A d \in Dev : seen[d] \subseteq 1 .. nextId - 1

\* The skipped-key cache of a session stays within its limit, in memory and saved.
CacheBounded ==
    \A d \in Dev : \A s \in {mem[d], disk[d]} \ {None} :
        Len(s.ratchet.skipped) <= MaxSkipSession

\* SECURITY.md, Invariant I: a message key is used exactly once, whatever was
\* lost from memory. Two frames that reached the relay never share a key.
KeyOnce == \A f, g \in sent : f.key = g.key => f = g

Read(d, f) == Logged(d, f.mid)

\* The receiver gave the frame up: by a stated limit, or because it was fenced.
Forgone(d, f) == f.key \in waived \/ \E row \in abandoned[d] : row.frame = f

\* SECURITY.md, Invariant II: no crash, failed write or damaged frame strands a
\* message. Whatever the relay was given and is unread, acknowledged or not, opens
\* from the live session and from the saved one, unless a stated limit or the
\* tie-break excludes it.
Deliverable ==
    \A d \in Dev : \A f \in Underway(d) : \A s \in {mem[d], disk[d]} :
        Read(d, f) \/ f.key \in waived \/ Excluded(d, s, f) \/ Accepts(d, s, f)

\* A row leaves the relay only when its message is saved, excluded by a limit or
\* abandoned under a restore's fence (UnsavedStaysQueued is about those).
NothingLost ==
    \A f \in sent : LET d == Peer(f.from) IN
        Read(d, f) \/ Forgone(d, f) \/ \E row \in rows[d] : row.frame = f

\* Together: every message sent is at the relay until it is saved, and can be
\* opened for as long as it is there.
MessagesKept == Deliverable /\ NothingLost

\* Messenger.tsx, isStorageFull: "a stored-and-forward message that we FAIL to
\* persist must NOT be acked". Whatever was not stored is still with the relay.
UnsavedStaysQueued ==
    \A d \in Dev : \A row \in abandoned[d] :
        \/ Read(d, row.frame) \/ row.frame.key \in waived
        \/ \E other \in rows[d] : other.frame = row.frame

\* SECURITY.md: simultaneous set-up is resolved so the ratchets converge. Once a
\* device has heard the peer on a session, the peer's saved session is the same
\* one, and no later frame makes either of them leave it.
Converged ==
    \A d \in Dev : \A s \in {mem[d], disk[d]} \ {None} :
        ~s.pending => disk[Peer(d)] # None /\ disk[Peer(d)].secret = s.secret

\* Each log takes each message once, and only what the peer gave to the relay.
Given == [d \in Dev |-> {f.mid : f \in {g \in sent : g.from = d}}]
Channel == INSTANCE MessageChannel WITH given <- Given
ExactlyOnce == Channel!Spec

\* Neither retained rows nor failed tasks hold up the rest for good: when the
\* devices have said what they had to say, all that reached the relay is read,
\* unless a stated limit excluded it.
EventuallyRead ==
    []<>(\A f \in sent : LET d == Peer(f.from) IN Read(d, f) \/ Forgone(d, f))
=============================================================================
