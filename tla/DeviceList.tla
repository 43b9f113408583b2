----------------------------- MODULE DeviceList -----------------------------
(***************************************************************************)
(* The list of a user's devices (src/src/lib/devices.ts, linkIntent.ts and *)
(* the callers in Messenger.tsx).  The primary alone signs it: it links    *)
(* devices, removes them and renews its own entry, each time under the     *)
(* next version, by compare-and-swap on its database.  A linked device     *)
(* gets the list in a grant, whose delivery the database remembers until   *)
(* the relay has stored it.  Newer lists go to the other devices and to    *)
(* the contacts, to these until they acknowledge; `sent' says which lists  *)
(* the devices were offered, once or again.  What they do with grants and  *)
(* lists is in LinkInstall.                                                *)
(*                                                                         *)
(* Operations are jobs that interleave at their awaits.                    *)
(***************************************************************************)
EXTENDS Naturals, FiniteSets

CONSTANTS
    Dev,        \* devices other than the primary
    Job,        \* operations that may run at a time,
    Ops,        \*   and what each may be
    MaxVer,     \* bound on the versions
    MaxLink,    \* bound on the confirmed linkings
    MaxFault,   \* bound on crashes, failed sends and lost acknowledgements
    None

Op == {"link", "retry", "cancel", "remove", "unlink", "refresh"}

List  == [ver : 1..MaxVer, devs : SUBSET Dev]
Grant == [dev : Dev, n : 1..MaxLink, list : List]

ASSUME DeviceAssumption ==
    /\ MaxVer \in Nat \ {0} /\ {MaxLink, MaxFault} \subseteq Nat
    /\ Ops \in [Job -> SUBSET Op]
    /\ None \notin Dev \cup List \cup Grant

VARIABLES
    list, pend,   \* the primary's database: list, and grant to deliver,
    self,         \*   and the contact with itself: the list it has
    own,          \* ownListRef
    job,
    reqs,         \* requests of devices that unlinked themselves
    sent,         \* lists that have left for the other devices
    told,         \* devices whose last linking's grant the relay has stored
    auth,         \* each device's last linking
    view,         \* the contact's copy of the list
    acked,        \* the version it is known to have
    toPeer, toMe, \* lists to the contact, acknowledgements back
    links, faults

disk   == <<list, pend, self>>
peer   == <<view, acked, toPeer, toMe>>
record == <<told, auth, links>>
vars   == <<disk, own, job, reqs, sent, record, peer, faults>>

PC    == {"read", "commit", "publish", "send", "clear", "direct", "gossip"}
Idle  == [op |-> "idle"]
Task  == [op : Op, pc : PC, dev : Dev \cup {None}, snap : List \cup {None},
          grant : Grant \cup {None}]

First == [ver |-> 1, devs |-> {}]

Init ==
    /\ list = First /\ pend = None /\ self = First /\ own = First
    /\ job = [j \in Job |-> Idle] /\ reqs = {}
    /\ sent = {} /\ told = {} /\ auth = [d \in Dev |-> 0]
    /\ view = First /\ acked = 0 /\ toPeer = {} /\ toMe = {}
    /\ links = 0 /\ faults = 0

Fault == faults < MaxFault /\ faults' = faults + 1

Newer(a, b) == IF a.ver > b.ver THEN a ELSE b

On(j, ops, pc) == job[j].op \in ops /\ job[j].pc = pc
Step(j, pc)    == job' = [job EXCEPT ![j].pc = pc]
Done(j)        == job' = [job EXCEPT ![j] = Idle]
Start(j, op, d) ==
    /\ job[j] = Idle /\ op \in Ops[j]
    /\ job' = [job EXCEPT ![j] = [op |-> op, pc |-> "read", dev |-> d,
                                  snap |-> None, grant |-> None]]

\* ensureSelfContact: the database's list reaches RAM and the self-contact.
EnsureSelf == own' = Newer(list, own) /\ self' = Newer(list, self)

-----------------------------------------------------------------------------
(* The operations begin.                                                   *)

Link(j, d) ==
    /\ links < MaxLink
    /\ Start(j, "link", d)
    /\ UNCHANGED <<disk, own, reqs, sent, record, peer, faults>>

Retry(j) ==
    /\ pend # None
    /\ Start(j, "retry", pend.dev)
    /\ UNCHANGED <<disk, own, reqs, sent, record, peer, faults>>

Cancel(j) ==
    /\ pend # None
    /\ Start(j, "cancel", pend.dev)
    /\ EnsureSelf
    /\ UNCHANGED <<list, pend, reqs, sent, record, peer, faults>>

Remove(j, d) ==
    /\ d \in own.devs
    /\ Start(j, "remove", d)
    /\ EnsureSelf
    /\ UNCHANGED <<list, pend, reqs, sent, record, peer, faults>>

\* A device that was unlinked by its user asks to be removed.
Ask(d) ==
    /\ d \in list.devs /\ d \notin reqs
    /\ reqs' = reqs \cup {d}
    /\ UNCHANGED <<disk, own, job, sent, record, peer, faults>>

Unlinked(j, d) ==
    /\ d \in reqs
    /\ Start(j, "unlink", d)
    /\ UNCHANGED <<disk, own, reqs, sent, record, peer, faults>>

\* The signed prekey was renewed: the primary's own entry is out of date.
Refresh(j) ==
    /\ list.ver < MaxVer
    /\ Start(j, "refresh", None)
    /\ UNCHANGED <<disk, own, reqs, sent, record, peer, faults>>

-----------------------------------------------------------------------------
(* They read a snapshot and commit against it.                             *)

Answered(j) == reqs' = IF job[j].op = "unlink" THEN reqs \ {job[j].dev} ELSE reqs

\* Nothing to do, or refused before anything is written.
Refused(j) ==
    CASE job[j].op = "link"   -> pend # None
      [] job[j].op = "retry"  -> pend = None
      [] job[j].op = "cancel" -> pend # None /\ pend.dev # job[j].dev
      [] job[j].op \in {"remove", "unlink"} -> job[j].dev \notin list.devs
      [] OTHER -> FALSE

Read(j) ==
    /\ job[j].op # "idle" /\ job[j].pc = "read"
    /\ IF Refused(j)
       THEN Done(j) /\ Answered(j) /\ UNCHANGED <<own, self>>
       ELSE /\ job' = [job EXCEPT
                  ![j].pc = IF job[j].op = "retry" THEN "send" ELSE "commit",
                  ![j].snap = IF job[j].op = "retry" THEN None ELSE list,
                  ![j].grant = IF job[j].op \in {"retry", "cancel"} THEN pend
                               ELSE None]
            /\ IF job[j].op = "retry" THEN EnsureSelf ELSE UNCHANGED <<own, self>>
            /\ UNCHANGED reqs
    /\ UNCHANGED <<list, pend, sent, record, peer, faults>>

\* Mutant: the list is written whatever became of the snapshot.
HeldAnyway(j) == pend = job[j].grant

\* compareAndSwapRecords: the list and the grant are still what was read.
Held(j) == list = job[j].snap /\ pend = job[j].grant

\* The list that replaces the snapshot; a device that is already on it is
\* granted the same list again.
Signed(j) ==
    LET s == job[j].snap
        devs == CASE job[j].op = "link"    -> s.devs \cup {job[j].dev}
                  [] job[j].op = "refresh" -> s.devs
                  [] OTHER                 -> s.devs \ {job[j].dev}
    IN IF devs = s.devs /\ job[j].op # "refresh" THEN s
       ELSE [ver |-> s.ver + 1, devs |-> devs]

Write(j) ==
    /\ Signed(j).ver <= MaxVer
    /\ list' = Signed(j)
    /\ IF job[j].op = "link"
       THEN /\ links < MaxLink /\ links' = links + 1
            /\ pend' = [dev |-> job[j].dev, n |-> links', list |-> Signed(j)]
            /\ auth' = [auth EXCEPT ![job[j].dev] = links']
            /\ told' = told \ {job[j].dev}
       ELSE pend' = None /\ UNCHANGED record
    /\ job' = [job EXCEPT ![j].pc = "publish", ![j].snap = None,
                          ![j].grant = IF job[j].op = "link" THEN pend' ELSE None]

\* commitSnapshot refuses while a grant waits; a linking reads again first.
Commit(j) ==
    /\ job[j].op # "idle" /\ job[j].pc = "commit"
    /\ IF pend # None /\ job[j].op \in {"remove", "unlink", "refresh"}
       THEN Done(j) /\ Answered(j) /\ UNCHANGED <<list, pend, record>>
       ELSE IF Held(j)
       THEN Write(j) /\ Answered(j)
       ELSE Step(j, "read") /\ UNCHANGED <<list, pend, record, reqs>>
    /\ UNCHANGED <<self, own, sent, peer, faults>>

-----------------------------------------------------------------------------
(* What was committed is published and sent.                               *)

Publish(j) ==
    /\ job[j].op # "idle" /\ job[j].pc = "publish"
    /\ own' = Newer(list, own)
    /\ self' = IF job[j].op = "link" THEN Newer(list, self) ELSE self
    /\ CASE job[j].op = "link"                 -> Step(j, "send")
         [] job[j].op \in {"cancel", "remove"} -> Step(j, "direct")
         [] job[j].op = "unlink"               -> Step(j, "gossip")
         [] OTHER                              -> Done(j)
    /\ UNCHANGED <<list, pend, reqs, sent, record, peer, faults>>

Store(g) ==
    /\ sent' = sent \cup {g.list}
    /\ told' = IF auth[g.dev] = g.n THEN told \cup {g.dev} ELSE told

\* sendConfirmed: the relay's receipt.
Send(j) ==
    /\ On(j, {"link", "retry"}, "send")
    /\ Store(job[j].grant)
    /\ Step(j, "clear")
    /\ UNCHANGED <<disk, own, reqs, auth, links, peer, faults>>

\* No receipt, whether the relay has stored the grant or not.
SendFails(j) ==
    /\ On(j, {"link", "retry"}, "send")
    /\ Fault
    /\ Store(job[j].grant) \/ UNCHANGED <<sent, told>>
    /\ Done(j)
    /\ UNCHANGED <<disk, own, reqs, auth, links, peer>>

\* Mutant: the receipt clears whatever grant waits.
ClearAny(j) == pend' = None

\* clearPendingLinkGrant
Clear(j) == pend' = IF pend = job[j].grant THEN None ELSE pend

Receipt(j) ==
    /\ On(j, {"link", "retry"}, "clear")
    /\ Clear(j)
    /\ IF job[j].op = "link" /\ pend \in {None, job[j].grant}
       THEN Step(j, "gossip") ELSE Done(j)
    /\ UNCHANGED <<list, self, own, reqs, sent, record, peer, faults>>

\* To the removed device, while the self-contact still has it.
Direct(j) ==
    /\ On(j, {"cancel", "remove"}, "direct")
    /\ sent' = IF job[j].dev \in self.devs THEN sent \cup {own} ELSE sent
    /\ Step(j, "gossip")
    /\ UNCHANGED <<disk, own, reqs, record, peer, faults>>

\* gossipDeviceList: to the user's own devices; Offer is for the contact.
Gossip(j) ==
    /\ job[j].op # "idle" /\ job[j].pc = "gossip"
    /\ EnsureSelf
    /\ sent' = IF self'.devs = {} THEN sent ELSE sent \cup {own'}
    /\ Done(j)
    /\ UNCHANGED <<list, pend, reqs, record, peer, faults>>

Run(j) ==
    \/ Read(j) \/ Commit(j) \/ Publish(j) \/ Send(j) \/ Receipt(j)
    \/ Direct(j) \/ Gossip(j)

\* Mutant: the self-contact's copy is taken for the list.
SelfList == self

DurableList == list

\* The primary dies and starts: it delivers the grant that waits.
Restart(j) ==
    /\ Fault
    /\ own' = DurableList
    /\ "retry" \in Ops[j]
    /\ job' = [i \in Job |-> IF i = j /\ pend # None
                             THEN [op |-> "retry", pc |-> "read", dev |-> pend.dev,
                                   snap |-> None, grant |-> None]
                             ELSE Idle]
    /\ UNCHANGED <<disk, reqs, sent, record, peer>>

-----------------------------------------------------------------------------
(* A contact.                                                              *)

\* ensureListGossiped, from many triggers, with a growing delay.  The relay
\* keeps the order, so the model sends the next list when the last is read.
Offer ==
    /\ acked < own.ver /\ toPeer = {}
    /\ toPeer' = toPeer \cup {own}
    /\ UNCHANGED <<disk, own, job, reqs, sent, record, view, acked, toMe, faults>>

\* Mutant: only a list that was news is acknowledged.
AnswerNews(l) == IF l.ver > view.ver THEN {l.ver} ELSE {}

\* The answer names the version held, news or not.
Answer(l) == {Newer(l, view).ver}

Accept(l) ==
    /\ l \in toPeer
    /\ toPeer' = toPeer \ {l}
    /\ view' = Newer(l, view)

Learn(l) ==
    /\ Accept(l)
    /\ toMe' = toMe \cup Answer(l)
    /\ UNCHANGED <<disk, own, job, reqs, sent, record, acked, faults>>

LearnAckLost(l) ==
    /\ Accept(l)
    /\ Fault
    /\ UNCHANGED <<disk, own, job, reqs, sent, record, acked, toMe>>

\* A version that was never published is not believed.
Acked(v) ==
    /\ v \in toMe
    /\ toMe' = toMe \ {v}
    /\ acked' = IF v <= own.ver /\ v > acked THEN v ELSE acked
    /\ UNCHANGED <<disk, own, job, reqs, sent, record, view, toPeer, faults>>

-----------------------------------------------------------------------------

Next ==
    \/ \E j \in Job, d \in Dev : Link(j, d) \/ Remove(j, d) \/ Unlinked(j, d)
    \/ \E j \in Job : Retry(j) \/ Cancel(j) \/ Refresh(j)
    \/ \E j \in Job : Run(j)
    \/ \E j \in Job : SendFails(j)
    \/ \E j \in Job : Restart(j)
    \/ \E d \in Dev : Ask(d)
    \/ Offer
    \/ \E l \in toPeer : Learn(l) \/ LearnAckLost(l)
    \/ \E v \in toMe : Acked(v)

Spec == Init /\ [][Next]_vars

\* Calls return, the relay delivers, and there is always another occasion to
\* offer the list.  Users and devices need do nothing.
Fairness ==
    /\ \A j \in Job : WF_vars(Run(j))
    /\ WF_vars(Offer)
    /\ \A l \in List : WF_vars(Learn(l))
    /\ \A v \in 1..MaxVer : WF_vars(Acked(v))

FairSpec == Spec /\ Fairness

-----------------------------------------------------------------------------

\* The primary's state, its jobs and everything under way have their types.
TypeOK ==
    /\ {list, own, self, view} \subseteq List
    /\ pend \in Grant \cup {None}
    /\ job \in [Job -> Task \cup {Idle}]
    /\ reqs \subseteq Dev
    /\ told \subseteq Dev /\ auth \in [Dev -> 0..MaxLink]
    /\ links \in 0..MaxLink
    /\ sent \cup toPeer \subseteq List /\ toMe \subseteq 1..MaxVer
    /\ acked \in 0..own.ver

Known == {list, own, self, view} \cup sent \cup toPeer

\* Operations that overlap never sign two lists under one version, so that
\* two devices, or a device and a contact, never follow different lists that
\* neither replaces (devices.ts, issueAndSaveLinkGrant).
NoFork == \A a, b \in Known : a.ver = b.ver => a = b

\* A device on the list has its grant at the relay, or the primary still
\* knows that it must deliver it: no crash, cancellation or late receipt
\* leaves a ghost entry (cancelPendingLinkGrantAndRevokeDevice).
NoGhost ==
    \A d \in list.devs :
        \/ d \in told
        \/ pend # None /\ pend.dev = d /\ pend.n = auth[d]

\* Together: one list, and no device on it that cannot know.
ListSound == NoFork /\ NoGhost

\* However lists, acknowledgements and crashes interleave, in the end the
\* contact follows the last list and the primary knows it does.
PeerLearns == <>[](view = list /\ acked = list.ver)
=============================================================================
