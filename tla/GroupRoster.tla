---------------------------- MODULE GroupRoster -----------------------------
(***************************************************************************)
(* One group: the owner's roster, its delivery and the members' barriers   *)
(* (src/src/lib/groups.ts, groupMutations.ts, groupTombstones.ts and the   *)
(* group handlers of src/src/Messenger.tsx).                               *)
(*                                                                         *)
(* The owner signs a chain of states.  A state and the marker of its       *)
(* delivery are committed together; dispatchers insert the state into the  *)
(* inbox of every member, then a removal proof into the inboxes of those   *)
(* it removed, and clear the marker.  A device has one inbox, in the order *)
(* of insertion; it handles a row at a time and deletes it afterwards, so  *)
(* a crash in between replays the row.                                     *)
(*                                                                         *)
(* A revision stands for its state hash: the chain has no forks, which     *)
(* Commit's check is there for.  One device a person; the owner's is the   *)
(* primary one.                                                            *)
(***************************************************************************)
EXTENDS Naturals, Sequences, FiniteSets

CONSTANTS
    Member,    \* the persons the owner may add
    Job,       \* dispatchers that may run at a time
    MaxRev,    \* bound on revisions
    MaxAct,    \* bound on what members do: group messages and leaves
    MaxFault,  \* bound on restarts, unconfirmed inserts, overlapping retries
    None

ASSUME GroupAssumption ==
    /\ {MaxRev, MaxAct, MaxFault} \subseteq Nat
    /\ None \notin [rev : Nat, block : BOOLEAN]
    /\ None \notin [rev : Nat, removed : SUBSET Member, del : BOOLEAN]

VARIABLES
    chain,    \* the states the owner has signed and committed
    stored,   \* the owner's group record is there
    barred,   \* and its tombstone, of a dissolved group
    marker,   \* group-mutation:<id>, the delivery owed
    job,      \* the dispatchers
    leaves,   \* gleave rows in the owner's inbox
    held,     \* the revision each member has stored; 0: no group
    tomb,     \* group-tombstone:<id> of each member
    inbox,    \* its rows
    next,     \* how many of them are handled and retained
    pend,     \* pendingGroupFramesRef
    leaving,  \* leaveGroup between its request and the erase
    missed,   \* members a removal proof has not reached, or who dropped
              \*   an invitation
    acts, faults

owner  == <<chain, stored, barred, marker, job>>
local  == <<held, tomb, pend>>
counts == <<acts, faults>>
vars   == <<owner, leaves, local, inbox, next, leaving, missed, counts>>

Rev       == 1..MaxRev
State     == [roster : SUBSET Member, over : BOOLEAN]
Tombstone == [rev : Rev, block : BOOLEAN]
Frame     == [from : Member, rev : Rev]
Row       == [kind : {"invite", "remove"}, rev : Rev]
             \cup [kind : {"frame"}, from : Member, rev : Rev]

Last    == Len(chain)
Roster  == IF chain = <<>> THEN {} ELSE chain[Last].roster
\* nextGroupRevision: a dissolved group has no successor.
Managed == stored /\ ~chain[Last].over
Task    == [pc : {"idle", "send", "erase", "clear"}, rev : Nat,
            todo : SUBSET Member, out : SUBSET Member, del : BOOLEAN]
Idle    == [pc |-> "idle", rev |-> 0, todo |-> {}, out |-> {}, del |-> FALSE]

Init ==
    /\ chain = <<>> /\ stored = FALSE /\ barred = FALSE
    /\ marker = None
    /\ job = [j \in Job |-> Idle]
    /\ leaves = <<>>
    /\ held = [m \in Member |-> 0]
    /\ tomb = [m \in Member |-> None]
    /\ inbox = [m \in Member |-> <<>>]
    /\ next = [m \in Member |-> 0]
    /\ pend = [m \in Member |-> {}]
    /\ leaving = [m \in Member |-> FALSE]
    /\ missed = {}
    /\ acts = 0 /\ faults = 0

Fault ==
    /\ faults < MaxFault
    /\ faults' = faults + 1

Act ==
    /\ acts < MaxAct
    /\ acts' = acts + 1

-----------------------------------------------------------------------------
(* The owner changes the roster.                                           *)

\* Mutant: the last delivery of a group is one like any other.
MarkerKeepsGroup(d) == [rev |-> d.rev, removed |-> d.removed, del |-> FALSE]

Marker(d) == [rev |-> d.rev, removed |-> d.removed, del |-> d.over]

\* Roster state and marker in one compare-and-swap.
Publish(d) ==
    /\ chain' = Append(chain, [roster |-> d.roster, over |-> d.over])
    /\ stored' = TRUE
    /\ marker' = Marker(d)

\* Mutant: a marker that waits is overwritten.
CommittableAnyway == Last > 0 => Managed

\* A state computed from a roster that has changed since has a revision that
\* is not the next one: it is refused, which changes nothing and is no step.
Committable ==
    /\ marker = None
    /\ Last > 0 => Managed

Successor(roster, over) ==
    [rev |-> Last + 1, roster |-> roster, over |-> over,
     removed |-> IF over THEN Roster ELSE Roster \ roster]

Commit(roster, over) ==
    /\ Last < MaxRev
    /\ Committable
    /\ Publish(Successor(roster, over))
    /\ UNCHANGED <<barred, job, leaves, local, inbox, next, leaving, missed,
                   counts>>

Create ==
    /\ chain = <<>>
    /\ \E R \in SUBSET Member \ {{}} : Commit(R, FALSE)

AddMember ==
    /\ chain # <<>>
    /\ \E m \in Member \ Roster : Commit(Roster \cup {m}, FALSE)

RemoveMember == \E m \in Roster : Commit(Roster \ {m}, FALSE)
Rename       == chain # <<>> /\ Commit(Roster, FALSE)
Dissolve     == chain # <<>> /\ Commit({}, TRUE)

\* A leave request takes effect against exactly the state its sender holds.
\* The commit throws when a delivery is owed, and the row is gone.
ApplyGroupLeave ==
    /\ leaves # <<>>
    /\ LET l == Head(leaves)
       IN IF l.rev = Last /\ l.from \in Roster /\ Committable
          THEN /\ Last < MaxRev
               /\ Publish(Successor(Roster \ {l.from}, FALSE))
          ELSE UNCHANGED <<chain, stored, marker>>
    /\ leaves' = Tail(leaves)
    /\ UNCHANGED <<barred, job, local, inbox, next, leaving, missed,
                   counts>>

-----------------------------------------------------------------------------
(* Delivery: right after the commit, at boot, on reconnect, every minute.  *)

\* dispatchPendingGroupMutation takes the durable marker; with no group left
\* it only clears it.  A retry may begin while another dispatcher is at work.
Dispatch(j) ==
    /\ job[j].pc = "idle"
    /\ marker # None
    /\ IF \A i \in Job : job[i].pc = "idle" THEN UNCHANGED faults ELSE Fault
    /\ IF stored
       THEN /\ job' = [job EXCEPT ![j] =
                   [pc |-> "send", rev |-> marker.rev, todo |-> Roster,
                    out |-> marker.removed, del |-> marker.del]]
            /\ UNCHANGED marker
       ELSE marker' = None /\ UNCHANGED job
    /\ UNCHANGED <<chain, stored, barred, leaves, local, inbox, next,
                   leaving, missed, acts>>

Insert(m, row) == inbox' = [inbox EXCEPT ![m] = Append(@, row)]

SendInvite(j) ==
    /\ job[j].pc = "send"
    /\ \E m \in job[j].todo :
          /\ Insert(m, [kind |-> "invite", rev |-> job[j].rev])
          /\ job' = [job EXCEPT ![j].todo = @ \ {m}]
    /\ UNCHANGED <<chain, stored, barred, marker, leaves, local, next,
                   leaving, missed, counts>>

\* An invitation is not confirmed: it throws, the marker stays.
SendFails(j) ==
    /\ job[j].pc = "send" /\ job[j].todo # {}
    /\ Fault
    /\ job' = [job EXCEPT ![j] = Idle]
    /\ UNCHANGED <<chain, stored, barred, marker, leaves, local, inbox,
                   next, leaving, missed, acts>>

\* A removal proof is sent, or not: its failure is swallowed.
SendRemove(j) ==
    /\ job[j].pc = "send" /\ job[j].todo = {}
    /\ \E m \in job[j].out :
          /\ job' = [job EXCEPT ![j].out = @ \ {m}]
          /\ \/ /\ Insert(m, [kind |-> "remove", rev |-> job[j].rev])
                /\ UNCHANGED <<missed, faults>>
             \/ /\ Fault
                /\ missed' = missed \cup {m}
                /\ UNCHANGED inbox
    /\ UNCHANGED <<chain, stored, barred, marker, leaves, local, next,
                   leaving, acts>>

\* Mutant: whatever marker is there.
ClearAny(j) == marker' = None

\* Only the exact marker this dispatcher delivered.
Clear(j) == marker' = IF marker # None /\ marker.rev = job[j].rev
                      THEN None ELSE marker

\* Of a dissolved group: barrier, group, marker, in this order.
FinishDispatch(j) ==
    /\ \/ /\ job[j].pc = "send" /\ job[j].todo = {} /\ job[j].out = {}
          /\ IF job[j].del
             THEN /\ barred' = TRUE
                  /\ job' = [job EXCEPT ![j].pc = "erase"]
                  /\ UNCHANGED marker
             ELSE Clear(j) /\ job' = [job EXCEPT ![j] = Idle] /\ UNCHANGED barred
          /\ UNCHANGED stored
       \/ /\ job[j].pc = "erase"
          /\ stored' = FALSE
          /\ job' = [job EXCEPT ![j].pc = "clear"]
          /\ UNCHANGED <<barred, marker>>
       \/ /\ job[j].pc = "clear"
          /\ Clear(j)
          /\ job' = [job EXCEPT ![j] = Idle]
          /\ UNCHANGED <<stored, barred>>
    /\ UNCHANGED <<chain, leaves, local, inbox, next, leaving, missed,
                   counts>>

\* Boot finishes the erase a tombstone announces.
OwnerRestart ==
    /\ Fault
    /\ job' = [j \in Job |-> Idle]
    /\ stored' = (stored /\ ~barred)
    /\ UNCHANGED <<chain, barred, marker, leaves, local, inbox, next, leaving,
                   missed, acts>>

-----------------------------------------------------------------------------
(* A member handles the first row of its inbox it has not yet handled.     *)

\* Mutant: the removal at hand decides.
BarrierAtHand(old, new) ==
    IF old # None /\ old.rev > new.rev THEN old ELSE new

\* saveGroupRemovalTombstone: the revision only grows, the block only sets.
Barrier(old, new) ==
    IF old = None THEN new
    ELSE IF old.rev > new.rev THEN old
    ELSE [new EXCEPT !.block = @ \/ old.block]

\* Mutant: the barrier takes in the next revision.
PermitsLaterReadd(t, rev) == t = None \/ (~t.block /\ rev > t.rev + 1)

PermitsReadd(t, rev) == t = None \/ (~t.block /\ rev > t.rev)

\* decideInvite: the first state, the same again, or the next of the chain.
Follows(h, rev) == h = 0 \/ rev = h \/ rev = h + 1

\* classifyGroupFrame; without the group a frame waits for it.
Verdict(h, f) ==
    IF h = 0 \/ f.rev = h + 1 THEN "defer"
    ELSE IF f.rev <= h /\ f.from \in chain[h].roster THEN "accept"
    ELSE "reject"

RowAt(m)  == inbox[m][next[m] + 1]
HasRow(m) == next[m] < Len(inbox[m])
RowKind(m) == IF HasRow(m) THEN RowAt(m).kind ELSE "none"
Ack(m)    == inbox' = [inbox EXCEPT ![m] =
                 SubSeq(@, 1, next[m]) \o SubSeq(@, next[m] + 2, Len(@))]

\* What a task writes, one state of the disk after the other: the group it
\* holds and the tombstone.  An invitation stores the group, then clears the
\* tombstone; a removal and a leave set the tombstone, then erase the group.
Disk(h, t) == [held |-> h, tomb |-> t]

EraseWrites(m, t) == <<Disk(held[m], t), Disk(0, t)>>

InviteWrites(m) ==
    LET rev == RowAt(m).rev
    IN IF PermitsReadd(tomb[m], rev) /\ Follows(held[m], rev)
       THEN <<Disk(rev, tomb[m]), Disk(rev, None)>>
       ELSE <<>>

RemoveWrites(m) ==
    LET rev == RowAt(m).rev
        t   == Barrier(tomb[m], [rev |-> rev, block |-> chain[rev].over])
    IN IF /\ held[m] # 0 \/ tomb[m] # None
          /\ held[m] # 0 => rev = held[m] + 1
          /\ tomb[m] # None => rev > tomb[m].rev
       THEN EraseWrites(m, t) ELSE <<>>

LeaveWrites(m) ==
    IF held[m] = 0 THEN <<>>
    ELSE EraseWrites(m, Barrier(tomb[m], [rev |-> held[m], block |-> TRUE]))

Put(m, d) == /\ held' = [held EXCEPT ![m] = d.held]
             /\ tomb' = [tomb EXCEPT ![m] = d.tomb]

Write(m, writes) == IF writes = <<>> THEN UNCHANGED <<held, tomb>>
                                     ELSE Put(m, writes[Len(writes)])

\* A new state also takes the frames that waited for it.
ApplyGroupInvite(m) ==
    /\ RowKind(m) = "invite"
    /\ Write(m, InviteWrites(m))
    /\ pend' = [pend EXCEPT ![m] = {f \in @ : f.rev > held'[m]}]
    /\ Ack(m)
    /\ UNCHANGED <<owner, leaves, next, leaving, missed, counts>>

\* A person on the roster is unreachable, or under a master that was left:
\* the invitation is dropped, and never comes again.
DropGroupInvite(m) ==
    /\ RowKind(m) = "invite" /\ InviteWrites(m) # <<>>
    /\ Fault
    /\ missed' = missed \cup {m}
    /\ Ack(m)
    /\ UNCHANGED <<owner, leaves, local, next, leaving, acts>>

ApplyGroupRemove(m) ==
    /\ RowKind(m) = "remove"
    /\ Write(m, RemoveWrites(m))
    /\ Ack(m)
    /\ UNCHANGED <<owner, leaves, pend, next, leaving, missed, counts>>

\* A deferred row stays in the relay, its content waits in memory.
ApplyGroupMessage(m) ==
    /\ RowKind(m) = "frame"
    /\ LET f == [from |-> RowAt(m).from, rev |-> RowAt(m).rev]
       IN IF Verdict(held[m], f) = "defer"
          THEN /\ pend' = [pend EXCEPT ![m] = @ \cup {f}]
               /\ next' = [next EXCEPT ![m] = @ + 1]
               /\ UNCHANGED inbox
          ELSE Ack(m) /\ UNCHANGED <<pend, next>>
    /\ UNCHANGED <<owner, leaves, held, tomb, leaving, missed, counts>>

Reconnect(m) ==
    /\ next[m] # 0
    /\ next' = [next EXCEPT ![m] = 0]
    /\ UNCHANGED <<owner, leaves, local, inbox, leaving, missed, counts>>

-----------------------------------------------------------------------------
(* A member sends, leaves, restarts.                                       *)

SendGroupMessage(m) ==
    /\ held[m] # 0
    /\ Act
    /\ inbox' = [n \in Member |->
           IF n \in chain[held[m]].roster \ {m}
           THEN Append(inbox[n], [kind |-> "frame", from |-> m, rev |-> held[m]])
           ELSE inbox[n]]
    /\ UNCHANGED <<owner, leaves, local, next, leaving, missed, faults>>

\* The request is confirmed by the relay; the erase queues behind the inbox.
LeaveGroup(m) ==
    /\ held[m] # 0 /\ ~leaving[m]
    /\ Act
    /\ leaves' = Append(leaves, [from |-> m, rev |-> held[m]])
    /\ leaving' = [leaving EXCEPT ![m] = TRUE]
    /\ UNCHANGED <<owner, local, inbox, next, missed, faults>>

DeleteGroup(m) ==
    /\ leaving[m]
    /\ leaving' = [leaving EXCEPT ![m] = FALSE]
    /\ Write(m, LeaveWrites(m))
    /\ UNCHANGED <<owner, leaves, pend, inbox, next, missed, counts>>

\* The disk as any write of the task at hand left it.
Cut(m) ==
    LET writes == CASE RowKind(m) = "invite" -> InviteWrites(m)
                    [] RowKind(m) = "remove" -> RemoveWrites(m)
                    [] OTHER -> <<>>
    IN {Disk(held[m], tomb[m])}
       \cup {writes[i] : i \in 1..Len(writes)}
       \cup (IF leaving[m] THEN LET w == LeaveWrites(m)
                               IN {w[i] : i \in 1..Len(w)}
             ELSE {})

\* Boot, before any relay is connected: a tombstone and a group that are both
\* there tell which of the two came last.
Recover(d) ==
    IF d.held = 0 \/ d.tomb = None THEN d
    ELSE IF PermitsReadd(d.tomb, d.held) THEN Disk(d.held, None)
    ELSE Disk(0, d.tomb)

Restart(m) ==
    /\ Fault
    /\ \E d \in Cut(m) : Put(m, Recover(d))
    /\ pend' = [pend EXCEPT ![m] = {}]
    /\ next' = [next EXCEPT ![m] = 0]
    /\ leaving' = [leaving EXCEPT ![m] = FALSE]
    /\ UNCHANGED <<owner, leaves, inbox, missed, acts>>

-----------------------------------------------------------------------------
Deliver(j) == \/ Dispatch(j) \/ SendInvite(j)
              \/ SendRemove(j) \/ FinishDispatch(j)

Next ==
    \/ Create \/ AddMember \/ RemoveMember \/ Rename \/ Dissolve
    \/ ApplyGroupLeave \/ OwnerRestart
    \/ \E j \in Job : Deliver(j) \/ SendFails(j)
    \/ \E m \in Member : \/ ApplyGroupInvite(m) \/ DropGroupInvite(m)
                         \/ ApplyGroupRemove(m)
                         \/ ApplyGroupMessage(m) \/ Reconnect(m)
                         \/ SendGroupMessage(m) \/ LeaveGroup(m)
                         \/ DeleteGroup(m) \/ Restart(m)

Spec == Init /\ [][Next]_vars

\* The retry runs at boot, on reconnect and every minute, a dispatcher goes
\* on, and connections last long enough to handle a row.
Fairness ==
    /\ \A j \in Job : WF_vars(Deliver(j))
    /\ \A m \in Member :
          /\ SF_vars(ApplyGroupInvite(m) \/ ApplyGroupRemove(m))
          /\ WF_vars(ApplyGroupMessage(m))

FairSpec == Spec /\ Fairness

-----------------------------------------------------------------------------
(* Properties.                                                             *)

Blocked(m) == tomb[m] # None /\ tomb[m].block
InboxHas(m, row) == \E i \in 1..Len(inbox[m]) : inbox[m][i] = row
Mark(m) == IF tomb[m] # None /\ tomb[m].rev > held[m] THEN tomb[m].rev
                                                      ELSE held[m]

\* Every variable has its type; the marker is of the last state, and what a
\* dispatcher delivers has been committed.
TypeOK ==
    /\ chain \in Seq(State) /\ Last <= MaxRev
    /\ {stored, barred} \subseteq BOOLEAN
    /\ marker # None =>
          marker \in [rev : {Last}, removed : SUBSET Member,
                     del : {chain[Last].over}]
    /\ job \in [Job -> Task]
    /\ \A j \in Job : job[j].rev <= Last
    /\ leaves \in Seq([from : Member, rev : Rev])
    /\ held \in [Member -> 0..Last]
    /\ tomb \in [Member -> Tombstone \cup {None}]
    /\ inbox \in [Member -> Seq(Row)]
    /\ next \in [Member -> Nat]
    /\ \A m \in Member : next[m] <= Len(inbox[m])
    /\ pend \in [Member -> SUBSET Frame]
    /\ leaving \in [Member -> BOOLEAN]
    /\ missed \subseteq Member

\* When no delivery is owed, every member of the roster has the last state
\* or has it in its inbox (or has left), and everybody else has no group or
\* the proof of the removal in its inbox, whatever dispatchers ran at a
\* time, failed or were cut off (dispatchPendingGroupMutationWithinRuntime).
\* Excepted is who missed a removal proof or dropped an invitation.
Told ==
    marker = None =>
        \A m \in Member \ missed :
            IF m \in Roster
            THEN \/ held[m] = Last \/ Blocked(m)
                 \/ InboxHas(m, [kind |-> "invite", rev |-> Last])
            ELSE \/ held[m] = 0
                 \/ \E r \in Rev : /\ r > held[m]
                                  /\ InboxHas(m, [kind |-> "remove", rev |-> r])

\* A group message is never more than one revision ahead of the member that
\* receives it: the owner commits the next state only after every inbox has
\* the last one.  classifyGroupFrame drops a larger jump for good.
InStep ==
    \A m \in Member \ missed :
        RowKind(m) = "frame" /\ held[m] # 0
            => RowAt(m).rev <= held[m] + 1

\* Together: nobody is left out, and nobody is sent what it must drop.
MembersTold == Told /\ InStep

\* What a member stored or was removed at is never taken back, and who left
\* stays out, by whatever rows are replayed or late and wherever the device
\* dies (saveGroupRemovalTombstone, the recovery at boot).
BarrierHolds ==
    [][\A m \in Member :
          /\ Mark(m)' >= Mark(m)
          /\ Blocked(m) => Blocked(m)' /\ (held[m] = 0 => held'[m] = 0)]_vars

\* In the end the owner owes nothing, every member who has not left holds
\* the last state and nobody else holds the group.
Converges ==
    <>[](/\ marker = None
         /\ \A m \in Member \ missed :
                IF m \in Roster THEN held[m] = Last \/ Blocked(m)
                                ELSE held[m] = 0)

\* A removal proof that is not delivered costs nothing but a notice: a member
\* who is added again gets the group.
ProofIsCourtesy ==
    marker = None =>
        \A m \in Roster : \/ held[m] = Last \/ Blocked(m)
                          \/ InboxHas(m, [kind |-> "invite", rev |-> Last])

\* A leave request of a member at the owner's state is lost only for good
\* reason: while a delivery is owed it is kept.
ValidLeaveKept ==
    [][leaves # <<>> /\ leaves' = Tail(leaves) /\ stored
          /\ Head(leaves).rev = Last /\ Head(leaves).from \in Roster
          => Head(leaves).from \notin Roster']_vars

=============================================================================
