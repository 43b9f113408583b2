------------------------- MODULE GroupRoster_proofs -------------------------
(* Machine-checked proofs about module GroupRoster, for any members,         *)
(* dispatchers and bounds.                                                   *)
EXTENDS GroupRoster, SequenceTheorems, TLAPS

(* The chain: who is in state r, and the states a person must be told of,     *)
(* those it is in and the one after, by which it was removed.                 *)
In(m, r)  == r \in 1..Last /\ m \in chain[r].roster
Due(m)    == {r \in 1..Last : In(m, r) \/ In(m, r - 1)}

ChainBooks ==
    /\ \A r \in 1..Last : chain[r].over => r = Last
    /\ \A m \in Member, a \in 1..Last :
          In(m, a) /\ ~In(m, Last)
              => \E r \in a + 1..Last : In(m, r - 1) /\ ~In(m, r)

(* A row is a roster row unless it is a group message.  A person is told of r *)
(* when it is at r or beyond, or has the roster row of r in its inbox.        *)
RosterRow(x, r) == x.kind # "frame" /\ x.rev = r
Queued(m, r)    == \E i \in 1..Len(inbox[m]) : RosterRow(inbox[m][i], r)
ToldOf(m, r)    == r <= Mark(m) \/ Queued(m, r)

(* Who is not out of step: no removal proof was lost, no invitation dropped,  *)
(* and it has not left.                                                       *)
Follower(m) == m \notin missed /\ ~Blocked(m)

(* What a row says is so.                                                     *)
TrueRow(m, x) ==
    /\ x.rev <= Last
    /\ x.kind = "invite" => In(m, x.rev)
    /\ x.kind = "remove" => ~In(m, x.rev) /\ In(m, x.rev - 1)

TrueRows(m) == \A i \in 1..Len(inbox[m]) : TrueRow(m, inbox[m][i])

(* Only messages are passed over.                                             *)
PassedOver(m) == \A i \in 1..next[m] : inbox[m][i].kind = "frame"

(* A person holds a state it is in, or has a barrier at one it is not in.     *)
Standing(m) ==
    /\ held[m] # 0 => In(m, held[m])
    /\ tomb[m] # None => /\ held[m] = 0
                         /\ tomb[m].rev <= Last
                         /\ tomb[m].block \/ ~In(m, tomb[m].rev)

(* Before any row there is one for each earlier state still to be told of.    *)
Before(m, i, r) == \E k \in 1..i - 1 : RosterRow(inbox[m][k], r)

InOrder(m) ==
    \A i \in 1..Len(inbox[m]), r \in Due(m) :
        Mark(m) < r /\ r < inbox[m][i].rev => Before(m, i, r)

(* Everybody is told of every state but the last, and of that one too unless  *)
(* a delivery is owed.                                                        *)
Reached(m) ==
    \A r \in Due(m) : ToldOf(m, r) \/ (r = Last /\ marker # None /\ ~barred)

MemberBooks(m) ==
    /\ TrueRows(m) /\ PassedOver(m) /\ Standing(m)
    /\ Follower(m) => InOrder(m) /\ Reached(m)

(* A dispatcher's rows are true, and those it no longer has to send are sent. *)
JobBooks(x) ==
    x.pc # "idle" =>
        /\ x.rev > 0
        /\ \A m \in x.todo : In(m, x.rev)
        /\ \A m \in x.out : ~In(m, x.rev) /\ In(m, x.rev - 1)
        /\ x.del => chain[x.rev].over
        /\ x.rev = Last =>
              \A m \in Member \ (x.todo \cup x.out) :
                  Follower(m) /\ Last \in Due(m) => ToldOf(m, Last)

OwnerBooks ==
    /\ chain # <<>> /\ ~stored => barred
    /\ barred => chain # <<>> /\ chain[Last].over
    /\ marker # None =>
          /\ chain # <<>>
          /\ \A m \in Member :
                m \in marker.removed <=> ~In(m, Last) /\ In(m, Last - 1)
    /\ \A j \in Job : /\ JobBooks(job[j])
                      /\ job[j].pc \in {"erase", "clear"} => barred

(* The inductive invariant.                                                   *)
Inv ==
    /\ TypeOK /\ ChainBooks /\ OwnerBooks
    /\ \A m \in Member : MemberBooks(m)

-----------------------------------------------------------------------------
(* A row taken out of an inbox: those before it stay, those after move up.    *)
Without(s, n) == SubSeq(s, 1, n) \o SubSeq(s, n + 2, Len(s))

LEMMA TakenOut ==
    ASSUME NEW S, NEW s \in Seq(S), NEW n \in Nat, n < Len(s)
    PROVE  /\ Without(s, n) \in Seq(S)
           /\ Len(Without(s, n)) = Len(s) - 1
           /\ \A i \in 1..Len(s) - 1 :
                 Without(s, n)[i] = IF i <= n THEN s[i] ELSE s[i + 1]
<1> DEFINE u == SubSeq(s, 1, n)
           v == SubSeq(s, n + 2, Len(s))
           t == Without(s, n)
<1>1. Len(s) \in Nat
    BY LenProperties
<1>2. \A i \in 1..Len(s) : s[i] \in S
    BY ElementOfSeq
<1>3. /\ u \in Seq(S)
      /\ Len(u) = n
      /\ \A i \in 1..n : u[i] = s[i]
    <2>1. \A i \in 1..n : s[i] \in S
        BY <1>1, <1>2
    <2>2. /\ u \in Seq(S)
          /\ Len(u) = IF 1 <= n THEN n - 1 + 1 ELSE 0
          /\ \A i \in 1..n - 1 + 1 : u[i] = s[1 + i - 1]
        BY <2>1, SubSeqProperties
    <2> HIDE DEF u
    <2> QED BY <2>2
<1>4. /\ v \in Seq(S)
      /\ Len(v) = Len(s) - n - 1
      /\ \A i \in 1..Len(s) - n - 1 : v[i] = s[n + 1 + i]
    <2>1. \A i \in n + 2..Len(s) : s[i] \in S
        BY <1>1, <1>2
    <2>2. /\ v \in Seq(S)
          /\ Len(v) = IF n + 2 <= Len(s) THEN Len(s) - (n + 2) + 1 ELSE 0
          /\ \A i \in 1..Len(s) - (n + 2) + 1 : v[i] = s[n + 2 + i - 1]
        BY <1>1, <2>1, SubSeqProperties
    <2> HIDE DEF v
    <2>3. Len(v) = Len(s) - n - 1
        BY <1>1, <2>2
    <2>4. ASSUME NEW i \in 1..Len(s) - n - 1 PROVE v[i] = s[n + 1 + i]
        <3>1. i \in 1..Len(s) - (n + 2) + 1 /\ n + 2 + i - 1 = n + 1 + i
            BY <1>1, <2>4
        <3> QED BY <2>2, <3>1
    <2> QED BY <2>2, <2>3, <2>4
<1>5. /\ t \in Seq(S)
      /\ Len(t) = Len(u) + Len(v)
      /\ \A i \in 1..Len(u) + Len(v) :
            t[i] = IF i <= Len(u) THEN u[i] ELSE v[i - Len(u)]
    BY <1>3, <1>4, ConcatProperties DEF Without
<1> HIDE DEF u, v, t
<1>6. Len(u) = n /\ Len(u) + Len(v) = Len(s) - 1
    BY <1>1, <1>3, <1>4
<1>7. \A i \in 1..Len(s) - 1 : t[i] = IF i <= n THEN u[i] ELSE v[i - n]
    BY <1>5, <1>6
<1>8. \A i \in 1..Len(s) - 1 : i > n => v[i - n] = s[i + 1]
    <2>1. \A i \in 1..Len(s) - 1 :
             i > n => i - n \in 1..Len(s) - n - 1 /\ n + 1 + (i - n) = i + 1
        BY <1>1
    <2> QED BY <1>4, <2>1
<1>9. \A i \in 1..Len(s) - 1 : t[i] = IF i <= n THEN s[i] ELSE s[i + 1]
    BY <1>1, <1>3, <1>7, <1>8
<1> QED BY <1>5, <1>6, <1>9 DEF t

-----------------------------------------------------------------------------
(* What a member's disk is at, and what a step may make of it: the mark only  *)
(* rises, and who left stays out.                                             *)
DiskMark(d) ==
    IF d.tomb # None /\ d.tomb.rev > d.held THEN d.tomb.rev ELSE d.held

Lawful(m, d) ==
    /\ d.held \in 0..Last /\ d.tomb \in Tombstone \cup {None}
    /\ d.held # 0 => In(m, d.held)
    /\ d.tomb # None => /\ d.held = 0
                        /\ d.tomb.rev <= Last
                        /\ d.tomb.block \/ ~In(m, d.tomb.rev)
    /\ DiskMark(d) >= Mark(m)
    /\ Blocked(m) => d.tomb # None /\ d.tomb.block

LEMMA DiskFields ==
    ASSUME NEW h, NEW t
    PROVE  Disk(h, t).held = h /\ Disk(h, t).tomb = t
BY DEF Disk

LEMMA LastType == Inv => Last \in 0..MaxRev /\ MaxRev \in Nat
BY GroupAssumption, LenProperties DEF Inv, TypeOK, Last

LEMMA MemberTypes ==
    ASSUME Inv, NEW m \in Member
    PROVE  /\ held[m] \in 0..Last
           /\ tomb[m] # None => /\ tomb[m] \in Tombstone
                                /\ tomb[m].rev \in 1..Last
                                /\ tomb[m].block \in BOOLEAN
                                /\ held[m] = 0
           /\ inbox[m] \in Seq(Row)
           /\ Len(inbox[m]) \in Nat
           /\ next[m] \in 0..Len(inbox[m])
           /\ Mark(m) \in 0..Last
           /\ \A i \in 1..Len(inbox[m]) : inbox[m][i] \in Row
<1>1. Last \in Nat
    BY LastType
<1>2. held[m] \in 0..Last /\ tomb[m] \in Tombstone \cup {None}
    BY DEF Inv, TypeOK
<1>3. Standing(m)
    BY DEF Inv, MemberBooks
<1>4. tomb[m] # None => /\ tomb[m] \in Tombstone
                        /\ tomb[m].rev \in 1..Last
                        /\ tomb[m].block \in BOOLEAN
                        /\ held[m] = 0
    BY <1>1, <1>2, <1>3 DEF Standing, Tombstone, Rev
<1>5. inbox[m] \in Seq(Row) /\ next[m] \in 0..Len(inbox[m])
    BY DEF Inv, TypeOK
<1>6. Len(inbox[m]) \in Nat /\ \A i \in 1..Len(inbox[m]) : inbox[m][i] \in Row
    BY <1>5, ElementOfSeq, LenProperties
<1>7. Mark(m) \in 0..Last
    BY <1>1, <1>2, <1>4 DEF Mark
<1> QED BY <1>2, <1>4, <1>5, <1>6, <1>7

\* The disk at rest.
LEMMA RestLawful ==
    ASSUME Inv, NEW m \in Member
    PROVE  /\ Lawful(m, Disk(held[m], tomb[m]))
           /\ Recover(Disk(held[m], tomb[m])) = Disk(held[m], tomb[m])
<1>1. Standing(m)
    BY DEF Inv, MemberBooks
<1> QED BY <1>1, MemberTypes, LastType
        DEF Lawful, DiskMark, Disk, Mark, Recover, Blocked, Standing

(* The row at hand.                                                           *)
LEMMA RowFacts ==
    ASSUME Inv, NEW m \in Member, RowKind(m) # "none"
    PROVE  /\ HasRow(m) /\ RowKind(m) = RowAt(m).kind
           /\ next[m] + 1 \in 1..Len(inbox[m])
           /\ RowAt(m) \in Row /\ TrueRow(m, RowAt(m))
           /\ RowAt(m).rev \in 1..Last
<1>1. HasRow(m) /\ RowKind(m) = RowAt(m).kind
    BY DEF RowKind
<1>2. next[m] + 1 \in 1..Len(inbox[m])
    BY <1>1, MemberTypes DEF HasRow
<1>3. RowAt(m) \in Row /\ TrueRow(m, RowAt(m))
    BY <1>2, MemberTypes DEF Inv, MemberBooks, TrueRows, RowAt
<1>4. RowAt(m).rev \in 1..Last
    BY <1>3, LastType DEF TrueRow, Row, Rev
<1> QED BY <1>1, <1>2, <1>3, <1>4

-----------------------------------------------------------------------------
(* What each write of an invitation, a removal or a leave makes of the disk,  *)
(* after the recovery at boot: nothing is ever taken back.                    *)
LEMMA InviteLawful ==
    ASSUME Inv, NEW m \in Member, RowKind(m) = "invite",
           NEW i \in 1..Len(InviteWrites(m))
    PROVE  /\ Lawful(m, Recover(InviteWrites(m)[i]))
           /\ i = Len(InviteWrites(m)) => Lawful(m, InviteWrites(m)[i])
<1> DEFINE rev == RowAt(m).rev
<1>1. rev \in 1..Last /\ In(m, rev) /\ Last \in Nat
    BY RowFacts, LastType DEF TrueRow
<1>2. /\ InviteWrites(m) = <<Disk(rev, tomb[m]), Disk(rev, None)>>
      /\ PermitsReadd(tomb[m], rev) /\ Follows(held[m], rev)
    BY DEF InviteWrites
<1>3. ~Blocked(m) /\ Mark(m) <= rev
    BY <1>1, <1>2, MemberTypes DEF PermitsReadd, Follows, Mark, Blocked
<1>4. Lawful(m, Disk(rev, None)) /\ Recover(Disk(rev, None)) = Disk(rev, None)
    BY <1>1, <1>3, DiskFields DEF Lawful, DiskMark, Recover
<1>5. Recover(Disk(rev, tomb[m])) = Disk(rev, None)
    BY <1>1, <1>2, DiskFields DEF Recover
<1> HIDE DEF rev
<1> QED BY <1>2, <1>4, <1>5

\* A barrier at the revision at hand, over the one that is there.
LEMMA EraseLawful ==
    ASSUME Inv, NEW m \in Member, NEW t \in Tombstone,
           t.rev <= Last, t.rev >= Mark(m), Blocked(m) => t.block,
           t.block \/ ~In(m, t.rev), NEW i \in 1..Len(EraseWrites(m, t))
    PROVE  /\ Lawful(m, Recover(EraseWrites(m, t)[i]))
           /\ i = Len(EraseWrites(m, t)) => Lawful(m, EraseWrites(m, t)[i])
<1>1. t.rev \in 1..Last /\ t # None /\ Last \in Nat
    BY LastType, GroupAssumption DEF Tombstone, Rev
<1>2. EraseWrites(m, t) = <<Disk(held[m], t), Disk(0, t)>>
    BY DEF EraseWrites
<1>3. Lawful(m, Disk(0, t)) /\ Recover(Disk(0, t)) = Disk(0, t)
    BY <1>1, DiskFields DEF Lawful, DiskMark, Recover
<1>4. Recover(Disk(held[m], t)) = Disk(0, t)
    <2>1. CASE held[m] = 0
        BY <1>3, <2>1
    <2>2. CASE held[m] # 0
        <3>1. held[m] <= t.rev
            BY <1>1, <2>2, MemberTypes DEF Mark
        <3>2. ~PermitsReadd(t, held[m])
            BY <1>1, <3>1, MemberTypes DEF PermitsReadd
        <3> QED BY <1>1, <2>2, <3>2, DiskFields DEF Recover
    <2> QED BY <2>1, <2>2
<1> QED BY <1>2, <1>3, <1>4

LEMMA RemoveLawful ==
    ASSUME Inv, NEW m \in Member, RowKind(m) = "remove",
           NEW i \in 1..Len(RemoveWrites(m))
    PROVE  /\ Lawful(m, Recover(RemoveWrites(m)[i]))
           /\ i = Len(RemoveWrites(m)) => Lawful(m, RemoveWrites(m)[i])
<1> DEFINE rev == RowAt(m).rev
           new == [rev |-> rev, block |-> chain[rev].over]
           t   == Barrier(tomb[m], new)
<1>1. rev \in 1..Last /\ ~In(m, rev) /\ Last \in Nat /\ rev \in Rev
    BY RowFacts, LastType DEF TrueRow, Rev
<1>2. chain[rev].over \in BOOLEAN
    <2>1. chain[rev] \in State
        BY <1>1, ElementOfSeq DEF Inv, TypeOK, Last
    <2> QED BY <2>1 DEF State
<1>3. /\ RemoveWrites(m) = EraseWrites(m, t)
      /\ held[m] # 0 \/ tomb[m] # None
      /\ held[m] # 0 => rev = held[m] + 1
      /\ tomb[m] # None => rev > tomb[m].rev
    BY DEF RemoveWrites
<1>4. /\ t \in Tombstone /\ t.rev = rev
      /\ Blocked(m) => t.block
    BY <1>1, <1>2, <1>3, MemberTypes DEF Barrier, Tombstone, Blocked
<1>5. t.rev >= Mark(m)
    BY <1>1, <1>3, <1>4, MemberTypes DEF Mark
<1> HIDE DEF t, rev
<1> QED BY <1>1, <1>3, <1>4, <1>5, EraseLawful

LEMMA LeaveLawful ==
    ASSUME Inv, NEW m \in Member, NEW i \in 1..Len(LeaveWrites(m))
    PROVE  /\ Lawful(m, Recover(LeaveWrites(m)[i]))
           /\ i = Len(LeaveWrites(m)) => Lawful(m, LeaveWrites(m)[i])
<1> DEFINE new == [rev |-> held[m], block |-> TRUE]
<1>1. /\ held[m] # 0
      /\ LeaveWrites(m) = EraseWrites(m, Barrier(tomb[m], new))
    BY DEF LeaveWrites
<1>2. tomb[m] = None /\ held[m] \in 1..Last /\ Last \in 0..MaxRev /\ MaxRev \in Nat
    BY <1>1, MemberTypes, LastType
<1>3. Barrier(tomb[m], new) = new /\ new \in Tombstone
    BY <1>2 DEF Barrier, Tombstone, Rev
<1>4. new.rev <= Last /\ new.rev >= Mark(m) /\ new.block
    BY <1>2 DEF Mark
<1> HIDE DEF new
<1> QED BY <1>1, <1>3, <1>4, EraseLawful

-----------------------------------------------------------------------------
(* A roster row that is handled is one the member is then at, if it follows.  *)
\* No state is still to be told of between the mark and the row at hand.
LEMMA NextDue ==
    ASSUME Inv, NEW m \in Member, RowKind(m) # "none", Follower(m),
           NEW r \in Due(m)
    PROVE  ~(Mark(m) < r /\ r < RowAt(m).rev)
<1>1. InOrder(m) /\ PassedOver(m)
    BY DEF Inv, MemberBooks
<1>2. next[m] \in Nat /\ next[m] + 1 \in 1..Len(inbox[m])
    BY RowFacts, MemberTypes
<1>3. ~Before(m, next[m] + 1, r)
    BY <1>1, <1>2 DEF Before, PassedOver, RosterRow
<1> QED BY <1>1, <1>2, <1>3 DEF InOrder, RowAt

LEMMA NextToHeld ==
    ASSUME Inv, NEW m \in Member, RowKind(m) # "none", Follower(m), held[m] # 0
    PROVE  RowAt(m).rev <= held[m] + 1
<1>1. Mark(m) = held[m] /\ held[m] \in 1..Last /\ Last \in Nat
    BY MemberTypes, LastType DEF Mark
<1>2. In(m, held[m])
    BY <1>1 DEF Inv, MemberBooks, Standing
<1>3. RowAt(m).rev \in 1..Last
    BY RowFacts
<1>4. CASE RowAt(m).rev > held[m] + 1
    <2>1. held[m] + 1 \in Due(m)
        BY <1>1, <1>2, <1>3, <1>4 DEF Due
    <2> QED BY <1>1, <1>3, <1>4, <2>1, NextDue
<1> QED BY <1>1, <1>3, <1>4

LEMMA InviteTaken ==
    ASSUME Inv, NEW m \in Member, RowKind(m) = "invite", Follower(m),
           RowAt(m).rev > Mark(m)
    PROVE  InviteWrites(m) = <<Disk(RowAt(m).rev, tomb[m]), Disk(RowAt(m).rev, None)>>
<1>1. RowAt(m).rev \in 1..Last /\ Last \in Nat
    BY RowFacts, LastType
<1>2. PermitsReadd(tomb[m], RowAt(m).rev)
    BY <1>1, MemberTypes DEF PermitsReadd, Follower, Blocked, Mark
<1>3. Follows(held[m], RowAt(m).rev)
    BY <1>1, NextToHeld, MemberTypes DEF Follows, Mark
<1> QED BY <1>2, <1>3 DEF InviteWrites

LEMMA RemoveTaken ==
    ASSUME Inv, NEW m \in Member, RowKind(m) = "remove", Follower(m),
           RowAt(m).rev > Mark(m)
    PROVE  /\ held[m] # 0 /\ tomb[m] = None
           /\ RowAt(m).rev = held[m] + 1
<1> DEFINE rev == RowAt(m).rev
<1>1. rev \in 1..Last /\ ~In(m, rev) /\ In(m, rev - 1) /\ Last \in Nat
    BY RowFacts, LastType DEF TrueRow
<1>2. rev - 1 \in Due(m) /\ rev - 1 \in 1..Last
    BY <1>1 DEF Due, In
<1>3. Mark(m) = rev - 1
    BY <1>1, <1>2, NextDue, MemberTypes
<1>4. tomb[m] = None
    <2>1. Standing(m)
        BY DEF Inv, MemberBooks
    <2> QED BY <1>1, <1>2, <1>3, <2>1, MemberTypes DEF Standing, Mark, Follower, Blocked
<1> QED BY <1>1, <1>2, <1>3, <1>4, MemberTypes DEF Mark

(* What the row at hand, or a leave, makes of the disk.                       *)
Taken(m, writes) ==
    IF writes = <<>> THEN Disk(held[m], tomb[m]) ELSE writes[Len(writes)]

LEMMA WritePuts ==
    ASSUME Inv, NEW m \in Member, NEW w, Write(m, w)
    PROVE  Put(m, Taken(m, w))
BY DiskFields DEF Inv, TypeOK, Write, Put, Taken

LEMMA InviteDone ==
    ASSUME Inv, NEW m \in Member, RowKind(m) = "invite"
    PROVE  /\ Lawful(m, Taken(m, InviteWrites(m)))
           /\ Follower(m) => RowAt(m).rev <= DiskMark(Taken(m, InviteWrites(m)))
<1> DEFINE w == InviteWrites(m)
           d == Disk(RowAt(m).rev, None)
<1>1. w = <<>> \/ (Len(w) = 2 /\ w[2] = d)
    BY DEF InviteWrites
<1>2. w # <<>> => Lawful(m, w[2]) /\ Taken(m, w) = d
    BY <1>1, InviteLawful DEF Taken
<1>3. Lawful(m, Taken(m, w))
    BY <1>1, <1>2, RestLawful DEF Taken
<1>4. ASSUME Follower(m) PROVE RowAt(m).rev <= DiskMark(Taken(m, w))
    <2>1. RowAt(m).rev \in 1..Last /\ Last \in Nat
        BY RowFacts, LastType
    <2>2. CASE RowAt(m).rev > Mark(m)
        <3>1. Taken(m, w) = d
            BY <1>2, <1>4, <2>2, InviteTaken
        <3> QED BY <2>1, <3>1, DiskFields DEF DiskMark
    <2>3. CASE RowAt(m).rev <= Mark(m)
        <3>1. DiskMark(Taken(m, w)) >= Mark(m) /\ DiskMark(Taken(m, w)) \in Nat
            BY <1>3, <2>1 DEF Lawful, DiskMark, Tombstone, Rev
        <3> QED BY <2>1, <2>3, <3>1, MemberTypes
    <2> QED BY <2>1, <2>2, <2>3, MemberTypes
<1> QED BY <1>3, <1>4

LEMMA RemoveDone ==
    ASSUME Inv, NEW m \in Member, RowKind(m) = "remove"
    PROVE  /\ Lawful(m, Taken(m, RemoveWrites(m)))
           /\ Follower(m) => RowAt(m).rev <= DiskMark(Taken(m, RemoveWrites(m)))
<1> DEFINE w == RemoveWrites(m)
           rev == RowAt(m).rev
           t == Barrier(tomb[m], [rev |-> rev, block |-> chain[rev].over])
<1>1. w = <<>> \/ (Len(w) = 2 /\ w[2] = Disk(0, t))
    BY DEF RemoveWrites, EraseWrites
<1>2. w # <<>> => Lawful(m, w[2]) /\ Taken(m, w) = Disk(0, t)
    BY <1>1, RemoveLawful DEF Taken
<1>3. Lawful(m, Taken(m, w))
    BY <1>1, <1>2, RestLawful DEF Taken
<1>4. ASSUME Follower(m) PROVE rev <= DiskMark(Taken(m, w))
    <2>1. rev \in 1..Last /\ Last \in Nat
        BY RowFacts, LastType
    <2>2. CASE rev > Mark(m)
        <3>1. held[m] # 0 /\ tomb[m] = None /\ rev = held[m] + 1
            BY <1>4, <2>2, RemoveTaken
        <3>2. Taken(m, w) = Disk(0, t)
            BY <1>2, <3>1 DEF RemoveWrites, EraseWrites
        <3>3. t.rev = rev /\ t # None
            <4>1. t.rev = rev
                BY <3>1 DEF Barrier
            <4>2. DiskMark(Disk(0, t)) >= Mark(m) /\ Mark(m) = held[m] /\ held[m] > 0
                BY <1>3, <3>1, <3>2, MemberTypes DEF Lawful, Mark
            <4> HIDE DEF t
            <4>3. t # None
                BY <4>2, DiskFields, MemberTypes DEF DiskMark
            <4> QED BY <4>1, <4>3
        <3> QED BY <2>1, <3>2, <3>3, DiskFields DEF DiskMark
    <2>3. CASE rev <= Mark(m)
        <3>1. DiskMark(Taken(m, w)) >= Mark(m) /\ DiskMark(Taken(m, w)) \in Nat
            BY <1>3, <2>1 DEF Lawful, DiskMark, Tombstone, Rev
        <3> QED BY <2>1, <2>3, <3>1, MemberTypes
    <2> QED BY <2>1, <2>2, <2>3, MemberTypes
<1> QED BY <1>3, <1>4

LEMMA LeaveDone ==
    ASSUME Inv, NEW m \in Member
    PROVE  Lawful(m, Taken(m, LeaveWrites(m)))
<1> DEFINE w == LeaveWrites(m)
<1>1. w = <<>> \/ Len(w) = 2
    BY DEF LeaveWrites, EraseWrites
<1> QED BY <1>1, LeaveLawful, RestLawful DEF Taken

LEMMA CutLawful ==
    ASSUME Inv, NEW m \in Member, NEW d \in Cut(m)
    PROVE  Lawful(m, Recover(d))
<1>1. CASE d = Disk(held[m], tomb[m])
    BY <1>1, RestLawful
<1>2. CASE RowKind(m) = "invite" /\ \E i \in 1..Len(InviteWrites(m)) : d = InviteWrites(m)[i]
    BY <1>2, InviteLawful
<1>3. CASE RowKind(m) = "remove" /\ \E i \in 1..Len(RemoveWrites(m)) : d = RemoveWrites(m)[i]
    BY <1>3, RemoveLawful
<1>4. CASE \E i \in 1..Len(LeaveWrites(m)) : d = LeaveWrites(m)[i]
    BY <1>4, LeaveLawful
<1>5. CASE RowKind(m) \notin {"invite", "remove"} /\ d # Disk(held[m], tomb[m])
           /\ \A i \in 1..Len(LeaveWrites(m)) : d # LeaveWrites(m)[i]
    BY <1>5 DEF Cut
<1> QED BY <1>1, <1>2, <1>3, <1>4, <1>5 DEF Cut

-----------------------------------------------------------------------------
(* The owner's chain unchanged, the books of a person whose things are.       *)
LEMMA BooksStand ==
    ASSUME NEW n \in Member, MemberBooks(n), UNCHANGED <<chain, marker, barred>>,
           UNCHANGED <<held[n], tomb[n], inbox[n], next[n]>>, missed \subseteq missed'
    PROVE  MemberBooks(n)'
<1>1. UNCHANGED <<Last, Mark(n), Blocked(n), Due(n)>> /\ (Follower(n)' => Follower(n))
    BY DEF Last, Mark, Blocked, Due, In, Follower
<1>2. TrueRows(n)' /\ PassedOver(n)' /\ Standing(n)'
    BY DEF MemberBooks, TrueRows, TrueRow, PassedOver, Standing, In, Last
<1>3. InOrder(n) => InOrder(n)'
    BY <1>1 DEF InOrder, Before
<1>4. Reached(n) => Reached(n)'
    BY <1>1 DEF Reached, ToldOf, Queued
<1> QED BY <1>1, <1>2, <1>3, <1>4 DEF MemberBooks

\* Whoever has been told of the last state has been told.
LEMMA OwnerStands ==
    ASSUME OwnerBooks, UNCHANGED owner, missed \subseteq missed',
           \A n \in Member : Follower(n)' =>
               Follower(n) /\ (ToldOf(n, Last) => ToldOf(n, Last)')
    PROVE  OwnerBooks'
<1>1. \A n, r : UNCHANGED <<In(n, r), Due(n), Last>>
    BY DEF owner, In, Due, Last
<1>2. \A j \in Job : JobBooks(job[j])'
    BY <1>1 DEF owner, OwnerBooks, JobBooks
<1> QED BY <1>1, <1>2 DEF owner, OwnerBooks

LEMMA ChainStands ==
    ASSUME ChainBooks, UNCHANGED chain
    PROVE  ChainBooks'
BY DEF ChainBooks, In, Last

(* Rows that are true are added to inboxes.                                   *)
LEMMA RowsAdded ==
    ASSUME Inv, UNCHANGED <<chain, marker, barred, held, tomb, next>>,
           missed \subseteq missed', NEW n \in Member,
           \/ inbox'[n] = inbox[n]
           \/ \E row \in Row : TrueRow(n, row) /\ inbox'[n] = Append(inbox[n], row)
    PROVE  /\ MemberBooks(n)'
           /\ \A r : ToldOf(n, r) => ToldOf(n, r)'
           /\ Follower(n)' => Follower(n)
<1>0. MemberBooks(n)
    BY DEF Inv
<1>1. CASE inbox'[n] = inbox[n]
    BY <1>0, <1>1, BooksStand DEF ToldOf, Queued, Mark, Follower, Blocked
<1>2. ASSUME NEW row \in Row, TrueRow(n, row), inbox'[n] = Append(inbox[n], row)
      PROVE  /\ MemberBooks(n)'
             /\ \A r : ToldOf(n, r) => ToldOf(n, r)'
             /\ Follower(n)' => Follower(n)
    <2> DEFINE l == Len(inbox[n])
    <2>1. /\ l \in Nat /\ Len(inbox'[n]) = l + 1
          /\ \A i \in 1..l : inbox'[n][i] = inbox[n][i]
          /\ inbox'[n][l + 1] = row
        BY <1>2, MemberTypes, AppendProperties
    <2>2. UNCHANGED <<Last, Mark(n), Blocked(n), Due(n)>> /\ (Follower(n)' => Follower(n))
        BY DEF Last, Mark, Blocked, Due, In, Follower
    <2>3. \A m, r : In(m, r)' = In(m, r)
        BY DEF In, Last
    <2> HIDE DEF l
    <2>4. TrueRows(n)'
        <3>1. \A i \in 1..l + 1 : TrueRow(n, inbox'[n][i])
            BY <1>0, <1>2, <2>1 DEF MemberBooks, TrueRows, l
        <3> QED BY <2>1, <2>2, <2>3, <3>1 DEF TrueRows, TrueRow
    <2>5. PassedOver(n)'
        BY <1>0, <2>1, MemberTypes DEF MemberBooks, PassedOver, l
    <2>6. Standing(n)'
        BY <1>0, <2>2, <2>3 DEF MemberBooks, Standing
    <2>7. \A r : Queued(n, r) => Queued(n, r)'
        BY <2>1 DEF Queued, l
    <2>8. \A r : ToldOf(n, r) => ToldOf(n, r)'
        BY <2>2, <2>7 DEF ToldOf
    <2>9. ASSUME Follower(n) PROVE Reached(n)' /\ InOrder(n)'
        <3>1. Reached(n)'
            BY <1>0, <2>2, <2>8, <2>9 DEF MemberBooks, Reached
        <3>2. ASSUME NEW i \in 1..l + 1, NEW r \in Due(n),
                     Mark(n) < r, r < inbox'[n][i].rev
              PROVE  Before(n, i, r)'
            <4>1. CASE i <= l
                <5>1. Before(n, i, r)
                    BY <1>0, <2>1, <2>9, <3>2, <4>1 DEF MemberBooks, InOrder, l
                <5> QED BY <2>1, <3>2, <4>1, <5>1 DEF Before
            <4>2. CASE i = l + 1
                <5>1. r < row.rev /\ row.rev <= Last
                    BY <1>2, <2>1, <3>2, <4>2 DEF TrueRow
                <5>2. r # Last /\ ~(r <= Mark(n))
                    BY <1>2, <3>2, <5>1, LastType, MemberTypes DEF Row, Rev, Due
                <5>3. Queued(n, r)
                    BY <1>0, <2>9, <5>2 DEF MemberBooks, Reached, ToldOf
                <5>4. \E k \in 1..l : RosterRow(inbox'[n][k], r)
                    BY <2>1, <5>3 DEF Queued, l
                <5> QED BY <2>1, <4>2, <5>4 DEF Before
            <4> QED BY <2>1, <3>2, <4>1, <4>2
        <3> QED BY <2>1, <2>2, <3>1, <3>2 DEF InOrder
    <2> QED BY <2>2, <2>4, <2>5, <2>6, <2>8, <2>9 DEF MemberBooks
<1> QED BY <1>1, <1>2

-----------------------------------------------------------------------------
(* A member's step: its disk moves on lawfully, and the row at hand stays, or  *)
(* is a message that is passed over, or is taken out once it is done with.     *)
RowsStay(m) ==
    /\ inbox' = inbox
    /\ next'[m] \in Nat
    /\ \A i \in 1..next'[m] : inbox[m][i].kind = "frame"

Stays(m) == Follower(m) /\ m \notin missed'

RowDone(m, d) ==
    /\ RowKind(m) # "none" /\ Ack(m) /\ next' = next
    /\ RowKind(m) = "frame" \/ (Stays(m) => RowAt(m).rev <= DiskMark(d))

LEMMA DiskMoves ==
    ASSUME Inv, NEW m \in Member, NEW d, Lawful(m, d), Put(m, d), chain' = chain,
           missed \subseteq missed'
    PROVE  /\ held'[m] = d.held /\ tomb'[m] = d.tomb
           /\ Mark(m)' = DiskMark(d) /\ Mark(m)' \in Nat /\ Mark(m)' >= Mark(m)
           /\ Standing(m)'
           /\ Follower(m)' => Follower(m)
<1>1. held'[m] = d.held /\ tomb'[m] = d.tomb
    BY DEF Put, Inv, TypeOK
<1>2. Last' = Last /\ Last \in Nat /\ \A r : In(m, r)' = In(m, r)
    BY LastType DEF Last, In
<1>3. Mark(m)' = DiskMark(d)
    BY <1>1 DEF Mark, DiskMark
<1>4. DiskMark(d) \in Nat /\ DiskMark(d) >= Mark(m)
    BY <1>2 DEF Lawful, DiskMark, Tombstone, Rev
<1>5. Standing(m)'
    BY <1>1, <1>2 DEF Lawful, Standing
<1>6. Follower(m)' => Follower(m)
    BY <1>1 DEF Lawful, Follower, Blocked
<1> QED BY <1>1, <1>3, <1>4, <1>5, <1>6

LEMMA AckRows ==
    ASSUME Inv, NEW m \in Member, RowKind(m) # "none", Ack(m)
    PROVE  /\ inbox'[m] \in Seq(Row)
           /\ Len(inbox[m]) \in Nat /\ Len(inbox'[m]) = Len(inbox[m]) - 1
           /\ \A i \in 1..Len(inbox[m]) - 1 :
                 inbox'[m][i] = IF i <= next[m] THEN inbox[m][i] ELSE inbox[m][i + 1]
           /\ \A n \in Member \ {m} : inbox'[n] = inbox[n]
           /\ inbox' = [inbox EXCEPT ![m] = inbox'[m]]
<1>1. next[m] \in Nat /\ next[m] < Len(inbox[m])
    BY RowFacts, MemberTypes
<1>2. inbox'[m] = Without(inbox[m], next[m])
    BY DEF Ack, Inv, TypeOK, Without
<1>3. /\ \A n \in Member \ {m} : inbox'[n] = inbox[n]
      /\ inbox' = [inbox EXCEPT ![m] = inbox'[m]]
    BY DEF Ack, Inv, TypeOK
<1> QED BY <1>1, <1>2, <1>3, MemberTypes, TakenOut

LEMMA RowsStayBooks ==
    ASSUME Inv, NEW m \in Member, NEW d, Lawful(m, d), Put(m, d),
           UNCHANGED <<chain, marker, barred>>, missed \subseteq missed', RowsStay(m)
    PROVE  /\ MemberBooks(m)'
           /\ \A r \in Nat : ToldOf(m, r) => ToldOf(m, r)'
<1>0. MemberBooks(m)
    BY DEF Inv
<1>1. /\ Mark(m) \in Nat /\ Mark(m)' \in Nat /\ Mark(m)' >= Mark(m)
      /\ Standing(m)'
      /\ Follower(m)' => Follower(m)
    BY DiskMoves, MemberTypes, LastType
<1>2. Last' = Last /\ Last \in Nat /\ Due(m)' = Due(m) /\ Due(m) \subseteq Nat
    BY LastType DEF Last, Due, In
<1>3. TrueRows(m)' /\ PassedOver(m)'
    BY <1>0 DEF MemberBooks, TrueRows, TrueRow, PassedOver, RowsStay, In, Last
<1>4. \A r \in Nat : ToldOf(m, r) => ToldOf(m, r)'
    BY <1>1 DEF ToldOf, Queued, RowsStay
<1>5. Reached(m) => Reached(m)'
    BY <1>2, <1>4 DEF Reached
<1>6. InOrder(m) => InOrder(m)'
    BY <1>1, <1>2 DEF InOrder, Before, RowsStay
<1> QED BY <1>0, <1>1, <1>3, <1>4, <1>5, <1>6 DEF MemberBooks

LEMMA RowDoneBooks ==
    ASSUME Inv, NEW m \in Member, NEW d, Lawful(m, d), Put(m, d),
           UNCHANGED <<chain, marker, barred>>, missed \subseteq missed', RowDone(m, d)
    PROVE  /\ MemberBooks(m)'
           /\ Stays(m) => \A r \in Nat : ToldOf(m, r) => ToldOf(m, r)'
<1> DEFINE l == Len(inbox[m])
           n == next[m]
<1>0. MemberBooks(m)
    BY DEF Inv
<1>1. /\ Mark(m) \in Nat /\ Mark(m)' \in Nat /\ Mark(m)' >= Mark(m)
      /\ Mark(m)' = DiskMark(d)
      /\ Standing(m)'
      /\ Follower(m)' => Stays(m)
    BY DiskMoves, MemberTypes, LastType DEF Follower, Stays
<1>2. /\ Last' = Last /\ Last \in Nat /\ Due(m)' = Due(m) /\ Due(m) \subseteq Nat
      /\ \A r : In(m, r)' = In(m, r)
    BY LastType DEF Last, Due, In
<1>3. /\ l \in Nat /\ n \in Nat /\ n + 1 \in 1..l /\ next'[m] = n
      /\ Len(inbox'[m]) = l - 1
      /\ \A i \in 1..l - 1 :
            inbox'[m][i] = IF i <= n THEN inbox[m][i] ELSE inbox[m][i + 1]
      /\ RowAt(m) = inbox[m][n + 1]
    BY RowFacts, AckRows, MemberTypes DEF RowDone, RowAt
<1>4. /\ \A i \in 1..l : inbox[m][i].rev \in Nat
      /\ RowAt(m).kind = "frame" \/ (Stays(m) => RowAt(m).rev <= Mark(m)')
    <2>1. \A i \in 1..l : inbox[m][i].rev \in Nat
        BY MemberTypes DEF Row, Rev
    <2> QED BY <1>1, <2>1, RowFacts DEF RowDone
<1> HIDE DEF l, n
<1>5. TrueRows(m)'
    <2>1. \A i \in 1..l : TrueRow(m, inbox[m][i])
        BY <1>0 DEF MemberBooks, TrueRows, l
    <2>2. ASSUME NEW i \in 1..l - 1 PROVE TrueRow(m, inbox'[m][i])
        <3>1. \E k \in 1..l : inbox'[m][i] = inbox[m][k]
            <4>1. i \in 1..l /\ i + 1 \in 1..l
                BY <1>3
            <4> QED BY <1>3, <4>1
        <3> QED BY <2>1, <3>1
    <2> QED BY <1>2, <1>3, <2>2 DEF TrueRows, TrueRow
<1>6. PassedOver(m)'
    BY <1>0, <1>3 DEF MemberBooks, PassedOver, n
\* A row that is taken out is of a state the member is at or beyond.
<1>7. ASSUME Stays(m), NEW r \in Nat, r > Mark(m)',
             NEW k \in 1..l, RosterRow(inbox[m][k], r)
      PROVE  \/ k <= n /\ RosterRow(inbox'[m][k], r)
             \/ k > n + 1 /\ RosterRow(inbox'[m][k - 1], r)
    <2>1. k # n + 1
        BY <1>1, <1>3, <1>4, <1>7 DEF RosterRow
    <2>2. CASE k <= n
        BY <1>3, <1>7, <2>2
    <2>3. CASE k > n + 1
        <3>1. k - 1 \in 1..l - 1 /\ ~(k - 1 <= n) /\ (k - 1) + 1 = k
            BY <1>3, <1>7, <2>3
        <3>2. inbox'[m][k - 1] = inbox[m][k]
            BY <1>3, <3>1
        <3> QED BY <1>7, <2>3, <3>2
    <2> QED BY <1>3, <1>7, <2>1, <2>2, <2>3
<1>8. ASSUME Stays(m), NEW r \in Nat, ToldOf(m, r)
      PROVE  ToldOf(m, r)'
    <2>1. CASE r <= Mark(m)'
        BY <2>1 DEF ToldOf
    <2>2. CASE r > Mark(m)'
        <3>1. PICK k \in 1..l : RosterRow(inbox[m][k], r)
            BY <1>1, <1>8, <2>2 DEF ToldOf, Queued, l
        <3>2. \/ k <= n /\ RosterRow(inbox'[m][k], r)
              \/ k > n + 1 /\ RosterRow(inbox'[m][k - 1], r)
            BY <1>7, <1>8, <2>2, <3>1
        <3>3. \E i \in 1..l - 1 : RosterRow(inbox'[m][i], r)
            BY <1>3, <3>1, <3>2
        <3> QED BY <1>3, <3>3 DEF ToldOf, Queued
    <2> QED BY <1>1, <1>8, <2>1, <2>2
<1>9. Stays(m) /\ Reached(m) => Reached(m)'
    BY <1>2, <1>8 DEF Reached
<1>10. ASSUME Stays(m), InOrder(m), NEW i \in 1..l - 1, NEW r \in Due(m),
              Mark(m)' < r, r < inbox'[m][i].rev
       PROVE  Before(m, i, r)'
    <2> DEFINE j == IF i <= n THEN i ELSE i + 1
    <2>1. j \in 1..l /\ inbox'[m][i] = inbox[m][j] /\ r \in Nat
        BY <1>2, <1>3, <1>10
    <2>2. Before(m, j, r)
        BY <1>1, <1>10, <2>1 DEF InOrder, l
    <2>3. PICK k \in 1..j - 1 : RosterRow(inbox[m][k], r)
        BY <2>2 DEF Before
    <2>4. k \in 1..l /\ (k <= n => k \in 1..i - 1) /\ (k > n + 1 => k - 1 \in 1..i - 1)
        BY <1>3, <1>10, <2>1, <2>3
    <2>5. \/ k <= n /\ RosterRow(inbox'[m][k], r)
          \/ k > n + 1 /\ RosterRow(inbox'[m][k - 1], r)
        BY <1>7, <1>10, <2>1, <2>3, <2>4
    <2> QED BY <2>4, <2>5 DEF Before
<1>11. Stays(m) /\ InOrder(m) => InOrder(m)'
    BY <1>2, <1>3, <1>10 DEF InOrder
<1>12. Follower(m)' => InOrder(m)' /\ Reached(m)'
    BY <1>0, <1>1, <1>9, <1>11 DEF MemberBooks, Stays
<1> QED BY <1>1, <1>5, <1>6, <1>8, <1>12 DEF MemberBooks

-----------------------------------------------------------------------------
(* A member's step keeps the invariant.                                       *)
LEMMA MemberStep ==
    ASSUME Inv, NEW m \in Member, NEW d, Lawful(m, d), Put(m, d),
           UNCHANGED owner, missed \subseteq missed', missed' \subseteq Member,
           leaves' \in Seq([from : Member, rev : Rev]),
           pend' \in [Member -> SUBSET Frame], leaving' \in [Member -> BOOLEAN],
           \/ RowDone(m, d)
           \/ RowsStay(m) /\ \E i \in 0..Len(inbox[m]) : next' = [next EXCEPT ![m] = i]
    PROVE  Inv'
<1>1. UNCHANGED <<chain, marker, barred, Last>>
    BY DEF owner, Last
<1>2. /\ inbox' \in [Member -> Seq(Row)] /\ next' \in [Member -> Nat]
      /\ \A n \in Member : next'[n] <= Len(inbox'[n])
      /\ \A n \in Member \ {m} : UNCHANGED <<inbox[n], next[n]>>
    <2>1. CASE RowDone(m, d)
        <3>1. next[m] \in Nat /\ next[m] + 1 \in 1..Len(inbox[m])
            BY <2>1, RowFacts, MemberTypes DEF RowDone
        <3>2. /\ inbox'[m] \in Seq(Row)
              /\ Len(inbox[m]) \in Nat /\ Len(inbox'[m]) = Len(inbox[m]) - 1
              /\ inbox' = [inbox EXCEPT ![m] = inbox'[m]]
              /\ next' = next
            BY <2>1, AckRows DEF RowDone
        <3>3. /\ inbox \in [Member -> Seq(Row)] /\ next \in [Member -> Nat]
              /\ \A n \in Member : next[n] <= Len(inbox[n])
            BY DEF Inv, TypeOK
        <3>4. inbox' \in [Member -> Seq(Row)] /\ \A n \in Member \ {m} : inbox'[n] = inbox[n]
            BY <3>2, <3>3
        <3>5. next[m] <= Len(inbox'[m])
            BY <3>1, <3>2
        <3> QED BY <3>2, <3>3, <3>4, <3>5
    <2>2. CASE RowsStay(m) /\ \E i \in 0..Len(inbox[m]) : next' = [next EXCEPT ![m] = i]
        BY <2>2, MemberTypes DEF RowsStay, Inv, TypeOK
    <2> QED BY <2>1, <2>2
<1>3. /\ held' \in [Member -> 0..Last'] /\ tomb' \in [Member -> Tombstone \cup {None}]
      /\ \A n \in Member \ {m} : UNCHANGED <<held[n], tomb[n]>>
    BY <1>1 DEF Put, Lawful, Inv, TypeOK
<1>4. TypeOK'
    BY <1>1, <1>2, <1>3 DEF owner, Inv, TypeOK
<1>5. /\ MemberBooks(m)'
      /\ Stays(m) => (ToldOf(m, Last) => ToldOf(m, Last)')
    <2>1. Last \in Nat
        BY LastType
    <2>2. CASE RowDone(m, d)
        BY <1>1, <2>1, <2>2, RowDoneBooks DEF ToldOf, Queued, Mark
    <2>3. CASE RowsStay(m)
        BY <1>1, <2>1, <2>3, RowsStayBooks DEF ToldOf, Queued, Mark
    <2> QED BY <2>2, <2>3
<1>6. \A n \in Member : MemberBooks(n)'
    BY <1>1, <1>2, <1>3, <1>5, BooksStand DEF Inv
<1>7. \A n \in Member : Follower(n)' =>
          Follower(n) /\ (ToldOf(n, Last) => ToldOf(n, Last)')
    <2>1. \A n \in Member \ {m} : Follower(n)' =>
              Follower(n) /\ (ToldOf(n, Last) => ToldOf(n, Last)')
        BY <1>1, <1>2, <1>3 DEF Follower, Blocked, ToldOf, Queued, Mark
    <2>2. Follower(m)' => Stays(m)
        BY <1>1, DiskMoves DEF Follower, Stays
    <2> QED BY <1>5, <2>1, <2>2 DEF Stays
<1>8. OwnerBooks' /\ ChainBooks'
    BY <1>1, <1>7, OwnerStands, ChainStands DEF Inv
<1> QED BY <1>4, <1>6, <1>8 DEF Inv

-----------------------------------------------------------------------------
(* Each action of a member is such a step.                                    *)
LEMMA AtRest ==
    ASSUME Inv, NEW m \in Member, UNCHANGED <<held, tomb>>
    PROVE  /\ Put(m, Disk(held[m], tomb[m]))
           /\ Lawful(m, Disk(held[m], tomb[m]))
BY RestLawful, DiskFields DEF Put, Inv, TypeOK

LEMMA RowsAtRest ==
    ASSUME Inv, NEW m \in Member, UNCHANGED inbox,
           next' = next \/ next' = [next EXCEPT ![m] = 0]
    PROVE  RowsStay(m) /\ \E i \in 0..Len(inbox[m]) : next' = [next EXCEPT ![m] = i]
<1>1. PassedOver(m) /\ next[m] \in 0..Len(inbox[m]) /\ Len(inbox[m]) \in Nat
    BY MemberTypes DEF Inv, MemberBooks
<1>2. next' = [next EXCEPT ![m] = next[m]] \/ next' = [next EXCEPT ![m] = 0]
    BY DEF Inv, TypeOK
<1>3. next'[m] \in {0, next[m]}
    BY <1>2 DEF Inv, TypeOK
<1> QED BY <1>1, <1>2, <1>3 DEF RowsStay, PassedOver

LEMMA ApplyGroupInviteKeeps ==
    ASSUME Inv, NEW m \in Member, ApplyGroupInvite(m)
    PROVE  Inv' /\ \E d : Lawful(m, d) /\ Put(m, d)
<1> DEFINE d == Taken(m, InviteWrites(m))
<1>1. Lawful(m, d) /\ Put(m, d)
    BY InviteDone, WritePuts DEF ApplyGroupInvite
<1>2. RowDone(m, d)
    BY InviteDone DEF ApplyGroupInvite, RowDone, Stays
<1>3. /\ UNCHANGED <<owner, missed, leaves, leaving>>
      /\ pend' \in [Member -> SUBSET Frame]
    BY DEF ApplyGroupInvite, Inv, TypeOK
<1> HIDE DEF d
<1>4. Inv'
    BY <1>1, <1>2, <1>3, MemberStep DEF Inv, TypeOK
<1> QED BY <1>1, <1>4

LEMMA DropGroupInviteKeeps ==
    ASSUME Inv, NEW m \in Member, DropGroupInvite(m)
    PROVE  Inv' /\ \E d : Lawful(m, d) /\ Put(m, d)
<1> DEFINE d == Disk(held[m], tomb[m])
<1>1. Lawful(m, d) /\ Put(m, d)
    BY AtRest DEF DropGroupInvite, local
<1>2. missed \subseteq missed' /\ missed' \subseteq Member /\ ~Stays(m)
    BY DEF DropGroupInvite, Stays, Inv, TypeOK
<1>3. RowDone(m, d)
    BY <1>2 DEF DropGroupInvite, RowDone
<1>4. UNCHANGED <<owner, leaves, leaving, pend>>
    BY DEF DropGroupInvite, local
<1> HIDE DEF d
<1>5. Inv'
    BY <1>1, <1>2, <1>3, <1>4, MemberStep DEF Inv, TypeOK
<1> QED BY <1>1, <1>5

LEMMA ApplyGroupRemoveKeeps ==
    ASSUME Inv, NEW m \in Member, ApplyGroupRemove(m)
    PROVE  Inv' /\ \E d : Lawful(m, d) /\ Put(m, d)
<1> DEFINE d == Taken(m, RemoveWrites(m))
<1>1. Lawful(m, d) /\ Put(m, d)
    BY RemoveDone, WritePuts DEF ApplyGroupRemove
<1>2. RowDone(m, d)
    BY RemoveDone DEF ApplyGroupRemove, RowDone, Stays
<1>3. UNCHANGED <<owner, missed, leaves, leaving, pend>>
    BY DEF ApplyGroupRemove
<1> HIDE DEF d
<1>4. Inv'
    BY <1>1, <1>2, <1>3, MemberStep DEF Inv, TypeOK
<1> QED BY <1>1, <1>4

LEMMA ApplyGroupMessageKeeps ==
    ASSUME Inv, NEW m \in Member, ApplyGroupMessage(m)
    PROVE  Inv' /\ \E d : Lawful(m, d) /\ Put(m, d)
<1> DEFINE d == Disk(held[m], tomb[m])
           f == [from |-> RowAt(m).from, rev |-> RowAt(m).rev]
<1>1. Lawful(m, d) /\ Put(m, d)
    BY AtRest DEF ApplyGroupMessage
<1>2. /\ UNCHANGED <<owner, missed, leaves, leaving>>
      /\ RowKind(m) = "frame" /\ RowAt(m).kind = "frame"
    BY RowFacts DEF ApplyGroupMessage
<1>3. f \in Frame
    BY <1>2, RowFacts DEF Row, Frame
<1> HIDE DEF d
<1>4. CASE Verdict(held[m], f) = "defer"
    <2>1. /\ inbox' = inbox /\ next' = [next EXCEPT ![m] = @ + 1]
          /\ pend' = [pend EXCEPT ![m] = @ \cup {f}]
        BY <1>4 DEF ApplyGroupMessage
    <2>2. next[m] \in Nat /\ next[m] + 1 \in 1..Len(inbox[m]) /\ Len(inbox[m]) \in Nat
        BY <1>2, RowFacts, MemberTypes
    <2>3. next'[m] = next[m] + 1 /\ next' = [next EXCEPT ![m] = next[m] + 1]
        BY <2>1 DEF Inv, TypeOK
    <2>4. \A i \in 1..next[m] + 1 : inbox[m][i].kind = "frame"
        BY <1>2, <2>2 DEF Inv, MemberBooks, PassedOver, RowAt
    <2>5. RowsStay(m) /\ \E i \in 0..Len(inbox[m]) : next' = [next EXCEPT ![m] = i]
        <3>1. next'[m] \in Nat /\ \A i \in 1..next'[m] : inbox[m][i].kind = "frame"
            BY <2>2, <2>3, <2>4
        <3>2. next[m] + 1 \in 0..Len(inbox[m])
            BY <2>2
        <3> QED BY <2>1, <2>3, <3>1, <3>2 DEF RowsStay
    <2>6. pend' \in [Member -> SUBSET Frame]
        BY <1>3, <2>1 DEF Inv, TypeOK
    <2> QED BY <1>1, <1>2, <2>5, <2>6, MemberStep DEF Inv, TypeOK
<1>5. CASE Verdict(held[m], f) # "defer"
    <2>1. Ack(m) /\ UNCHANGED <<pend, next>>
        BY <1>5 DEF ApplyGroupMessage
    <2>2. RowDone(m, d)
        BY <1>2, <2>1 DEF RowDone
    <2> QED BY <1>1, <1>2, <2>1, <2>2, MemberStep DEF Inv, TypeOK
<1> QED BY <1>1, <1>4, <1>5

LEMMA LeaveGroupKeeps ==
    ASSUME Inv, NEW m \in Member, LeaveGroup(m)
    PROVE  Inv' /\ \E d : Lawful(m, d) /\ Put(m, d)
<1> DEFINE d == Disk(held[m], tomb[m])
           l == [from |-> m, rev |-> held[m]]
<1>1. Lawful(m, d) /\ Put(m, d)
    BY AtRest DEF LeaveGroup, local
<1>2. /\ UNCHANGED <<owner, missed, pend, inbox, next>>
      /\ leaving' \in [Member -> BOOLEAN]
    BY DEF LeaveGroup, local, Inv, TypeOK
<1>3. leaves' \in Seq([from : Member, rev : Rev])
    <2>1. held[m] \in Rev
        BY MemberTypes, LastType DEF LeaveGroup, Rev
    <2>2. l \in [from : Member, rev : Rev]
        BY <2>1
    <2>3. leaves' = Append(leaves, l) /\ leaves \in Seq([from : Member, rev : Rev])
        BY DEF LeaveGroup, Inv, TypeOK
    <2> HIDE DEF l
    <2> QED BY <2>2, <2>3, AppendProperties
<1> HIDE DEF d
<1>4. Inv'
    BY <1>1, <1>2, <1>3, RowsAtRest, MemberStep DEF Inv, TypeOK
<1> QED BY <1>1, <1>4

LEMMA DeleteGroupKeeps ==
    ASSUME Inv, NEW m \in Member, DeleteGroup(m)
    PROVE  Inv' /\ \E d : Lawful(m, d) /\ Put(m, d)
<1> DEFINE d == Taken(m, LeaveWrites(m))
<1>1. Lawful(m, d) /\ Put(m, d)
    BY LeaveDone, WritePuts DEF DeleteGroup
<1>2. /\ UNCHANGED <<owner, missed, leaves, pend, inbox, next>>
      /\ leaving' \in [Member -> BOOLEAN]
    BY DEF DeleteGroup, Inv, TypeOK
<1> HIDE DEF d
<1>3. Inv'
    BY <1>1, <1>2, RowsAtRest, MemberStep DEF Inv, TypeOK
<1> QED BY <1>1, <1>3

LEMMA ReconnectKeeps ==
    ASSUME Inv, NEW m \in Member, Reconnect(m)
    PROVE  Inv' /\ \E d : Lawful(m, d) /\ Put(m, d)
<1> DEFINE d == Disk(held[m], tomb[m])
<1>1. Lawful(m, d) /\ Put(m, d)
    BY AtRest DEF Reconnect, local
<1>2. /\ UNCHANGED <<owner, missed, leaves, leaving, pend, inbox>>
      /\ next' = [next EXCEPT ![m] = 0]
    BY DEF Reconnect, local
<1> HIDE DEF d
<1>3. Inv'
    BY <1>1, <1>2, RowsAtRest, MemberStep DEF Inv, TypeOK
<1> QED BY <1>1, <1>3

LEMMA RestartKeeps ==
    ASSUME Inv, NEW m \in Member, Restart(m)
    PROVE  Inv' /\ \E d : Lawful(m, d) /\ Put(m, d)
<1>1. PICK c \in Cut(m) : Put(m, Recover(c))
    BY DEF Restart
<1> DEFINE d == Recover(c)
<1>2. Lawful(m, d) /\ Put(m, d)
    BY <1>1, CutLawful
<1>3. /\ UNCHANGED <<owner, missed, leaves, inbox>>
      /\ next' = [next EXCEPT ![m] = 0]
      /\ pend' \in [Member -> SUBSET Frame] /\ leaving' \in [Member -> BOOLEAN]
    BY DEF Restart, Inv, TypeOK
<1> HIDE DEF d
<1>4. Inv'
    BY <1>2, <1>3, RowsAtRest, MemberStep DEF Inv, TypeOK
<1> QED BY <1>2, <1>4

(* A message to the other members of the state the sender holds.              *)
LEMMA SendGroupMessageKeeps ==
    ASSUME Inv, NEW m \in Member, SendGroupMessage(m)
    PROVE  Inv'
<1> DEFINE row == [kind |-> "frame", from |-> m, rev |-> held[m]]
<1>1. UNCHANGED <<owner, leaves, held, tomb, pend, next, leaving, missed, Last>>
    BY DEF SendGroupMessage, local, owner, Last
<1>2. row \in Row /\ \A n : TrueRow(n, row)
    <2>1. held[m] \in 1..Last /\ held[m] \in Rev
        BY MemberTypes, LastType DEF SendGroupMessage, Rev
    <2> QED BY <2>1 DEF Row, TrueRow
<1>3. \A n \in Member : inbox'[n] = inbox[n] \/ inbox'[n] = Append(inbox[n], row)
    BY DEF SendGroupMessage
<1>4. inbox' = [n \in Member |-> inbox'[n]]
    BY DEF SendGroupMessage
<1> HIDE DEF row
<1>5. ASSUME NEW n \in Member
      PROVE  inbox'[n] \in Seq(Row) /\ Len(inbox'[n]) >= Len(inbox[n])
    <2>1. inbox[n] \in Seq(Row) /\ Len(inbox[n]) \in Nat
        BY MemberTypes
    <2>2. Append(inbox[n], row) \in Seq(Row) /\ Len(Append(inbox[n], row)) = Len(inbox[n]) + 1
        BY <1>2, <2>1, AppendProperties
    <2>3. CASE inbox'[n] = inbox[n]
        BY <2>1, <2>3
    <2>4. CASE inbox'[n] = Append(inbox[n], row)
        <3> DEFINE s == Append(inbox[n], row)
        <3>1. inbox'[n] = s /\ s \in Seq(Row) /\ Len(s) = Len(inbox[n]) + 1
            BY <2>2, <2>4
        <3> HIDE DEF s
        <3> QED BY <2>1, <3>1
    <2> QED BY <1>3, <2>3, <2>4
<1>6. inbox' \in [Member -> Seq(Row)]
    BY <1>4, <1>5
<1>7. \A n \in Member : next'[n] <= Len(inbox'[n])
    BY <1>1, <1>5, MemberTypes, LenProperties
<1>8. TypeOK'
    BY <1>1, <1>6, <1>7 DEF owner, Inv, TypeOK, Last
<1>9. \A n \in Member :
        /\ MemberBooks(n)'
        /\ Follower(n)' => Follower(n)
        /\ ToldOf(n, Last) => ToldOf(n, Last)'
    <2> SUFFICES ASSUME NEW n \in Member
                 PROVE  /\ MemberBooks(n)'
                        /\ Follower(n)' => Follower(n)
                        /\ ToldOf(n, Last) => ToldOf(n, Last)'
        OBVIOUS
    <2>1. /\ MemberBooks(n)'
          /\ \A r : ToldOf(n, r) => ToldOf(n, r)'
          /\ Follower(n)' => Follower(n)
        BY <1>1, <1>2, <1>3, RowsAdded DEF owner
    <2> QED BY <1>1, <2>1 DEF ToldOf, Queued, Mark
<1>10. OwnerBooks' /\ ChainBooks'
    BY <1>1, <1>9, OwnerStands, ChainStands DEF Inv, owner
<1> QED BY <1>8, <1>9, <1>10 DEF Inv

LEMMA JobsAsTheyWere ==
    ASSUME Inv
    PROVE  /\ job \in [Job -> Task] /\ \A i \in Job : job[i].rev <= Last
           /\ \A i \in Job : /\ JobBooks(job[i])
                             /\ job[i].pc \in {"erase", "clear"} => barred
           /\ stored \in BOOLEAN /\ barred \in BOOLEAN
           /\ chain # <<>> /\ ~stored => barred
           /\ barred => chain # <<>> /\ chain[Last].over
           /\ leaves \in Seq([from : Member, rev : Rev])
BY DEF Inv, OwnerBooks, TypeOK

-----------------------------------------------------------------------------
(* The owner signs the next state of the chain.                               *)
LEMMA ChainGrows ==
    ASSUME Inv, NEW s \in State, chain' = Append(chain, s)
    PROVE  /\ chain' \in Seq(State) /\ Last' = Last + 1 /\ Last \in Nat
           /\ \A r \in 1..Last : chain'[r] = chain[r]
           /\ chain'[Last + 1] = s /\ chain' # <<>>
           /\ \A m : \A r \in 0..Last : In(m, r)' = In(m, r)
           /\ \A m : In(m, Last)' <=> m \in s.roster
           /\ \A m : Due(m)' \subseteq Due(m) \cup {Last + 1}
           /\ \A m : \A r \in 1..Last : r \in Due(m)' <=> r \in Due(m)
<1>1. chain \in Seq(State) /\ Last = Len(chain) /\ Last \in Nat
    BY LastType DEF Inv, TypeOK, Last
<1>2. /\ chain' \in Seq(State) /\ Len(chain') = Len(chain) + 1
      /\ \A r \in 1..Len(chain) : chain'[r] = chain[r]
      /\ chain'[Len(chain) + 1] = s /\ chain' # <<>>
    BY <1>1, AppendProperties
<1>3. Last' = Last + 1
    BY <1>1, <1>2 DEF Last
<1>4. /\ \A m : \A r \in 0..Last : In(m, r)' = In(m, r)
      /\ \A m : In(m, Last)' <=> m \in s.roster
    <2>1. 1..Last' = 1..Last + 1 /\ chain'[Last + 1].roster = s.roster
        BY <1>1, <1>2, <1>3
    <2>2. ASSUME NEW m, NEW r \in 0..Last PROVE In(m, r)' = In(m, r)
        <3>1. r \in 1..Last' <=> r \in 1..Last
            BY <1>1, <1>3
        <3> QED BY <1>1, <1>2, <3>1 DEF In
    <2>3. ASSUME NEW m PROVE In(m, Last)' <=> m \in s.roster
        BY <1>1, <1>2, <1>3 DEF In
    <2> QED BY <2>2, <2>3
<1>5. /\ \A m : Due(m)' \subseteq Due(m) \cup {Last + 1}
      /\ \A m : \A r \in 1..Last : r \in Due(m)' <=> r \in Due(m)
    BY <1>1, <1>3, <1>4 DEF Due
<1> QED BY <1>1, <1>2, <1>3, <1>4, <1>5

LEMMA CommitKeeps ==
    ASSUME Inv, NEW roster \in SUBSET Member, NEW over \in BOOLEAN,
           over => roster = {}, Last < MaxRev, Committable,
           Publish(Successor(roster, over)),
           leaves' \in Seq([from : Member, rev : Rev]),
           UNCHANGED <<barred, job, local, inbox, next, leaving, missed>>
    PROVE  Inv'
<1> DEFINE s == [roster |-> roster, over |-> over]
           d == Successor(roster, over)
<1>1. s \in State /\ chain' = Append(chain, s) /\ stored' = TRUE
    BY DEF State, Publish, Successor
<1>2. marker' = [rev |-> Last + 1, removed |-> Roster \ roster, del |-> over]
    BY DEF Publish, Successor, Marker
<1>3. UNCHANGED <<barred, job, held, tomb, pend, inbox, next, leaving, missed>>
    BY DEF local
<1>4. marker = None /\ (Last > 0 => stored /\ ~chain[Last].over)
    BY DEF Committable, Managed
<1> HIDE DEF s
<1>5. /\ chain' \in Seq(State) /\ Last' = Last + 1 /\ Last \in Nat
      /\ \A r \in 1..Last : chain'[r] = chain[r]
      /\ chain'[Last + 1] = s /\ chain' # <<>>
      /\ \A m : \A r \in 0..Last : In(m, r)' = In(m, r)
      /\ \A m : In(m, Last)' <=> m \in roster
      /\ \A m : Due(m)' \subseteq Due(m) \cup {Last + 1}
      /\ \A m : \A r \in 1..Last : r \in Due(m)' <=> r \in Due(m)
    BY <1>1, ChainGrows DEF s
<1>6. Roster \subseteq Member /\ \A m : m \in Roster <=> In(m, Last)
    <2>1. CASE chain = <<>>
        BY <2>1 DEF Roster, In, Last
    <2>2. CASE chain # <<>>
        <3>1. Last \in 1..Last
            BY <2>2, LenProperties DEF Inv, TypeOK, Last
        <3>2. chain[Last] \in State
            BY <3>1, ElementOfSeq DEF Inv, TypeOK, Last
        <3> QED BY <2>2, <3>1, <3>2 DEF Roster, In, State
    <2> QED BY <2>1, <2>2
<1>7. ~barred
    BY <1>4, <1>5, LenProperties DEF Inv, OwnerBooks, TypeOK, Last
<1>8. marker' # None
    BY <1>2, <1>5, <1>6, GroupAssumption
<1>9. TypeOK'
    <2>1. chain'[Last'].over = over /\ Last' <= MaxRev
        <3>1. chain'[Last'] = s /\ s.over = over
            BY <1>5 DEF s
        <3> QED BY <1>5, <3>1, LastType
    <2>2. marker' \in [rev : {Last'}, removed : SUBSET Member, del : {chain'[Last'].over}]
        BY <1>2, <1>5, <1>6, <2>1
    <2>3. job' \in [Job -> Task] /\ \A j \in Job : job'[j].rev <= Last'
        BY <1>3, <1>5 DEF Inv, TypeOK, Task
    <2>4. held' \in [Member -> 0..Last']
        BY <1>3, <1>5 DEF Inv, TypeOK
    <2> QED BY <1>1, <1>3, <1>5, <2>1, <2>2, <2>3, <2>4 DEF Inv, TypeOK
<1>10. ChainBooks'
    <2>1. \A r \in 1..Last' : chain'[r].over => r = Last'
        BY <1>4, <1>5 DEF Inv, ChainBooks
    <2>2. ASSUME NEW m \in Member, NEW a \in 1..Last', In(m, a)', ~In(m, Last)'
          PROVE  \E r \in a + 1..Last' : In(m, r - 1)' /\ ~In(m, r)'
        <3>1. a \in 1..Last /\ In(m, a)
            BY <1>5, <2>2
        <3>2. CASE In(m, Last)
            <4>1. PICK k \in 0..Last : k = Last
                BY <1>5
            <4>2. In(m, k)' /\ k + 1 = Last'
                BY <1>5, <3>2, <4>1
            <4>3. k + 1 \in a + 1..Last' /\ (k + 1) - 1 = k
                BY <1>5, <3>1, <4>1
            <4>4. ~In(m, k + 1)'
                BY <2>2, <4>2
            <4> QED BY <4>2, <4>3, <4>4
        <3>3. CASE ~In(m, Last)
            <4>1. PICK r \in a + 1..Last : In(m, r - 1) /\ ~In(m, r)
                BY <3>1, <3>3 DEF Inv, ChainBooks
            <4>2. r \in a + 1..Last' /\ r \in 0..Last /\ r - 1 \in 0..Last
                BY <1>5, <3>1
            <4> QED BY <1>5, <4>1, <4>2
        <3> QED BY <3>2, <3>3
    <2> QED BY <2>1, <2>2 DEF ChainBooks
<1>11. ASSUME NEW m \in Member PROVE MemberBooks(m)'
    <2>0. MemberBooks(m)
        BY DEF Inv
    <2>1. UNCHANGED <<Mark(m), Follower(m)>> /\ \A r : Queued(m, r)' = Queued(m, r)
        BY <1>3 DEF Mark, Follower, Blocked, Queued
    <2>2. \A x \in Row : TrueRow(m, x) => TrueRow(m, x)'
        <3> SUFFICES ASSUME NEW x \in Row, TrueRow(m, x) PROVE TrueRow(m, x)'
            OBVIOUS
        <3>1. x.rev \in 0..Last /\ x.rev - 1 \in 0..Last /\ x.rev <= Last'
            BY <1>5 DEF TrueRow, Row, Rev
        <3>2. In(m, x.rev)' = In(m, x.rev) /\ In(m, x.rev - 1)' = In(m, x.rev - 1)
            BY <1>5, <3>1
        <3> QED BY <3>1, <3>2 DEF TrueRow
    <2>3. TrueRows(m)'
        BY <1>3, <2>0, <2>2, MemberTypes DEF MemberBooks, TrueRows
    <2>4. PassedOver(m)'
        BY <1>3, <2>0 DEF MemberBooks, PassedOver
    <2>5. Standing(m)'
        BY <1>3, <1>5, <2>0, MemberTypes DEF MemberBooks, Standing
    <2>6. ASSUME Follower(m) PROVE InOrder(m)'
        <3>1. \A i \in 1..Len(inbox[m]) : inbox[m][i].rev <= Last /\ inbox[m][i].rev \in Nat
            <4>1. \A i \in 1..Len(inbox[m]) : inbox[m][i] \in Row
                BY MemberTypes
            <4>2. \A i \in 1..Len(inbox[m]) : inbox[m][i].rev <= Last
                BY <2>0 DEF MemberBooks, TrueRows, TrueRow
            <4> QED BY <4>1, <4>2 DEF Row, Rev
        <3>2. ASSUME NEW i \in 1..Len(inbox[m]), NEW r \in Due(m)',
                     Mark(m) < r, r < inbox[m][i].rev
              PROVE  Before(m, i, r)'
            <4>1. r \in Due(m)
                BY <1>5, <3>1, <3>2
            <4>2. Before(m, i, r)
                BY <2>0, <2>6, <3>2, <4>1 DEF MemberBooks, InOrder
            <4> QED BY <1>3, <4>2 DEF Before
        <3> QED BY <1>3, <2>1, <3>2 DEF InOrder
    <2>7. ASSUME Follower(m) PROVE Reached(m)'
        <3>1. \A r \in Due(m) : ToldOf(m, r)
            BY <1>4, <2>0, <2>7 DEF MemberBooks, Reached
        <3>2. \A r \in Due(m)' : ToldOf(m, r)' \/ r = Last'
            BY <1>5, <2>1, <3>1 DEF ToldOf
        <3> QED BY <1>3, <1>7, <1>8, <3>2 DEF Reached
    <2> QED BY <2>1, <2>3, <2>4, <2>5, <2>6, <2>7 DEF MemberBooks
<1>12. OwnerBooks'
    <2>1. ASSUME NEW j \in Job PROVE JobBooks(job[j])'
        <3>1. /\ JobBooks(job[j]) /\ job[j] \in Task /\ job[j].rev <= Last
              /\ job'[j] = job[j]
            BY <1>3 DEF Inv, OwnerBooks, TypeOK
        <3> QED BY <1>3, <1>5, <3>1 DEF JobBooks, Task
    <2>2. \A m \in Member : m \in marker'.removed <=> ~In(m, Last)' /\ In(m, Last - 1)'
        <3>1. \A m \in Member : m \in Roster <=> In(m, Last - 1)'
            <4>1. PICK k \in 0..Last : k = Last
                BY <1>5
            <4>2. Last' - 1 = k
                BY <1>5, <4>1
            <4>3. \A m \in Member : In(m, k)' <=> In(m, Last - 1)'
                BY <4>2
            <4> QED BY <1>5, <1>6, <4>1, <4>3
        <3>2. \A m \in Member : m \in roster <=> In(m, Last)'
            BY <1>5
        <3> QED BY <1>2, <3>1, <3>2
    <2>3. \A j \in Job : job'[j].pc \in {"erase", "clear"} => barred'
        BY <1>3, JobsAsTheyWere
    <2> QED BY <1>1, <1>3, <1>5, <1>7, <2>1, <2>2, <2>3 DEF OwnerBooks
<1> QED BY <1>9, <1>10, <1>11, <1>12 DEF Inv

-----------------------------------------------------------------------------
(* A step of a delivery.  The owner's books or jobs change, nobody's rows do: *)
\* who may stop owing the last state has told everybody of it.
LEMMA BookStep ==
    ASSUME Inv,
           UNCHANGED <<chain, held, tomb, pend, inbox, next, leaving, missed>>,
           stored' \in BOOLEAN, barred' \in BOOLEAN, marker' \in {marker, None},
           leaves' \in Seq([from : Member, rev : Rev]),
           job' \in [Job -> Task], \A i \in Job : job'[i].rev <= Last,
           (barred' \/ marker' = None) /\ ~barred /\ marker # None =>
               \A n \in Member : Follower(n) /\ Last \in Due(n) => ToldOf(n, Last),
           chain # <<>> /\ ~stored' => barred',
           barred' => chain # <<>> /\ chain[Last].over,
           \A i \in Job : /\ JobBooks(job'[i])
                          /\ job'[i].pc \in {"erase", "clear"} => barred'
    PROVE  Inv'
<1>1. Last' = Last /\ Last \in Nat /\ \A m, r : In(m, r)' = In(m, r)
    BY LastType DEF Last, In
<1>2. \A m : UNCHANGED <<Due(m), Mark(m), Follower(m)>>
    BY <1>1 DEF Due, Mark, Follower, Blocked, In, Last
<1>3. \A m, r : ToldOf(m, r)' = ToldOf(m, r)
    BY <1>2 DEF ToldOf, Queued, Mark
<1>4. TypeOK'
    BY <1>1 DEF Inv, TypeOK, Last
<1>5. ChainBooks'
    BY ChainStands DEF Inv
<1>6. ASSUME NEW m \in Member PROVE MemberBooks(m)'
    <2>1. MemberBooks(m)
        BY DEF Inv
    <2>2. TrueRows(m)' /\ PassedOver(m)' /\ Standing(m)'
        BY <1>1, <2>1 DEF MemberBooks, TrueRows, TrueRow, PassedOver, Standing
    <2>3. InOrder(m) => InOrder(m)'
        BY <1>2 DEF InOrder, Before
    <2>4. ASSUME Follower(m), Reached(m) PROVE Reached(m)'
        <3>1. ASSUME NEW r \in Due(m)
              PROVE  ToldOf(m, r) \/ (r = Last /\ marker' # None /\ ~barred')
            BY <2>4, <3>1 DEF Reached
        <3> QED BY <1>1, <1>2, <1>3, <3>1 DEF Reached
    <2> QED BY <1>2, <2>1, <2>2, <2>3, <2>4 DEF MemberBooks
<1>7. OwnerBooks'
    <2>1. \A i \in Job : JobBooks(job[i])'
        BY <1>1, <1>2, <1>3 DEF JobBooks
    <2>2. marker' # None =>
             /\ chain # <<>>
             /\ \A m \in Member : m \in marker'.removed
                    <=> ~In(m, Last)' /\ In(m, Last - 1)'
        BY <1>1 DEF Inv, OwnerBooks, In, Last
    <2> QED BY <1>1, <2>1, <2>2 DEF OwnerBooks
<1> QED BY <1>4, <1>5, <1>6, <1>7 DEF Inv

(* Rows are sent.                                                             *)
LEMMA SendStep ==
    ASSUME Inv,
           UNCHANGED <<chain, stored, barred, marker, leaves, held, tomb, pend,
                       next, leaving>>,
           missed \subseteq missed', missed' \subseteq Member,
           inbox' \in [Member -> Seq(Row)],
           \A n \in Member :
              \/ inbox'[n] = inbox[n]
              \/ \E row \in Row : TrueRow(n, row) /\ inbox'[n] = Append(inbox[n], row),
           job' \in [Job -> Task], \A i \in Job : job'[i].rev <= Last,
           \A i \in Job : /\ JobBooks(job'[i]) \/ JobBooks(job[i])'
                          /\ job'[i].pc \in {"erase", "clear"} => barred
    PROVE  Inv'
<1>1. Last' = Last /\ Last \in Nat /\ \A m, r : In(m, r)' = In(m, r)
    BY LastType DEF Last, In
<1>2. \A m : UNCHANGED <<Due(m), Mark(m)>>
    BY <1>1 DEF Due, Mark, In, Last
<1>3. ASSUME NEW n \in Member
      PROVE  /\ MemberBooks(n)'
             /\ \A r : ToldOf(n, r) => ToldOf(n, r)'
             /\ Follower(n)' => Follower(n)
             /\ next'[n] <= Len(inbox'[n])
    <2>1. /\ MemberBooks(n)'
          /\ \A r : ToldOf(n, r) => ToldOf(n, r)'
          /\ Follower(n)' => Follower(n)
        BY RowsAdded
    <2>2. Len(inbox'[n]) \in Nat /\ Len(inbox'[n]) >= Len(inbox[n])
        <3>1. inbox[n] \in Seq(Row) /\ Len(inbox[n]) \in Nat
            BY MemberTypes
        <3>2. CASE inbox'[n] = inbox[n]
            BY <3>1, <3>2
        <3>3. ASSUME NEW row \in Row, inbox'[n] = Append(inbox[n], row)
              PROVE  Len(inbox'[n]) = Len(inbox[n]) + 1
            BY <3>1, <3>3, AppendProperties
        <3> QED BY <3>1, <3>2, <3>3
    <2>3. next'[n] = next[n] /\ next[n] \in 0..Len(inbox[n]) /\ Len(inbox[n]) \in Nat
        BY MemberTypes
    <2> QED BY <2>1, <2>2, <2>3
<1>4. TypeOK'
    BY <1>1, <1>3 DEF Inv, TypeOK, Last
<1>5. OwnerBooks'
    <2>1. \A i \in Job : JobBooks(job[i])'
        <3>1. ASSUME NEW x, JobBooks(x) PROVE JobBooks(x)'
            BY <1>1, <1>2, <1>3, <3>1 DEF JobBooks, ToldOf, Queued, Mark
        <3> QED BY <3>1 DEF JobBooks
    <2>2. marker' # None =>
             /\ chain # <<>>
             /\ \A m \in Member : m \in marker'.removed
                    <=> ~In(m, Last)' /\ In(m, Last - 1)'
        BY <1>1 DEF Inv, OwnerBooks, In, Last
    <2> QED BY <1>1, <2>1, <2>2 DEF Inv, OwnerBooks
<1> QED BY <1>3, <1>4, <1>5, ChainStands DEF Inv

-----------------------------------------------------------------------------
(* Each action of the owner is one of these.                                  *)
LEMMA RosterIn ==
    ASSUME Inv
    PROVE  /\ Roster \subseteq Member /\ \A m : m \in Roster <=> In(m, Last)
           /\ chain # <<>> => chain[Last] \in State /\ Last \in Nat \ {0}
<1>1. chain \in Seq(State) /\ Last = Len(chain) /\ Last \in Nat
    BY LastType DEF Inv, TypeOK, Last
<1>2. CASE chain = <<>>
    BY <1>1, <1>2 DEF Roster, In
<1>3. CASE chain # <<>>
    <2>1. Last \in 1..Last
        BY <1>1, <1>3, EmptySeq
    <2>2. chain[Last] \in State
        BY <1>1, <2>1, ElementOfSeq
    <2> QED BY <1>3, <2>1, <2>2 DEF Roster, In, State
<1> QED BY <1>2, <1>3

LEMMA CommitsKeep ==
    ASSUME Inv, Create \/ AddMember \/ RemoveMember \/ Rename \/ Dissolve
    PROVE  Inv' /\ UNCHANGED <<held, tomb>>
<1>1. \E roster \in SUBSET Member, over \in BOOLEAN :
          (over => roster = {}) /\ Commit(roster, over)
    <2>1. Roster \subseteq Member
        BY RosterIn
    <2>2. CASE Create
        BY <2>2 DEF Create
    <2>3. CASE AddMember
        BY <2>1, <2>3 DEF AddMember
    <2>4. CASE RemoveMember
        BY <2>1, <2>4 DEF RemoveMember
    <2>5. CASE Rename
        BY <2>1, <2>5 DEF Rename
    <2>6. CASE Dissolve
        BY <2>6 DEF Dissolve
    <2> QED BY <2>2, <2>3, <2>4, <2>5, <2>6
<1>2. PICK roster \in SUBSET Member, over \in BOOLEAN :
          (over => roster = {}) /\ Commit(roster, over)
    BY <1>1
<1>3. leaves' \in Seq([from : Member, rev : Rev])
    BY <1>2 DEF Commit, Inv, TypeOK
<1>4. Inv'
    BY <1>2, <1>3, CommitKeeps DEF Commit
<1> QED BY <1>2, <1>4 DEF Commit, local

LEMMA ApplyGroupLeaveKeeps ==
    ASSUME Inv, ApplyGroupLeave
    PROVE  Inv' /\ UNCHANGED <<held, tomb>>
<1> DEFINE l == Head(leaves)
           applies == l.rev = Last /\ l.from \in Roster /\ Committable
<1>1. leaves' \in Seq([from : Member, rev : Rev])
    BY HeadTailProperties DEF ApplyGroupLeave, Inv, TypeOK
<1>2. UNCHANGED <<barred, job, local, inbox, next, leaving, missed, held, tomb, pend>>
    BY DEF ApplyGroupLeave, local
<1>3. CASE applies
    <2>1. Last < MaxRev /\ Committable /\ Publish(Successor(Roster \ {l.from}, FALSE))
        BY <1>3 DEF ApplyGroupLeave
    <2>2. Roster \ {l.from} \in SUBSET Member
        BY RosterIn
    <2> HIDE DEF l
    <2>3. Inv'
        BY <1>1, <1>2, <2>1, <2>2, CommitKeeps
    <2> QED BY <1>2, <2>3
<1>4. CASE ~applies
    <2>1. UNCHANGED <<chain, stored, marker>>
        BY <1>4 DEF ApplyGroupLeave
    <2>2. Inv'
        BY <1>1, <1>2, <2>1, JobsAsTheyWere, BookStep
    <2> QED BY <1>2, <2>2
<1> QED BY <1>3, <1>4

LEMMA IdleBooks == Idle \in Task /\ Idle.rev = 0 /\ Idle.pc = "idle" /\ JobBooks(Idle)
BY DEF Idle, Task, JobBooks

LEMMA OwnerRestartKeeps ==
    ASSUME Inv, OwnerRestart
    PROVE  Inv' /\ UNCHANGED <<held, tomb>>
<1>1. UNCHANGED <<chain, barred, marker, leaves, held, tomb, pend, inbox, next,
                  leaving, missed>>
    BY DEF OwnerRestart, local
<1>2. /\ job' \in [Job -> Task]
      /\ \A i \in Job : job'[i] = Idle
      /\ stored' = (stored /\ ~barred)
    BY IdleBooks DEF OwnerRestart
<1>3. \A i \in Job : /\ job'[i].rev <= Last
                     /\ JobBooks(job'[i])
                     /\ job'[i].pc \in {"erase", "clear"} => barred'
    BY <1>2, IdleBooks, LastType
<1>4. Inv'
    BY <1>1, <1>2, <1>3, JobsAsTheyWere, BookStep
<1> QED BY <1>1, <1>4

\* What a dispatcher takes up, and what it has not yet sent.
LEMMA DispatchKeeps ==
    ASSUME Inv, NEW j \in Job, Dispatch(j)
    PROVE  Inv' /\ UNCHANGED <<held, tomb>>
<1>1. UNCHANGED <<chain, stored, barred, leaves, held, tomb, pend, inbox, next,
                  leaving, missed>>
    BY DEF Dispatch, local
<1>2. /\ marker # None /\ chain # <<>>
      /\ \A m \in Member : m \in marker.removed <=> ~In(m, Last) /\ In(m, Last - 1)
      /\ marker \in [rev : {Last}, removed : SUBSET Member, del : {chain[Last].over}]
    BY DEF Dispatch, Inv, TypeOK, OwnerBooks
<1>3. CASE stored
    <2> DEFINE x == [pc |-> "send", rev |-> marker.rev, todo |-> Roster,
                     out |-> marker.removed, del |-> marker.del]
    <2>1. job' = [job EXCEPT ![j] = x] /\ marker' = marker
        BY <1>3 DEF Dispatch
    <2>2. x \in Task /\ x.rev = Last
        BY <1>2, RosterIn, LastType DEF Task, State
    <2>3. JobBooks(x)
        <3>1. \A m \in Member : Last \in Due(m) => m \in Roster \cup marker.removed
            BY <1>2, RosterIn DEF Due
        <3>2. x.rev > 0 /\ x.del = chain[Last].over
            BY <1>2, <2>2, RosterIn
        <3>3. (\A m \in x.todo : In(m, x.rev)) /\ x.todo \cup x.out = Roster \cup marker.removed
            BY <2>2, RosterIn
        <3>4. \A m \in x.out : ~In(m, x.rev) /\ In(m, x.rev - 1)
            BY <1>2, <2>2
        <3> HIDE DEF x
        <3> QED BY <2>2, <3>1, <3>2, <3>3, <3>4 DEF JobBooks
    <2>4. x.pc \notin {"erase", "clear"}
        OBVIOUS
    <2> HIDE DEF x
    <2>5. /\ job' \in [Job -> Task]
          /\ \A i \in Job : job'[i] = job[i] \/ job'[i] = x
        BY <2>1, <2>2, JobsAsTheyWere
    <2>6. \A i \in Job : /\ job'[i].rev <= Last
                         /\ JobBooks(job'[i])
                         /\ job'[i].pc \in {"erase", "clear"} => barred
        BY <2>2, <2>3, <2>4, <2>5, JobsAsTheyWere, LastType
    <2>7. Inv'
        BY <1>1, <2>1, <2>5, <2>6, JobsAsTheyWere, BookStep
    <2> QED BY <1>1, <2>7
<1>4. CASE ~stored
    <2>1. job' = job /\ marker' = None /\ barred
        BY <1>2, <1>4, JobsAsTheyWere DEF Dispatch
    <2>2. Inv'
        BY <1>1, <2>1, JobsAsTheyWere, BookStep
    <2> QED BY <1>1, <2>2
<1> QED BY <1>3, <1>4

LEMMA SendFailsKeeps ==
    ASSUME Inv, NEW j \in Job, SendFails(j)
    PROVE  Inv' /\ UNCHANGED <<held, tomb>>
<1>1. UNCHANGED <<chain, stored, barred, marker, leaves, held, tomb, pend, inbox,
                  next, leaving, missed>>
    BY DEF SendFails, local
<1>2. job' = [job EXCEPT ![j] = Idle]
    BY DEF SendFails
<1>3. /\ job' \in [Job -> Task]
      /\ \A i \in Job : job'[i] = job[i] \/ job'[i] = Idle
    BY <1>2, IdleBooks, JobsAsTheyWere
<1>4. \A i \in Job : /\ job'[i].rev <= Last
                     /\ JobBooks(job'[i])
                     /\ job'[i].pc \in {"erase", "clear"} => barred
    BY <1>3, IdleBooks, JobsAsTheyWere, LastType
<1>5. Inv'
    BY <1>1, <1>3, <1>4, JobsAsTheyWere, BookStep
<1> QED BY <1>1, <1>5

(* A row is inserted, and the dispatcher no longer has to send it.            *)
LEMMA RowSent ==
    ASSUME Inv, NEW j \in Job, NEW m \in Member, NEW row \in Row, NEW x \in Task,
           TrueRow(m, row), RosterRow(row, x.rev), Insert(m, row),
           job' = [job EXCEPT ![j] = x], job[j].pc = "send",
           x.pc = "send", x.rev = job[j].rev, x.del = job[j].del,
           x.todo \subseteq job[j].todo, x.out \subseteq job[j].out,
           (job[j].todo \cup job[j].out) \ {m} \subseteq x.todo \cup x.out,
           UNCHANGED <<chain, stored, barred, marker, leaves, held, tomb, pend,
                       next, leaving, missed>>
    PROVE  Inv'
<1>1. /\ inbox[m] \in Seq(Row) /\ Len(inbox[m]) \in Nat
      /\ inbox \in [Member -> Seq(Row)]
      /\ inbox' = [inbox EXCEPT ![m] = Append(inbox[m], row)]
    BY MemberTypes DEF Insert, Inv, TypeOK
<1>2. /\ Append(inbox[m], row) \in Seq(Row)
      /\ Len(Append(inbox[m], row)) = Len(inbox[m]) + 1
      /\ Append(inbox[m], row)[Len(inbox[m]) + 1] = row
    BY <1>1, AppendProperties
<1>3. /\ inbox' \in [Member -> Seq(Row)]
      /\ inbox'[m] = Append(inbox[m], row)
      /\ \A n \in Member \ {m} : inbox'[n] = inbox[n]
    BY <1>1, <1>2
<1>4. \A n \in Member :
         \/ inbox'[n] = inbox[n]
         \/ \E r \in Row : TrueRow(n, r) /\ inbox'[n] = Append(inbox[n], r)
    BY <1>3
<1>5. Queued(m, x.rev)'
    BY <1>1, <1>2, <1>3 DEF Queued
<1>6. JobBooks(job[j]) /\ job[j] \in Task /\ job[j].rev <= Last
    BY JobsAsTheyWere
<1>7. \A n \in Member : /\ \A r : ToldOf(n, r) => ToldOf(n, r)'
                        /\ Follower(n)' => Follower(n)
    BY <1>4, RowsAdded
<1>8. Last' = Last /\ \A n, r : In(n, r)' = In(n, r)
    BY DEF Last, In
<1>9. JobBooks(x)'
    <2>1. /\ x.rev > 0 /\ (x.del => chain[x.rev].over)
          /\ \A n \in x.todo : In(n, x.rev)
          /\ \A n \in x.out : ~In(n, x.rev) /\ In(n, x.rev - 1)
        BY <1>6 DEF JobBooks
    <2>2. ASSUME NEW n \in Member \ (x.todo \cup x.out), x.rev = Last,
                 Follower(n)', Last \in Due(n)
          PROVE  ToldOf(n, x.rev)'
        <3>1. CASE n = m
            BY <1>5, <3>1 DEF ToldOf
        <3>2. CASE n # m
            BY <1>6, <1>7, <2>2, <3>2 DEF JobBooks
        <3> QED BY <3>1, <3>2
    <2>3. \A n : Due(n)' = Due(n)
        BY <1>8 DEF Due
    <2>4. \A n : x.rev = Last => (ToldOf(n, x.rev)' <=> ToldOf(n, Last)')
        BY <1>8 DEF ToldOf, Queued, Mark
    <2> QED BY <1>8, <2>1, <2>2, <2>3, <2>4 DEF JobBooks
<1>10. /\ job' \in [Job -> Task]
       /\ \A i \in Job : job'[i] = job[i] \/ (i = j /\ job'[i] = x)
    BY JobsAsTheyWere
<1>11. \A i \in Job : /\ job'[i].rev <= Last
                      /\ JobBooks(job'[i]) \/ JobBooks(job[i])'
                      /\ job'[i].pc \in {"erase", "clear"} => barred
    <2>1. \A i \in Job : job'[i] = x => JobBooks(job[i])'
        BY <1>9 DEF JobBooks
    <2> QED BY <1>6, <1>10, <2>1, JobsAsTheyWere
<1> QED BY <1>3, <1>4, <1>10, <1>11, SendStep DEF Inv, TypeOK

LEMMA SendInviteKeeps ==
    ASSUME Inv, NEW j \in Job, SendInvite(j)
    PROVE  Inv' /\ UNCHANGED <<held, tomb>>
<1>1. PICK m \in job[j].todo :
         /\ Insert(m, [kind |-> "invite", rev |-> job[j].rev])
         /\ job' = [job EXCEPT ![j].todo = @ \ {m}]
    BY DEF SendInvite
<1> DEFINE row == [kind |-> "invite", rev |-> job[j].rev]
           x == [job[j] EXCEPT !.todo = @ \ {m}]
<1>2. /\ job[j] \in Task /\ job[j].rev <= Last /\ job[j].pc = "send"
      /\ JobBooks(job[j])
    BY JobsAsTheyWere DEF SendInvite
<1>3. m \in Member /\ In(m, job[j].rev) /\ job[j].rev \in 1..Last
    BY <1>2 DEF JobBooks, In, Task
<1>4. row \in Row /\ TrueRow(m, row) /\ RosterRow(row, job[j].rev)
    BY <1>3, LastType DEF Row, Rev, TrueRow, RosterRow
<1>5. /\ x \in Task /\ x.pc = "send" /\ x.rev = job[j].rev /\ x.del = job[j].del
      /\ x.todo = job[j].todo \ {m} /\ x.out = job[j].out
    BY <1>2 DEF Task
<1>6. job' = [job EXCEPT ![j] = x]
    BY <1>1, JobsAsTheyWere
<1>7. UNCHANGED <<chain, stored, barred, marker, leaves, held, tomb, pend, next,
                  leaving, missed>>
    BY DEF SendInvite, local
<1> HIDE DEF x, row
<1>8. Inv'
    BY <1>1, <1>2, <1>3, <1>4, <1>5, <1>6, <1>7, RowSent DEF row
<1> QED BY <1>7, <1>8

\* Its removal proof is lost: it is no follower any more.
LEMMA ProofLost ==
    ASSUME Inv, NEW j \in Job, NEW m \in Member, NEW x \in Task,
           job' = [job EXCEPT ![j] = x], job[j].pc = "send",
           x.pc = "send", x.rev = job[j].rev, x.del = job[j].del,
           x.todo = job[j].todo, x.out = job[j].out \ {m},
           missed' = missed \cup {m}, inbox' = inbox,
           UNCHANGED <<chain, stored, barred, marker, leaves, held, tomb, pend,
                       next, leaving>>
    PROVE  Inv'
<1>1. /\ Last' = Last /\ \A n, r : In(n, r)' = In(n, r)
      /\ \A n : UNCHANGED <<Due(n), Mark(n)>>
    BY DEF Last, In, Due, Mark
<1>2. /\ ~Follower(m)' /\ \A n : Follower(n)' => Follower(n)
      /\ \A n, r : ToldOf(n, r)' = ToldOf(n, r)
    BY <1>1 DEF Follower, Blocked, ToldOf, Queued
<1>3. JobBooks(job[j]) /\ job[j].rev <= Last
    BY JobsAsTheyWere
<1>4. JobBooks(x)'
    BY <1>1, <1>2, <1>3 DEF JobBooks
<1>5. /\ job' \in [Job -> Task]
      /\ \A i \in Job : job'[i] = job[i] \/ (i = j /\ job'[i] = x)
    BY JobsAsTheyWere
<1>6. \A i \in Job : job'[i] = x => JobBooks(job[i])'
    BY <1>4 DEF JobBooks
<1>7. \A i \in Job : /\ job'[i].rev <= Last
                     /\ JobBooks(job'[i]) \/ JobBooks(job[i])'
                     /\ job'[i].pc \in {"erase", "clear"} => barred
    BY <1>3, <1>5, <1>6, JobsAsTheyWere
<1>8. missed' \subseteq Member /\ inbox' \in [Member -> Seq(Row)]
    BY DEF Inv, TypeOK
<1> QED BY <1>5, <1>7, <1>8, SendStep

LEMMA SendRemoveKeeps ==
    ASSUME Inv, NEW j \in Job, SendRemove(j)
    PROVE  Inv' /\ UNCHANGED <<held, tomb>>
<1>1. PICK m \in job[j].out :
         /\ job' = [job EXCEPT ![j].out = @ \ {m}]
         /\ \/ /\ Insert(m, [kind |-> "remove", rev |-> job[j].rev])
               /\ missed' = missed
            \/ /\ missed' = missed \cup {m}
               /\ inbox' = inbox
    BY DEF SendRemove
<1> DEFINE row == [kind |-> "remove", rev |-> job[j].rev]
           x == [job[j] EXCEPT !.out = @ \ {m}]
<1>2. /\ job[j] \in Task /\ job[j].rev <= Last /\ job[j].pc = "send"
      /\ JobBooks(job[j])
    BY JobsAsTheyWere DEF SendRemove
<1>3. /\ m \in Member /\ job[j].rev \in 1..Last
      /\ ~In(m, job[j].rev) /\ In(m, job[j].rev - 1)
    BY <1>2 DEF JobBooks, Task
<1>4. row \in Row /\ TrueRow(m, row) /\ RosterRow(row, job[j].rev)
    BY <1>3, LastType DEF Row, Rev, TrueRow, RosterRow
<1>5. /\ x \in Task /\ x.pc = "send" /\ x.rev = job[j].rev /\ x.del = job[j].del
      /\ x.todo = job[j].todo /\ x.out = job[j].out \ {m}
    BY <1>2 DEF Task
<1>6. job' = [job EXCEPT ![j] = x]
    BY <1>1, JobsAsTheyWere
<1>7. UNCHANGED <<chain, stored, barred, marker, leaves, held, tomb, pend, next,
                  leaving>>
    BY DEF SendRemove, local
<1> HIDE DEF x, row
<1>8. CASE Insert(m, row) /\ missed' = missed
    <2>1. Inv'
        BY <1>2, <1>3, <1>4, <1>5, <1>6, <1>7, <1>8, RowSent
    <2> QED BY <1>7, <2>1
<1>9. CASE missed' = missed \cup {m} /\ inbox' = inbox
    <2>1. Inv'
        BY <1>2, <1>3, <1>5, <1>6, <1>7, <1>9, ProofLost
    <2> QED BY <1>7, <2>1
<1> QED BY <1>1, <1>8, <1>9 DEF row

(* A delivery that has sent everything: barrier, erase, marker.               *)
LEMMA FinishStep ==
    ASSUME Inv, NEW j \in Job, NEW x \in Task, job' = [job EXCEPT ![j] = x],
           x = Idle \/ (JobBooks(x) /\ x.rev = job[j].rev),
           x.pc \in {"erase", "clear"} => barred',
           job[j].pc # "idle", job[j].pc = "send" => job[j].todo \cup job[j].out = {},
           UNCHANGED <<chain, leaves, held, tomb, pend, inbox, next, leaving, missed>>,
           stored' \in BOOLEAN, stored' # stored => barred,
           barred' = barred \/ (barred' = TRUE /\ job[j].pc = "send" /\ job[j].del),
           marker' = marker \/ Clear(j)
    PROVE  Inv'
<1>1. JobBooks(job[j]) /\ job[j] \in Task /\ job[j].rev <= Last /\ Last \in Nat
    BY JobsAsTheyWere, LastType
<1>2. job[j].rev \in 1..Last
    BY <1>1 DEF JobBooks, Task
<1>3. job[j].del => job[j].rev = Last /\ chain[Last].over
    BY <1>1, <1>2 DEF JobBooks, Inv, ChainBooks
<1>4. marker' \in {marker, None} /\ (marker' # marker => job[j].rev = Last)
    BY DEF Clear, Inv, TypeOK
<1>5. ~barred /\ job[j].rev = Last =>
          \A n \in Member : Follower(n) /\ Last \in Due(n) => ToldOf(n, Last)
    <2>1. ~barred => job[j].pc = "send"
        BY <1>1, JobsAsTheyWere DEF Task
    <2> QED BY <1>1, <2>1 DEF JobBooks
<1>6. chain # <<>>
    BY <1>2 DEF Last
<1>7. /\ job' \in [Job -> Task]
      /\ \A i \in Job : job'[i] = job[i] \/ job'[i] = x
      /\ x.rev <= Last /\ JobBooks(x)
    BY <1>1, IdleBooks, JobsAsTheyWere
<1>8. \A i \in Job : /\ job'[i].rev <= Last
                     /\ JobBooks(job'[i])
                     /\ job'[i].pc \in {"erase", "clear"} => barred'
    BY <1>7, JobsAsTheyWere
<1>9. (barred' \/ marker' = None) /\ ~barred /\ marker # None =>
          \A n \in Member : Follower(n) /\ Last \in Due(n) => ToldOf(n, Last)
    BY <1>3, <1>4, <1>5
<1>10. /\ ~stored' => barred'
       /\ barred' => chain # <<>> /\ chain[Last].over
    BY <1>3, <1>6, JobsAsTheyWere
<1>11. barred' \in BOOLEAN
    BY JobsAsTheyWere
<1> QED BY <1>4, <1>7, <1>8, <1>9, <1>10, <1>11, JobsAsTheyWere, BookStep

LEMMA FinishDispatchKeeps ==
    ASSUME Inv, NEW j \in Job, FinishDispatch(j)
    PROVE  Inv' /\ UNCHANGED <<held, tomb>>
<1>1. UNCHANGED <<chain, leaves, held, tomb, pend, inbox, next, leaving, missed>>
    BY DEF FinishDispatch, local
<1>2. /\ JobBooks(job[j]) /\ job[j] \in Task
      /\ job[j].pc \in {"erase", "clear"} => barred
      /\ stored \in BOOLEAN
    BY JobsAsTheyWere
<1>3. CASE /\ job[j].pc = "send" /\ job[j].todo = {} /\ job[j].out = {}
           /\ job[j].del
    <2> DEFINE x == [job[j] EXCEPT !.pc = "erase"]
    <2>1. /\ barred' = TRUE /\ marker' = marker /\ stored' = stored
          /\ job' = [job EXCEPT ![j] = x]
        BY <1>3, JobsAsTheyWere DEF FinishDispatch
    <2>2. x \in Task /\ JobBooks(x) /\ x.rev = job[j].rev
        BY <1>2, <1>3 DEF Task, JobBooks
    <2> HIDE DEF x
    <2>3. Inv'
        BY <1>1, <1>2, <1>3, <2>1, <2>2, FinishStep
    <2> QED BY <1>1, <2>3
<1>4. CASE /\ job[j].pc = "send" /\ job[j].todo = {} /\ job[j].out = {}
           /\ ~job[j].del
    <2>1. /\ Clear(j) /\ barred' = barred /\ stored' = stored
          /\ job' = [job EXCEPT ![j] = Idle]
        BY <1>4 DEF FinishDispatch
    <2>2. Inv'
        BY <1>1, <1>2, <1>4, <2>1, IdleBooks, FinishStep
    <2> QED BY <1>1, <2>2
<1>5. CASE job[j].pc = "erase"
    <2> DEFINE x == [job[j] EXCEPT !.pc = "clear"]
    <2>1. /\ stored' = FALSE /\ marker' = marker /\ barred' = barred
          /\ job' = [job EXCEPT ![j] = x]
        BY <1>5, JobsAsTheyWere DEF FinishDispatch
    <2>2. x \in Task /\ JobBooks(x) /\ x.rev = job[j].rev
        BY <1>2, <1>5 DEF Task, JobBooks
    <2> HIDE DEF x
    <2>3. Inv'
        BY <1>1, <1>2, <1>5, <2>1, <2>2, FinishStep
    <2> QED BY <1>1, <2>3
<1>6. CASE job[j].pc = "clear"
    <2>1. /\ Clear(j) /\ barred' = barred /\ stored' = stored
          /\ job' = [job EXCEPT ![j] = Idle]
        BY <1>6 DEF FinishDispatch
    <2>2. Inv'
        BY <1>1, <1>2, <1>6, <2>1, IdleBooks, FinishStep
    <2> QED BY <1>1, <2>2
<1> QED BY <1>3, <1>4, <1>5, <1>6 DEF FinishDispatch

-----------------------------------------------------------------------------
LEMMA InvInit == Init => Inv
<1> SUFFICES ASSUME Init PROVE Inv
    OBVIOUS
<1>1. Last = 0 /\ Len(chain) = 0 /\ MaxRev \in Nat
    BY GroupAssumption DEF Init, Last
<1>2. \A m \in Member : /\ held[m] = 0 /\ tomb[m] = None
                        /\ inbox[m] = <<>> /\ next[m] = 0 /\ Len(inbox[m]) = 0
    BY DEF Init
<1>3. TypeOK
    <2>1. chain \in Seq(State) /\ leaves \in Seq([from : Member, rev : Rev])
        BY EmptySeq DEF Init
    <2>2. inbox \in [Member -> Seq(Row)]
        BY EmptySeq DEF Init
    <2>3. job \in [Job -> Task] /\ \A j \in Job : job[j].rev <= Last
        BY <1>1, IdleBooks DEF Init
    <2>4. /\ held \in [Member -> 0..Last] /\ tomb \in [Member -> Tombstone \cup {None}]
          /\ next \in [Member -> Nat] /\ pend \in [Member -> SUBSET Frame]
          /\ leaving \in [Member -> BOOLEAN]
        BY <1>1 DEF Init
    <2>5. /\ \A m \in Member : next[m] <= Len(inbox[m])
          /\ {stored, barred} \subseteq BOOLEAN /\ missed \subseteq Member
          /\ marker = None /\ Last <= MaxRev
        <3>1. \A m \in Member : next[m] <= Len(inbox[m])
            BY <1>2
        <3>2. 0 <= MaxRev
            BY <1>1
        <3> QED BY <1>1, <3>1, <3>2 DEF Init
    <2> QED BY <2>1, <2>2, <2>3, <2>4, <2>5 DEF TypeOK
<1>4. ChainBooks
    BY <1>1 DEF ChainBooks
<1>5. OwnerBooks
    BY IdleBooks DEF Init, OwnerBooks, Idle
<1>6. \A m \in Member : MemberBooks(m)
    BY <1>1, <1>2 DEF MemberBooks, TrueRows, PassedOver, Standing, InOrder, Reached, Due
<1> QED BY <1>3, <1>4, <1>5, <1>6 DEF Inv

\* A step of the owner leaves every member's disk alone; one of a member moves
\* its disk lawfully.
LEMMA OwnerSteps ==
    ASSUME Inv, \/ Create \/ AddMember \/ RemoveMember \/ Rename \/ Dissolve
                \/ ApplyGroupLeave \/ OwnerRestart
                \/ \E j \in Job : Deliver(j) \/ SendFails(j)
    PROVE  Inv' /\ UNCHANGED <<held, tomb>>
<1>1. ASSUME NEW j \in Job, Deliver(j) \/ SendFails(j)
      PROVE  Inv' /\ UNCHANGED <<held, tomb>>
    BY <1>1, DispatchKeeps, SendInviteKeeps, SendRemoveKeeps, FinishDispatchKeeps,
       SendFailsKeeps DEF Deliver
<1> QED BY <1>1, CommitsKeep, ApplyGroupLeaveKeeps, OwnerRestartKeeps

LEMMA MemberSteps ==
    ASSUME Inv, NEW m \in Member,
           \/ ApplyGroupInvite(m) \/ DropGroupInvite(m)
           \/ ApplyGroupRemove(m) \/ ApplyGroupMessage(m)
           \/ Reconnect(m) \/ LeaveGroup(m) \/ DeleteGroup(m) \/ Restart(m)
    PROVE  Inv' /\ \E d : Lawful(m, d) /\ Put(m, d)
BY ApplyGroupInviteKeeps, DropGroupInviteKeeps, ApplyGroupRemoveKeeps, ApplyGroupMessageKeeps,
   ReconnectKeeps, LeaveGroupKeeps, DeleteGroupKeeps, RestartKeeps

LEMMA StutterKeeps == Inv /\ UNCHANGED vars => Inv'
<1> SUFFICES ASSUME Inv, UNCHANGED vars PROVE Inv'
    OBVIOUS
<1>1. UNCHANGED <<chain, stored, barred, marker, job, leaves, held, tomb, pend,
                  inbox, next, leaving, missed>>
    BY DEF vars, owner, local
<1> QED BY <1>1, JobsAsTheyWere, BookStep

LEMMA InvNext == Inv /\ [Next]_vars => Inv'
<1> SUFFICES ASSUME Inv, [Next]_vars PROVE Inv'
    OBVIOUS
<1>1. CASE UNCHANGED vars
    BY <1>1, StutterKeeps
<1>2. CASE \E m \in Member : SendGroupMessage(m)
    BY <1>2, SendGroupMessageKeeps
<1> QED BY <1>1, <1>2, OwnerSteps, MemberSteps DEF Next

(* The invariant holds in every reachable state, for any members, whatever    *)
(* dispatchers overlap, fail or are cut off and wherever a device dies.       *)
THEOREM GroupInvariant == Spec => []Inv
BY InvInit, InvNext, PTL DEF Spec

(* Every variable has its type; the marker is of the last state, and what a   *)
(* dispatcher delivers has been committed.                                    *)
THEOREM TypeCorrect == Spec => []TypeOK
<1>1. Inv => TypeOK
    BY DEF Inv
<1> QED BY <1>1, GroupInvariant, PTL

(* When no delivery is owed, every member of the roster has the last state or *)
(* has it in its inbox (or has left), and everybody else has no group or the  *)
(* proof of the removal in its inbox.                                         *)
THEOREM EverybodyIsTold == Spec => []Told
<1>1. ASSUME Inv, marker = None, NEW m \in Member \ missed
      PROVE  IF m \in Roster
             THEN \/ held[m] = Last \/ Blocked(m)
                  \/ InboxHas(m, [kind |-> "invite", rev |-> Last])
             ELSE \/ held[m] = 0
                  \/ \E r \in Rev : /\ r > held[m]
                                    /\ InboxHas(m, [kind |-> "remove", rev |-> r])
    <2>1. MemberBooks(m) /\ (m \in Roster <=> In(m, Last)) /\ Last \in Nat
        BY <1>1, RosterIn, LastType DEF Inv
    <2>2. CASE Blocked(m)
        BY <1>1, <2>2, MemberTypes DEF Blocked
    <2>3. CASE ~Blocked(m)
        <3>1. \A r \in Due(m) : ToldOf(m, r)
            BY <1>1, <2>1, <2>3 DEF MemberBooks, Reached, Follower
        \* A roster row of a state one is in is an invitation, the other ones
        \* are removals.
        <3>2. ASSUME NEW r \in Nat, Queued(m, r)
              PROVE  \/ In(m, r) /\ InboxHas(m, [kind |-> "invite", rev |-> r])
                     \/ ~In(m, r) /\ InboxHas(m, [kind |-> "remove", rev |-> r])
            <4>1. PICK i \in 1..Len(inbox[m]) : RosterRow(inbox[m][i], r)
                BY <3>2 DEF Queued
            <4>2. inbox[m][i] \in Row /\ TrueRow(m, inbox[m][i])
                BY <1>1, <2>1, MemberTypes DEF MemberBooks, TrueRows
            <4>3. \/ inbox[m][i] = [kind |-> "invite", rev |-> r] /\ In(m, r)
                  \/ inbox[m][i] = [kind |-> "remove", rev |-> r] /\ ~In(m, r)
                BY <4>1, <4>2 DEF Row, RosterRow, TrueRow
            <4> QED BY <4>3 DEF InboxHas
        <3>3. CASE m \in Roster
            <4>1. In(m, Last) /\ Last \in Due(m)
                BY <2>1, <3>3 DEF Due, In
            <4>2. CASE Last <= Mark(m)
                <5>1. Mark(m) = Last
                    BY <1>1, <2>1, <4>2, MemberTypes
                <5> QED BY <2>1, <2>3, <3>3, <4>1, <5>1
                        DEF MemberBooks, Standing, Mark, Blocked
            <4>3. CASE Queued(m, Last)
                BY <2>1, <3>2, <3>3, <4>1, <4>3
            <4> QED BY <3>1, <4>1, <4>2, <4>3 DEF ToldOf
        <3>4. CASE m \notin Roster /\ held[m] # 0
            <4>1. In(m, held[m]) /\ held[m] \in 1..Last /\ Mark(m) = held[m]
                BY <1>1, <2>1, <3>4, MemberTypes DEF MemberBooks, Standing, Mark
            <4>2. PICK r \in held[m] + 1..Last : In(m, r - 1) /\ ~In(m, r)
                BY <1>1, <2>1, <3>4, <4>1 DEF Inv, ChainBooks
            <4>3. r \in Due(m) /\ r \in Rev /\ r \in Nat /\ r > held[m]
                BY <1>1, <4>1, <4>2, LastType DEF Due, Rev
            <4>4. Queued(m, r)
                BY <3>1, <4>1, <4>3 DEF ToldOf
            <4> QED BY <3>2, <3>4, <4>2, <4>3, <4>4
        <3> QED BY <3>3, <3>4
    <2> QED BY <2>2, <2>3
<1>2. Inv => Told
    BY <1>1 DEF Told
<1> QED BY <1>2, GroupInvariant, PTL

(* A group message is never more than one revision ahead of the member that   *)
(* receives it.                                                               *)
THEOREM MessagesAreInStep == Spec => []InStep
<1>1. ASSUME Inv, NEW m \in Member \ missed, RowKind(m) = "frame", held[m] # 0
      PROVE  RowAt(m).rev <= held[m] + 1
    <2>1. Follower(m)
        BY <1>1, MemberTypes DEF Follower, Blocked
    <2> QED BY <1>1, <2>1, NextToHeld
<1>2. Inv => InStep
    BY <1>1 DEF InStep
<1> QED BY <1>2, GroupInvariant, PTL

(* Nobody is left out, and nobody is sent a message that it must drop.        *)
THEOREM MembersAreTold == Spec => []MembersTold
<1>1. Told /\ InStep => MembersTold
    BY DEF MembersTold
<1> QED BY <1>1, EverybodyIsTold, MessagesAreInStep, PTL

(* What a member stored or was removed at is never taken back, and who left   *)
(* stays out.                                                                 *)
THEOREM BarriersHold == Spec => BarrierHolds
<1> DEFINE Holds == \A m \in Member :
               /\ Mark(m)' >= Mark(m)
               /\ Blocked(m) => Blocked(m)' /\ (held[m] = 0 => held'[m] = 0)
<1>1. ASSUME Inv, UNCHANGED <<held, tomb>> PROVE Holds
    BY <1>1, MemberTypes, LastType DEF Mark, Blocked
<1>2. ASSUME Inv, Next, NEW m \in Member, NEW d, Lawful(m, d), Put(m, d)
      PROVE  Holds
    <2>1. /\ held'[m] = d.held /\ tomb'[m] = d.tomb
          /\ \A n \in Member \ {m} : UNCHANGED <<held[n], tomb[n]>>
        BY <1>2 DEF Put, Inv, TypeOK
    <2>2. \A n \in Member \ {m} :
             /\ Mark(n)' >= Mark(n)
             /\ Blocked(n) => Blocked(n)' /\ (held[n] = 0 => held'[n] = 0)
        BY <1>2, <2>1, MemberTypes, LastType DEF Mark, Blocked
    <2>3. /\ Mark(m)' >= Mark(m)
          /\ Blocked(m) => Blocked(m)' /\ (held[m] = 0 => held'[m] = 0)
        BY <1>2, <2>1 DEF Lawful, DiskMark, Mark, Blocked
    <2> QED BY <2>2, <2>3
<1>3. Inv /\ [Next]_vars => Holds
    <2> SUFFICES ASSUME Inv, [Next]_vars PROVE Holds
        OBVIOUS
    <2> HIDE DEF Holds
    <2>1. CASE UNCHANGED vars
        BY <1>1, <2>1 DEF vars, local
    <2>2. CASE \E m \in Member : SendGroupMessage(m)
        BY <1>1, <2>2 DEF SendGroupMessage, local
    <2>3. CASE \E m \in Member :
                  \/ ApplyGroupInvite(m) \/ DropGroupInvite(m)
           \/ ApplyGroupRemove(m) \/ ApplyGroupMessage(m)
                  \/ Reconnect(m) \/ LeaveGroup(m) \/ DeleteGroup(m) \/ Restart(m)
        BY <1>2, <2>3, MemberSteps DEF Next
    <2> QED BY <1>1, <2>1, <2>2, <2>3, OwnerSteps DEF Next
<1>4. Spec => [][Holds]_vars
    BY <1>3, GroupInvariant, PTL DEF Spec
<1> QED BY <1>4 DEF BarrierHolds
=============================================================================
