------------------------- MODULE DeviceList_proofs -------------------------
(* Machine-checked proofs about both ends of a link.  DeviceList, the        *)
(* primary's: for any devices and jobs, any mix of operations in them, and   *)
(* any bounds.  LinkInstall, the new device's: for any number of attempts,   *)
(* copies of grants, versions of the list and faults.                        *)
EXTENDS DeviceList, LinkInstall, TLAPS

(* What a job carries, by how far it is: a snapshot to commit against, with   *)
(* the grant it would take back; or the grant it delivers.                    *)
JobOK(x) ==
    x # Idle =>
        /\ x.op # "refresh" => x.dev \in Dev
        /\ x.pc = "commit" =>
              /\ x.snap \in List /\ x.op # "retry"
              /\ x.grant # None => x.op = "cancel" /\ x.grant.dev = x.dev
        /\ x.op \in {"link", "retry"} /\ x.pc \in {"publish", "send", "clear"}
              => x.grant \in Grant

JobBooks == \A j \in Job : JobOK(job[j])

(* The grants the primary may still deliver, and every list that is anywhere. *)
Carries(x, g) == x # Idle /\ x.grant = g
Owed     == {g \in Grant : g = pend \/ \E j \in Job : Carries(job[j], g)}
Versions == Known \cup {g.list : g \in Owed}

(* The primary's list is the newest, and its version tells a list.            *)
ListBooks ==
    /\ Versions \subseteq List
    /\ \A a \in Versions : a.ver <= list.ver
    /\ \A a, b \in Versions : a.ver = b.ver => a = b

(* A linking's number is new, and a receipt means that the relay has it.      *)
Receipted(x) ==
    x # Idle /\ x.op \in {"link", "retry"} /\ x.pc = "clear"
        => (auth[x.grant.dev] = x.grant.n => x.grant.dev \in told)

GrantBooks ==
    /\ \A g \in Owed : g.n <= links
    /\ \A j \in Job : Receipted(job[j])

(* The inductive invariant.                                                   *)
Inv == TypeOK /\ JobBooks /\ ListBooks /\ GrantBooks /\ NoGhost

-----------------------------------------------------------------------------
(* A step that makes no list, or one that is newer than all, keeps the books. *)
LEMMA ListsStand ==
    ASSUME ListBooks, list \in List, list' \in List,
           list' = list \/ list'.ver > list.ver,
           Versions' \subseteq Versions \cup {list'}
    PROVE  ListBooks'
<1>1. Versions' \subseteq List
    BY DEF ListBooks
<1>2. list \in Versions
    BY DEF Versions, Known
<1>3. \A a \in Versions : a.ver <= list'.ver /\ a.ver \in Nat
    BY DeviceAssumption DEF ListBooks, List
<1>4. \A a \in Versions' : a.ver <= list'.ver
    BY <1>3, DeviceAssumption DEF List
<1>5. ASSUME NEW a \in Versions', NEW b \in Versions', a.ver = b.ver
      PROVE  a = b
    <2>1. CASE list' = list
        BY <1>2, <1>5, <2>1 DEF ListBooks
    <2>2. CASE list'.ver > list.ver
        <3>1. \A x \in Versions : x.ver # list'.ver
            BY <2>2, DeviceAssumption DEF ListBooks, List
        <3> QED BY <1>5, <3>1 DEF ListBooks
    <2> QED BY <2>1, <2>2
<1> QED BY <1>1, <1>4, <1>5 DEF ListBooks

\* No two versions of one list, whoever carries them.
LEMMA ListsAgree == ListBooks => NoFork
BY DEF ListBooks, NoFork, Versions

\* A job whose step takes no new grant adds none to those owed.
LEMMA OwedStands ==
    ASSUME NEW j \in Job, NEW x, job \in [Job -> Task \cup {Idle}],
           job' = [job EXCEPT ![j] = x],
           x # Idle /\ x.grant \in Grant => x.grant \in Owed,
           pend' \in {pend, None}
    PROVE  Owed' \subseteq Owed
BY DeviceAssumption DEF Owed, Carries

-----------------------------------------------------------------------------
(* A step of one job that signs nothing: what it then carries is in order,    *)
(* and what it sends or adopts is a list that was there.                      *)
LEMMA JobStep ==
    ASSUME Inv, NEW j \in Job, NEW x \in Task \cup {Idle},
           job' = [job EXCEPT ![j] = x], JobOK(x),
           x # Idle /\ x.grant \in Grant => x.grant \in Owed,
           x # Idle /\ x.op \in {"link", "retry"} /\ x.pc = "clear"
               => (auth[x.grant.dev] = x.grant.n => x.grant.dev \in told'),
           list' = list, pend' \in {pend, None}, auth' = auth, links' = links,
           told \subseteq told', told' \subseteq Dev, reqs' \subseteq Dev,
           own' \in {own, list}, self' \in {self, list}, own'.ver >= own.ver,
           sent' \subseteq sent \cup {own, list} \cup {g.list : g \in Owed},
           UNCHANGED peer, NoGhost'
    PROVE  Inv'
<1>1. TypeOK'
    <2>1. job' \in [Job -> Task \cup {Idle}]
        BY DEF Inv, TypeOK
    <2>2. acked' \in 0..own'.ver
        BY DeviceAssumption DEF Inv, TypeOK, peer, List
    <2>3. sent' \subseteq List
        BY DEF Inv, TypeOK, Owed, Grant
    <2> QED BY <2>1, <2>2, <2>3 DEF Inv, TypeOK, peer
<1>2. Owed' \subseteq Owed
    BY OwedStands DEF Inv, TypeOK
<1>3. ListBooks'
    <2>1. Known' \subseteq Versions
        BY DEF Versions, Known, peer
    <2>2. Versions' \subseteq Versions
        BY <1>2, <2>1 DEF Versions
    <2> QED BY <2>2, ListsStand DEF Inv, TypeOK
<1>4. JobBooks'
    BY DEF Inv, JobBooks, JobOK, TypeOK
<1>5. GrantBooks'
    BY <1>2 DEF Inv, GrantBooks, Receipted, TypeOK
<1> QED BY <1>1, <1>3, <1>4, <1>5 DEF Inv

\* Jobs, database and grants as they were: nobody is forgotten.
LEMMA GhostsStay ==
    ASSUME NoGhost, list' = list, pend' = pend, auth' = auth, told \subseteq told'
    PROVE  NoGhost'
BY DEF NoGhost

\* What a job carries is owed, or nothing.
LEMMA CarriedOwed ==
    ASSUME NEW j \in Job, job[j] # Idle, job[j].grant \in Grant
    PROVE  job[j].grant \in Owed
BY DEF Owed, Carries

-----------------------------------------------------------------------------
\* An operation begins: the job carries nothing yet.
LEMMA StartKeeps ==
    ASSUME Inv, NEW j \in Job, NEW op \in Op, NEW d \in Dev \cup {None},
           op # "refresh" => d \in Dev, Start(j, op, d),
           UNCHANGED <<list, pend, reqs, sent, record, peer, faults>>,
           UNCHANGED <<own, self>> \/ EnsureSelf
    PROVE  Inv'
<1> DEFINE x == [op |-> op, pc |-> "read", dev |-> d, snap |-> None, grant |-> None]
<1>1. job' = [job EXCEPT ![j] = x]
    BY DEF Start
<1>2. x \in Task \cup {Idle} /\ JobOK(x) /\ x.grant \notin Grant /\ x.pc # "clear"
    BY DeviceAssumption DEF Task, PC, JobOK
<1>3. /\ own' \in {own, list} /\ self' \in {self, list}
      /\ own'.ver >= own.ver
    BY DeviceAssumption DEF EnsureSelf, Newer, Inv, TypeOK, List
<1>4. NoGhost'
    BY GhostsStay DEF Inv, record
<1> HIDE DEF x
<1> QED BY <1>1, <1>2, <1>3, <1>4, JobStep DEF Inv, TypeOK, record

LEMMA StartsKeep ==
    ASSUME Inv, NEW j \in Job,
           \/ \E d \in Dev : Link(j, d) \/ Remove(j, d) \/ Unlinked(j, d)
           \/ Retry(j) \/ Cancel(j) \/ Refresh(j)
    PROVE  Inv'
<1>1. CASE \E d \in Dev : Link(j, d)
    BY <1>1, StartKeeps DEF Link, disk, Op
<1>2. CASE \E d \in Dev : Remove(j, d)
    BY <1>2, StartKeeps DEF Remove, Op
<1>3. CASE \E d \in Dev : Unlinked(j, d)
    BY <1>3, StartKeeps DEF Unlinked, disk, Op
<1>4. CASE Retry(j)
    <2>1. pend.dev \in Dev
        BY <1>4 DEF Retry, Inv, TypeOK, Grant
    <2> QED BY <1>4, <2>1, StartKeeps DEF Retry, disk, Op
<1>5. CASE Cancel(j)
    <2>1. pend.dev \in Dev
        BY <1>5 DEF Cancel, Inv, TypeOK, Grant
    <2> QED BY <1>5, <2>1, StartKeeps DEF Cancel, Op
<1>6. CASE Refresh(j)
    BY <1>6, StartKeeps DEF Refresh, disk, Op
<1> QED BY <1>1, <1>2, <1>3, <1>4, <1>5, <1>6

-----------------------------------------------------------------------------
(* What a running operation does.                                             *)

LEMMA ReadKeeps ==
    ASSUME Inv, NEW j \in Job, Read(j)
    PROVE  Inv'
<1>1. job[j] \in Task /\ job[j] # Idle /\ JobOK(job[j])
    BY DEF Read, Inv, TypeOK, JobBooks, Idle
<1>2. NoGhost'
    BY GhostsStay DEF Read, Inv, record
<1>3. CASE Refused(j)
    <2>1. reqs' \subseteq Dev
        BY <1>3 DEF Read, Answered, Inv, TypeOK
    <2>2. own'.ver >= own.ver
        BY <1>3, DeviceAssumption DEF Read, Inv, TypeOK, List
    <2>3. JobOK(Idle) /\ job' = [job EXCEPT ![j] = Idle]
        BY <1>3 DEF Read, Done, JobOK
    <2> QED BY <1>2, <1>3, <2>1, <2>2, <2>3, JobStep DEF Read, record, Inv, TypeOK
<1>4. CASE ~Refused(j) /\ job[j].op = "retry"
    <2> DEFINE x == [job[j] EXCEPT !.pc = "send", !.snap = None, !.grant = pend]
    <2>1. pend \in Grant
        BY <1>4 DEF Refused, Inv, TypeOK
    <2>2. x \in Task /\ x.op = "retry" /\ x.pc = "send" /\ x.dev = job[j].dev
          /\ x.grant = pend
        BY <1>1, <1>4, <2>1 DEF Task, PC
    <2>3. job' = [job EXCEPT ![j] = x] /\ JobOK(x) /\ pend \in Owed
        BY <1>1, <1>4, <2>1, <2>2 DEF Read, JobOK, Owed, Inv, TypeOK
    <2>4. /\ own' \in {own, list} /\ self' \in {self, list}
          /\ own'.ver >= own.ver
        BY <1>4, DeviceAssumption DEF Read, EnsureSelf, Newer, Inv, TypeOK, List
    <2> HIDE DEF x
    <2> QED BY <1>2, <1>4, <2>2, <2>3, <2>4, JobStep DEF Read, record, Inv, TypeOK
<1>5. CASE ~Refused(j) /\ job[j].op # "retry"
    <2> DEFINE g == IF job[j].op = "cancel" THEN pend ELSE None
               x == [job[j] EXCEPT !.pc = "commit", !.snap = list, !.grant = g]
    <2>1. g # None => g \in Grant /\ g = pend /\ job[j].op = "cancel"
                      /\ g.dev = job[j].dev
        BY <1>5 DEF Refused, Inv, TypeOK
    <2>2. x \in Task /\ x.op = job[j].op /\ x.pc = "commit" /\ x.dev = job[j].dev
          /\ x.grant = g /\ x.snap = list /\ list \in List
        BY <1>1, <2>1 DEF Task, PC, Inv, TypeOK
    <2>3. job' = [job EXCEPT ![j] = x]
        <3>1. g = IF job[j].op \in {"retry", "cancel"} THEN pend ELSE None
            BY <1>5
        <3> QED BY <1>5, <3>1 DEF Read
    <2>6. JobOK(x)
        <3> HIDE DEF x, g
        <3> QED BY <1>1, <1>5, <2>1, <2>2 DEF JobOK
    <2>4. x.grant \in Grant => x.grant \in Owed
        BY <2>1, <2>2, DeviceAssumption DEF Owed
    <2>5. own'.ver >= own.ver
        BY <1>5, DeviceAssumption DEF Read, Inv, TypeOK, List
    <2> HIDE DEF x, g
    <2> QED BY <1>2, <1>5, <2>2, <2>3, <2>4, <2>5, <2>6, JobStep DEF Read, record, Inv, TypeOK
<1> QED BY <1>3, <1>4, <1>5

\* A job that goes on with what it carries is in order.
LEMMA GoesOn ==
    ASSUME JobBooks, job \in [Job -> Task \cup {Idle}], NEW j \in Job,
           job[j] # Idle, NEW pc \in PC \ {"commit"},
           job[j].op \in {"link", "retry"} /\ pc \in {"publish", "send", "clear"}
               => job[j].pc \in {"publish", "send", "clear"}
    PROVE  LET x == [job[j] EXCEPT !.pc = pc]
           IN /\ x \in Task /\ JobOK(x) /\ x # Idle
              /\ x.op = job[j].op /\ x.pc = pc /\ x.grant = job[j].grant
              /\ x.grant \in Grant => x.grant \in Owed
<1> DEFINE x == [job[j] EXCEPT !.pc = pc]
<1>1. job[j] \in Task
    OBVIOUS
<1>2. /\ x \in Task /\ x.op = job[j].op /\ x.pc = pc
      /\ x.grant = job[j].grant /\ x.dev = job[j].dev
    BY <1>1 DEF Task
<1>3. JobOK(job[j])
    BY DEF JobBooks
<1>4. x # Idle
    BY <1>2, <1>1 DEF Idle, Task, Op
<1>5. JobOK(x)
    BY <1>2, <1>3 DEF JobOK
<1>6. x.grant \in Grant => x.grant \in Owed
    BY <1>2, CarriedOwed
<1> QED BY <1>2, <1>4, <1>5, <1>6

LEMMA IdleOK == JobOK(Idle)
BY DEF JobOK

LEMMA PublishKeeps ==
    ASSUME Inv, NEW j \in Job, Publish(j)
    PROVE  Inv'
<1>1. job[j] # Idle /\ job[j].pc = "publish"
    BY DEF Publish, Idle
<1>2. NoGhost'
    BY GhostsStay DEF Publish, Inv, record, disk
<1>3. /\ own' \in {own, list} /\ self' \in {self, list}
      /\ own'.ver >= own.ver
    BY DeviceAssumption DEF Publish, Newer, Inv, TypeOK, List
<1>4. ASSUME NEW pc \in {"send", "direct", "gossip"}, Step(j, pc)
      PROVE  Inv'
    <2> DEFINE x == [job[j] EXCEPT !.pc = pc]
    <2>1. x \in Task /\ JobOK(x) /\ x.pc = pc /\ (x.grant \in Grant => x.grant \in Owed)
        BY <1>1, GoesOn DEF Inv, TypeOK, PC
    <2>2. job' = [job EXCEPT ![j] = x]
        BY <1>4 DEF Step
    <2> HIDE DEF x
    <2> QED BY <1>2, <1>3, <2>1, <2>2, JobStep DEF Publish, record, Inv, TypeOK
<1>5. CASE Done(j)
    BY <1>2, <1>3, <1>5, IdleOK, JobStep DEF Done, Publish, record, Inv, TypeOK
<1> QED BY <1>4, <1>5 DEF Publish

LEMMA SendKeeps ==
    ASSUME Inv, NEW j \in Job, Send(j) \/ SendFails(j)
    PROVE  Inv'
<1> DEFINE g == job[j].grant
<1>1. job[j] # Idle /\ job[j].pc = "send" /\ job[j].op \in {"link", "retry"}
    BY DEF Send, SendFails, On, Idle
<1>2. g \in Grant /\ g \in Owed
    BY <1>1, CarriedOwed DEF Inv, JobBooks, JobOK
<1>3. \/ Store(g)
      \/ UNCHANGED <<sent, told>>
    BY DEF Send, SendFails
<1>4. /\ told \subseteq told' /\ told' \subseteq Dev
      /\ sent' \subseteq sent \cup {own, list} \cup {h.list : h \in Owed}
    BY <1>2, <1>3 DEF Store, Inv, TypeOK, Grant
<1>5. NoGhost'
    BY <1>4, GhostsStay DEF Send, SendFails, Inv, disk
<1>6. own'.ver >= own.ver
    BY DeviceAssumption DEF Send, SendFails, Inv, TypeOK, List
<1>7. CASE Send(j)
    <2> DEFINE x == [job[j] EXCEPT !.pc = "clear"]
    <2>1. /\ x \in Task /\ JobOK(x) /\ (x.grant \in Grant => x.grant \in Owed)
          /\ x.grant = g
        BY <1>1, GoesOn DEF Inv, TypeOK, PC
    <2>2. job' = [job EXCEPT ![j] = x]
        BY <1>7 DEF Send, Step
    <2>3. auth[g.dev] = g.n => g.dev \in told'
        BY <1>7 DEF Send, Store
    <2> HIDE DEF x, g
    <2> QED BY <1>4, <1>5, <1>6, <1>7, <2>1, <2>2, <2>3, JobStep
            DEF Send, disk, Inv, TypeOK
<1>8. CASE SendFails(j)
    <2>1. job' = [job EXCEPT ![j] = Idle]
        BY <1>8 DEF SendFails, Done
    <2> QED BY <1>4, <1>5, <1>6, <1>8, <2>1, IdleOK, JobStep
            DEF SendFails, disk, Inv, TypeOK
<1> QED BY <1>7, <1>8

LEMMA ReceiptKeeps ==
    ASSUME Inv, NEW j \in Job, Receipt(j)
    PROVE  Inv'
<1> DEFINE g == job[j].grant
<1>1. job[j] # Idle /\ job[j].pc = "clear" /\ job[j].op \in {"link", "retry"}
    BY DEF Receipt, On, Idle
<1>2. auth[g.dev] = g.n => g.dev \in told
    BY <1>1 DEF Inv, GrantBooks, Receipted
<1>3. pend' = IF pend = g THEN None ELSE pend
    BY DEF Receipt, Clear
<1>4. NoGhost'
    <2>1. CASE pend = g
        BY <1>2, <2>1 DEF Receipt, Inv, NoGhost, record
    <2>2. CASE pend # g
        BY <1>3, <2>2 DEF Receipt, Inv, NoGhost, record
    <2> QED BY <2>1, <2>2
<1>5. own'.ver >= own.ver
    BY DeviceAssumption DEF Receipt, Inv, TypeOK, List
<1>6. CASE Step(j, "gossip")
    <2> DEFINE x == [job[j] EXCEPT !.pc = "gossip"]
    <2>1. x \in Task /\ JobOK(x) /\ x.pc = "gossip" /\ (x.grant \in Grant => x.grant \in Owed)
        BY <1>1, GoesOn DEF Inv, TypeOK, PC
    <2>2. job' = [job EXCEPT ![j] = x]
        BY <1>6 DEF Step
    <2> HIDE DEF x, g
    <2> QED BY <1>3, <1>4, <1>5, <2>1, <2>2, JobStep DEF Receipt, record, Inv, TypeOK
<1>7. CASE Done(j)
    <2> HIDE DEF g
    <2> QED BY <1>3, <1>4, <1>5, <1>7, IdleOK, JobStep DEF Done, Receipt, record, Inv, TypeOK
<1> QED BY <1>6, <1>7 DEF Receipt

LEMMA DirectKeeps ==
    ASSUME Inv, NEW j \in Job, Direct(j)
    PROVE  Inv'
<1> DEFINE x == [job[j] EXCEPT !.pc = "gossip"]
<1>1. job[j] # Idle
    BY DEF Direct, On, Idle
<1>2. x \in Task /\ JobOK(x) /\ x.pc = "gossip" /\ (x.grant \in Grant => x.grant \in Owed)
    BY <1>1, GoesOn DEF Inv, TypeOK, PC
<1>3. job' = [job EXCEPT ![j] = x]
    BY DEF Direct, Step
<1>4. NoGhost'
    BY GhostsStay DEF Direct, Inv, record, disk
<1>5. own'.ver >= own.ver
    BY DeviceAssumption DEF Direct, Inv, TypeOK, List
<1>6. sent' \subseteq sent \cup {own, list}
    BY DEF Direct
<1> HIDE DEF x
<1> QED BY <1>2, <1>3, <1>4, <1>5, <1>6, JobStep DEF Direct, record, disk, Inv, TypeOK

LEMMA GossipKeeps ==
    ASSUME Inv, NEW j \in Job, Gossip(j)
    PROVE  Inv'
<1>1. NoGhost'
    BY GhostsStay DEF Gossip, Inv, record, disk
<1>2. /\ own' \in {own, list} /\ self' \in {self, list}
      /\ own'.ver >= own.ver
    BY DeviceAssumption DEF Gossip, EnsureSelf, Newer, Inv, TypeOK, List
<1>3. sent' \subseteq sent \cup {own, list}
    BY <1>2 DEF Gossip
<1> QED BY <1>1, <1>2, <1>3, IdleOK, JobStep DEF Gossip, Done, record, Inv, TypeOK

-----------------------------------------------------------------------------
(* Restarts, requests, and the contact.                                       *)

LEMMA RestartKeeps ==
    ASSUME Inv, NEW j \in Job, Restart(j)
    PROVE  Inv'
<1> DEFINE x == [op |-> "retry", pc |-> "read", dev |-> pend.dev,
                 snap |-> None, grant |-> None]
<1>1. job' = [i \in Job |-> IF i = j /\ pend # None THEN x ELSE Idle]
    BY DEF Restart
<1>2. pend # None => x \in Task /\ JobOK(x) /\ x.grant \notin Grant /\ x.pc = "read"
    BY DeviceAssumption DEF Inv, TypeOK, Grant, Task, Op, PC, JobOK
<1> HIDE DEF x
<1>3. own' = list /\ own'.ver >= own.ver
    <2>1. own \in Versions
        BY DEF Versions, Known
    <2> QED BY <2>1, DeviceAssumption DEF Restart, DurableList, Inv, ListBooks, TypeOK, List
<1>4. TypeOK'
    <2>1. job' \in [Job -> Task \cup {Idle}]
        BY <1>1, <1>2
    <2>2. acked' \in 0..own'.ver
        BY <1>3, DeviceAssumption DEF Restart, Inv, TypeOK, peer, List
    <2> QED BY <1>3, <2>1, <2>2 DEF Restart, Inv, TypeOK, peer, record, disk
<1>5. Owed' \subseteq Owed
    BY <1>1, <1>2 DEF Restart, Owed, Carries, disk
<1>6. ListBooks'
    <2>1. Known' \subseteq Known
        BY <1>3 DEF Restart, Known, peer, disk
    <2>2. Versions' \subseteq Versions
        BY <1>5, <2>1 DEF Versions
    <2>3. list' = list /\ list \in List
        BY DEF Restart, Inv, TypeOK, disk
    <2> QED BY <2>2, <2>3, ListsStand DEF Inv
<1>7. JobBooks'
    BY <1>1, <1>2, IdleOK DEF JobBooks, JobOK
<1>8. GrantBooks'
    BY <1>1, <1>2, <1>5 DEF Restart, Inv, GrantBooks, Receipted, record
<1>9. NoGhost'
    BY GhostsStay DEF Restart, Inv, record, disk
<1> QED BY <1>4, <1>6, <1>7, <1>8, <1>9 DEF Inv

\* No job moves and the primary's database stands.
LEMMA OutsideStep ==
    ASSUME Inv, TypeOK', UNCHANGED <<disk, own, job, sent, record>>,
           {view'} \cup toPeer' \subseteq Known
    PROVE  Inv'
<1>1. Owed' = Owed
    BY DEF Owed, Carries, disk
<1>2. ListBooks'
    <2>1. Known' \subseteq Known
        BY DEF Known, disk
    <2>2. Versions' \subseteq Versions
        BY <1>1, <2>1 DEF Versions
    <2> QED BY <2>2, ListsStand DEF Inv, TypeOK, disk
<1>3. JobBooks' /\ GrantBooks' /\ NoGhost'
    BY <1>1 DEF Inv, JobBooks, GrantBooks, Receipted, NoGhost, record, disk
<1> QED BY <1>2, <1>3 DEF Inv

LEMMA OutsideKeeps ==
    ASSUME Inv,
           \/ \E d \in Dev : Ask(d)
           \/ Offer
           \/ \E l \in toPeer : Learn(l) \/ LearnAckLost(l)
           \/ \E v \in toMe : Acked(v)
    PROVE  Inv'
<1>1. CASE \E d \in Dev : Ask(d)
    <2>1. TypeOK' /\ UNCHANGED peer
        BY <1>1 DEF Ask, Inv, TypeOK, disk, record, peer
    <2> QED BY <1>1, <2>1, OutsideStep DEF Ask, Known, peer
<1>2. CASE Offer
    <2>1. TypeOK'
        BY <1>2 DEF Offer, Inv, TypeOK, disk, record
    <2> QED BY <1>2, <2>1, OutsideStep DEF Offer, Known
<1>3. ASSUME NEW l \in toPeer, Learn(l) \/ LearnAckLost(l)
      PROVE  Inv'
    <2>1. view' \in {l, view} /\ toPeer' \subseteq toPeer
        BY <1>3 DEF Learn, LearnAckLost, Accept, Newer
    <2>2. Newer(l, view).ver \in 1..MaxVer
        BY DEF Newer, Inv, TypeOK, List
    <2>3. TypeOK'
        BY <1>3, <2>1, <2>2
        DEF Learn, LearnAckLost, Answer, Inv, TypeOK, disk, record
    <2> QED BY <1>3, <2>1, <2>3, OutsideStep DEF Learn, LearnAckLost, Known
<1>4. ASSUME NEW v \in toMe, Acked(v)
      PROVE  Inv'
    <2>1. TypeOK'
        BY <1>4, DeviceAssumption DEF Acked, Inv, TypeOK, List, disk, record
    <2> QED BY <1>4, <2>1, OutsideStep DEF Acked, Known
<1> QED BY <1>1, <1>2, <1>3, <1>4

-----------------------------------------------------------------------------
(* The commit: the snapshot is still the list, so the list that is signed is  *)
(* newer than every other, or the list itself.                                *)

\* The devices of the list that replaces the snapshot.
Devices(j) == CASE job[j].op = "link"    -> list.devs \cup {job[j].dev}
                [] job[j].op = "refresh" -> list.devs
                [] OTHER                 -> list.devs \ {job[j].dev}

LEMMA SignedNews ==
    ASSUME Inv, NEW j \in Job, job[j] # Idle, job[j].pc = "commit",
           Held(j), Signed(j).ver <= MaxVer
    PROVE  /\ Signed(j) \in List /\ Signed(j).devs = Devices(j)
           /\ Signed(j) = list \/ Signed(j).ver > list.ver
<1>1. list \in List /\ job[j].snap = list
    BY DEF Held, Inv, TypeOK
<1>2. Devices(j) \subseteq Dev
    <2>1. job[j].op # "refresh" => job[j].dev \in Dev
        BY DEF Inv, JobBooks, JobOK
    <2>2. list.devs \subseteq Dev
        BY <1>1 DEF List
    <2> QED BY <2>1, <2>2 DEF Devices
<1>3. Signed(j) = IF Devices(j) = list.devs /\ job[j].op # "refresh" THEN list
                  ELSE [ver |-> list.ver + 1, devs |-> Devices(j)]
    BY <1>1 DEF Signed, Devices
<1>4. CASE Devices(j) = list.devs /\ job[j].op # "refresh"
    BY <1>1, <1>3, <1>4
<1>5. CASE ~(Devices(j) = list.devs /\ job[j].op # "refresh")
    BY <1>1, <1>2, <1>3, <1>5, DeviceAssumption DEF List
<1> QED BY <1>4, <1>5

\* Other lists stay what they were; what the new grant names is the new list.
LEMMA CommitLists ==
    ASSUME Inv, NEW j \in Job, Write(j), Held(j), job[j] # Idle,
           job[j].pc = "commit", UNCHANGED <<self, own, sent, peer>>,
           \A g \in Owed' : g \in Owed \/ g.list = list'
    PROVE  ListBooks' /\ list' \in List
<1>1. list' \in List /\ (list' = list \/ list'.ver > list.ver)
    BY SignedNews DEF Write
<1>2. Known' \subseteq Known \cup {list'}
    BY DEF Known, peer
<1>3. Versions' \subseteq Versions \cup {list'}
    BY <1>2 DEF Versions
<1> QED BY <1>1, <1>3, ListsStand DEF Inv, TypeOK

LEMMA LinkCommits ==
    ASSUME Inv, NEW j \in Job, Write(j), Held(j), Answered(j),
           job[j].pc = "commit", job[j].op = "link",
           UNCHANGED <<self, own, sent, peer, faults>>
    PROVE  Inv'
<1> DEFINE d == job[j].dev
           g == [dev |-> d, n |-> links + 1, list |-> list']
           x == [job[j] EXCEPT !.pc = "publish", !.snap = None, !.grant = g]
<1>1. job[j] # Idle /\ job[j] \in Task /\ d \in Dev /\ pend = None
    BY DEF Idle, Held, Inv, TypeOK, JobBooks, JobOK
<1>2. list' \in List /\ list'.devs = list.devs \cup {d}
    BY <1>1, SignedNews DEF Write, Devices
<1>3. /\ links' = links + 1 /\ links' \in 1..MaxLink /\ pend' = g
      /\ auth' = [auth EXCEPT ![d] = links'] /\ told' = told \ {d}
    BY DeviceAssumption DEF Write, Inv, TypeOK
<1>4. g \in Grant /\ g.list = list' /\ g.dev = d /\ g.n = links'
    BY <1>1, <1>2, <1>3 DEF Grant
<1> HIDE DEF g
<1>5. x \in Task /\ x.op = "link" /\ x.pc = "publish" /\ x.dev = d /\ x.grant = g
    BY <1>1, <1>4 DEF Task, PC
<1>6. job' = [job EXCEPT ![j] = x]
    BY <1>3 DEF Write
<1> HIDE DEF x
<1>7. Owed' \subseteq Owed \cup {g}
    BY <1>3, <1>5, <1>6 DEF Owed, Carries, Inv, TypeOK
<1>8. TypeOK'
    <2>1. job' \in [Job -> Task \cup {Idle}]
        BY <1>5, <1>6 DEF Inv, TypeOK
    <2>2. auth' \in [Dev -> 0..MaxLink]
        BY <1>1, <1>3, DeviceAssumption DEF Inv, TypeOK
    <2>3. reqs' \subseteq Dev
        BY DEF Answered, Inv, TypeOK
    <2>4. links' \in 0..MaxLink
        BY <1>3, DeviceAssumption
    <2> QED BY <1>2, <1>3, <1>4, <2>1, <2>2, <2>3, <2>4 DEF Inv, TypeOK, peer
<1>9. ListBooks'
    BY <1>1, <1>4, <1>7, CommitLists
<1>10. JobBooks'
    <2>1. JobOK(x)
        BY <1>1, <1>4, <1>5 DEF JobOK
    <2> QED BY <1>6, <2>1 DEF Inv, JobBooks, JobOK, TypeOK
<1>11. GrantBooks'
    <2>1. \A h \in Owed : h.n <= links /\ h.n \in Nat
        BY DeviceAssumption DEF Inv, GrantBooks, Owed, Grant
    <2>2. \A h \in Owed' : h.n <= links'
        BY <1>3, <1>4, <1>7, <2>1, DeviceAssumption DEF Inv, TypeOK
    <2>3. ASSUME NEW i \in Job
          PROVE  Receipted(job[i])'
        <3>1. CASE i = j
            BY <1>5, <1>6, <3>1 DEF Receipted, Inv, TypeOK
        <3>2. CASE i # j
            <4>1. job'[i] = job[i]
                BY <1>6, <3>2 DEF Inv, TypeOK
            <4> DEFINE h == job[i].grant
            <4>2. ASSUME job[i] # Idle, job[i].op \in {"link", "retry"},
                         job[i].pc = "clear", auth'[h.dev] = h.n
                  PROVE  h.dev \in told'
                <5>1. h \in Grant /\ h \in Owed
                    BY <4>2, CarriedOwed DEF Inv, JobBooks, JobOK
                <5>2. h.dev \in Dev /\ h.n # links'
                    BY <1>3, <2>1, <5>1, DeviceAssumption DEF Inv, TypeOK, Grant
                <5>3. h.dev # d /\ auth'[h.dev] = auth[h.dev]
                    BY <1>3, <4>2, <5>2 DEF Inv, TypeOK
                <5> QED BY <1>3, <4>2, <5>3 DEF Inv, GrantBooks, Receipted
            <4> QED BY <4>1, <4>2 DEF Receipted
        <3> QED BY <3>1, <3>2
    <2> QED BY <2>2, <2>3 DEF GrantBooks
<1>12. NoGhost'
    <2>1. \A e \in list.devs : e \in told
        BY <1>1 DEF Inv, NoGhost
    <2>2. pend' # None /\ pend'.dev = d /\ pend'.n = auth'[d]
        BY <1>1, <1>3, <1>4, DeviceAssumption DEF Inv, TypeOK
    <2> QED BY <1>2, <1>3, <2>1, <2>2 DEF NoGhost
<1> QED BY <1>8, <1>9, <1>10, <1>11, <1>12 DEF Inv

\* A cancellation takes back the grant it has read; the others found none.
LEMMA OthersCommit ==
    ASSUME Inv, NEW j \in Job, Write(j), Held(j), Answered(j),
           job[j] # Idle, job[j].pc = "commit", job[j].op # "link",
           pend # None => job[j].op = "cancel",
           UNCHANGED <<self, own, sent, peer, faults>>
    PROVE  Inv'
<1> DEFINE x == [job[j] EXCEPT !.pc = "publish", !.snap = None, !.grant = None]
<1>1. job[j] \in Task /\ JobOK(job[j]) /\ job[j].op # "retry"
    BY DEF Inv, TypeOK, JobBooks, JobOK
<1>2. list' \in List /\ list'.devs = Devices(j)
    BY SignedNews DEF Write
<1>3. pend' = None /\ UNCHANGED record
    BY DEF Write
<1>4. /\ x \in Task /\ x.op = job[j].op /\ x.pc = "publish"
      /\ x.dev = job[j].dev /\ x.grant = None
    BY <1>1 DEF Task, PC
<1>5. job' = [job EXCEPT ![j] = x]
    BY DEF Write
<1> HIDE DEF x
<1>6. Owed' \subseteq Owed
    <2>1. x.grant \notin Grant
        BY <1>4, DeviceAssumption
    <2> QED BY <1>3, <1>4, <1>5, <2>1, OwedStands DEF Inv, TypeOK
<1>7. TypeOK'
    <2>1. job' \in [Job -> Task \cup {Idle}]
        BY <1>4, <1>5 DEF Inv, TypeOK
    <2>2. reqs' \subseteq Dev
        BY DEF Answered, Inv, TypeOK
    <2> QED BY <1>2, <1>3, <2>1, <2>2 DEF Inv, TypeOK, peer, record
<1>8. ListBooks'
    BY <1>6, CommitLists
<1>9. JobBooks'
    BY <1>1, <1>4, <1>5 DEF Inv, JobBooks, JobOK, TypeOK
<1>10. GrantBooks'
    BY <1>3, <1>4, <1>5, <1>6 DEF Inv, GrantBooks, Receipted, record, TypeOK
<1>11. NoGhost'
    <2>1. list'.devs \subseteq list.devs
        BY <1>2 DEF Devices
    <2>2. pend # None => pend.dev \notin list'.devs
        BY <1>1, <1>2 DEF Devices, Held, JobOK
    <2> QED BY <1>3, <2>1, <2>2 DEF Inv, NoGhost, record
<1> QED BY <1>7, <1>8, <1>9, <1>10, <1>11 DEF Inv

LEMMA CommitKeeps ==
    ASSUME Inv, NEW j \in Job, Commit(j)
    PROVE  Inv'
<1>1. job[j] # Idle /\ job[j].pc = "commit" /\ UNCHANGED <<self, own, sent, peer, faults>>
    BY DEF Commit, Idle
<1>2. own'.ver >= own.ver
    BY DeviceAssumption DEF Commit, Inv, TypeOK, List
<1>3. CASE pend # None /\ job[j].op \in {"remove", "unlink", "refresh"}
    <2>1. reqs' \subseteq Dev /\ job' = [job EXCEPT ![j] = Idle]
        BY <1>3 DEF Commit, Answered, Done, Inv, TypeOK
    <2>2. UNCHANGED <<list, pend, record>>
        BY <1>3 DEF Commit
    <2>3. NoGhost'
        BY <2>2, GhostsStay DEF Inv, record
    <2> QED BY <1>1, <1>2, <2>1, <2>2, <2>3, IdleOK, JobStep DEF record, Inv, TypeOK
<1>4. CASE ~(pend # None /\ job[j].op \in {"remove", "unlink", "refresh"}) /\ Held(j)
    <2>1. Write(j) /\ Answered(j)
        BY <1>4 DEF Commit
    <2>2. pend # None => job[j].op \in {"link", "cancel"}
        <3>1. job[j] \in Task /\ job[j].op # "retry"
            BY <1>1 DEF Inv, TypeOK, JobBooks, JobOK
        <3> QED BY <1>4, <3>1 DEF Task, Op
    <2> QED BY <1>1, <1>4, <2>1, <2>2, LinkCommits, OthersCommit
<1>5. CASE ~(pend # None /\ job[j].op \in {"remove", "unlink", "refresh"}) /\ ~Held(j)
    <2> DEFINE x == [job[j] EXCEPT !.pc = "read"]
    <2>1. x \in Task /\ JobOK(x) /\ x.pc = "read" /\ (x.grant \in Grant => x.grant \in Owed)
        BY <1>1, GoesOn DEF Inv, TypeOK, PC
    <2>2. job' = [job EXCEPT ![j] = x] /\ UNCHANGED <<list, pend, record, reqs>>
        BY <1>5 DEF Commit, Step
    <2>3. NoGhost'
        BY <2>2, GhostsStay DEF Inv, record
    <2> HIDE DEF x
    <2> QED BY <1>1, <1>2, <2>1, <2>2, <2>3, JobStep DEF record, Inv, TypeOK
<1> QED BY <1>3, <1>4, <1>5

-----------------------------------------------------------------------------
LEMMA InvInit == Init => Inv
<1> SUFFICES ASSUME Init PROVE Inv
    OBVIOUS
<1>1. First \in List
    BY DeviceAssumption DEF First, List
<1>2. TypeOK
    BY <1>1, DeviceAssumption DEF Init, TypeOK, First
<1>3. Owed = {}
    BY DeviceAssumption DEF Init, Owed, Carries
<1>4. Versions = {First}
    BY <1>3 DEF Init, Versions, Known
<1>5. ListBooks
    BY <1>1, <1>4, DeviceAssumption DEF Init, ListBooks, List
<1>6. JobBooks /\ GrantBooks /\ NoGhost
    BY <1>3 DEF Init, JobBooks, JobOK, GrantBooks, Receipted, NoGhost, First
<1> QED BY <1>2, <1>5, <1>6 DEF Inv

LEMMA InvNext == Inv /\ [Next]_vars => Inv'
<1> SUFFICES ASSUME Inv, [Next]_vars PROVE Inv'
    OBVIOUS
<1>1. ASSUME NEW j \in Job,
             \/ \E d \in Dev : Link(j, d) \/ Remove(j, d) \/ Unlinked(j, d)
             \/ Retry(j) \/ Cancel(j) \/ Refresh(j)
      PROVE  Inv'
    BY <1>1, StartsKeep
<1>2. ASSUME NEW j \in Job, Run(j)
      PROVE  Inv'
    BY <1>2, ReadKeeps, CommitKeeps, PublishKeeps, SendKeeps, ReceiptKeeps,
       DirectKeeps, GossipKeeps DEF Run
<1>3. ASSUME NEW j \in Job, SendFails(j) \/ Restart(j)
      PROVE  Inv'
    BY <1>3, SendKeeps, RestartKeeps
<1>4. ASSUME \/ \E d \in Dev : Ask(d)
             \/ Offer
             \/ \E l \in toPeer : Learn(l) \/ LearnAckLost(l)
             \/ \E v \in toMe : Acked(v)
      PROVE  Inv'
    BY <1>4, OutsideKeeps
<1>5. CASE UNCHANGED vars
    <2>1. TypeOK' /\ UNCHANGED <<disk, own, job, sent, record, peer>>
        BY <1>5 DEF vars, Inv, TypeOK, disk, record, peer
    <2> QED BY <2>1, OutsideStep DEF Known, peer
<1> QED BY <1>1, <1>2, <1>3, <1>4, <1>5 DEF Next

(* The invariant holds in every reachable state, whatever operations overlap,  *)
(* fail or are cut off.                                                        *)
THEOREM DeviceListInvariant == Spec => []Inv
BY InvInit, InvNext, PTL DEF Spec

(* Every variable has its type, and a contact is never believed to know a list *)
(* that was not published.                                                     *)
THEOREM TypeCorrect == Spec => []TypeOK
<1>1. Inv => TypeOK
    BY DEF Inv
<1> QED BY <1>1, DeviceListInvariant, PTL

(* Two lists of one version are one list, wherever they are: in the primary's  *)
(* database and memory, under way, or followed by a contact.                   *)
THEOREM ListsNeverFork == Spec => []NoFork
<1>1. Inv => NoFork
    BY ListsAgree DEF Inv
<1> QED BY <1>1, DeviceListInvariant, PTL

(* A listed device has its grant at the relay, or the primary still owes it.   *)
THEOREM NoGhostDevices == Spec => []NoGhost
<1>1. Inv => NoGhost
    BY DEF Inv
<1> QED BY <1>1, DeviceListInvariant, PTL

(* There is one list, and no device on it that cannot know.                    *)
THEOREM ListIsSound == Spec => []ListSound
<1>1. NoFork /\ NoGhost => ListSound
    BY DEF ListSound
<1> QED BY <1>1, ListsNeverFork, NoGhostDevices, PTL

-----------------------------------------------------------------------------
(* The new device (LinkInstall).                                             *)

(* The attempt at hand and the intent saved of it: an intent is of the        *)
(* attempt, which is confirmed; it is gone when the installation is done; a   *)
(* discard began before there was an identity to keep.                        *)
AttemptBooks ==
    /\ phase = "none" <=> sess = 0
    /\ intent # 0 => intent = sess /\ phase = "confirmed"
    /\ inst = "done" => intent = 0
    /\ abort => phase = "confirmed" /\ ~Linked
    /\ sess \notin discarded /\ discarded \subseteq 1..tries

(* How far the installation is, and what is durable by then.                  *)
InstallBooks ==
    /\ inst = "swap" => grant[sess] # 0
    /\ inst \in {"clear", "done"} => barred
    /\ ~Linked => id.try = 0

(* Only attempts that were made are granted, and only grants are stored; the  *)
(* grant of the attempt at hand, confirmed or not yet, stays in the inbox.    *)
BoxBooks ==
    /\ \A t \in Try : /\ grant[t] # 0 => t <= tries
                      /\ copies[t] > 0 => grant[t] # 0
    /\ \A r \in box : grant[r.try] # 0
    /\ sess # 0 /\ copies[sess] > 0 /\ ~wiped => \E r \in box : r.try = sess

(* The inductive invariant.                                                   *)
LinkInv == LinkTypeOK /\ AttemptBooks /\ InstallBooks /\ BoxBooks
       /\ DiscardFinal /\ InstallWhole

-----------------------------------------------------------------------------
LEMMA AuthoriseKeeps ==
    ASSUME LinkInv, NEW t \in Try, Authorise(t)
    PROVE  LinkInv'
<1>1. LinkTypeOK'
    <2>1. /\ onList' \in Seq(BOOLEAN) /\ Len(onList') \in 1..MaxList
          /\ Len(onList) <= Len(onList') /\ Len(onList) \in Nat
        <3>1. CASE onList[Last]
            BY <3>1, LinkAssumption DEF Authorise, LinkInv, LinkTypeOK, Last
        <3>2. CASE ~onList[Last]
            <4>1. onList' = Append(onList, TRUE) /\ Len(onList) < MaxList
                BY <3>2 DEF Authorise, Last
            <4>2. onList \in Seq(BOOLEAN) /\ Len(onList) \in 1..MaxList
                BY DEF LinkInv, LinkTypeOK, Last
            <4> QED BY <4>1, <4>2, LinkAssumption
        <3> QED BY <3>1, <3>2
    <2>2. grant' \in [Try -> Ver]
        BY <2>1, LinkAssumption DEF Authorise, LinkInv, LinkTypeOK, Ver
    <2>3. news' \subseteq 1..Len(onList')
        BY <2>1, LinkAssumption DEF Authorise, LinkInv, LinkTypeOK, Last
    <2> QED BY <2>1, <2>2, <2>3 DEF Authorise, LinkInv, LinkTypeOK, Last, saved, ram
<1>2. AttemptBooks'
    BY DEF Authorise, LinkInv, saved, ram, Linked, AttemptBooks
<1>3. InstallBooks'
    BY DEF Authorise, LinkInv, saved, ram, Linked, InstallBooks
<1>4. BoxBooks'
    BY DEF Authorise, LinkInv, saved, ram, BoxBooks
<1>5. DiscardFinal'
    BY DEF Authorise, LinkInv, saved, DiscardFinal
<1>6. InstallWhole'
    BY DEF Authorise, LinkInv, saved, ram, Linked, InstallWhole
<1> QED BY <1>1, <1>2, <1>3, <1>4, <1>5, <1>6 DEF LinkInv

LEMMA InsertKeeps ==
    ASSUME LinkInv, NEW t \in Try, Insert(t)
    PROVE  LinkInv'
<1>1. LinkTypeOK'
    <2>1. copies' \in [Try -> 0..MaxCopy]
        BY LinkAssumption DEF Insert, LinkInv, LinkTypeOK
    <2>2. copies'[t] \in 1..MaxCopy
        BY LinkAssumption DEF Insert, LinkInv, LinkTypeOK
    <2>3. box' \subseteq Row /\ box \subseteq box'
        BY <2>2 DEF Insert, LinkInv, LinkTypeOK, Row
    <2> QED BY <2>1, <2>3 DEF Insert, LinkInv, LinkTypeOK, Last, saved, ram
<1>2. AttemptBooks'
    BY DEF Insert, LinkInv, saved, ram, Linked, AttemptBooks
<1>3. InstallBooks'
    BY DEF Insert, LinkInv, saved, ram, Linked, InstallBooks
<1>4. BoxBooks'
    <2> DEFINE row == [try |-> t, n |-> copies'[t]]
    <2>1. box' = box \cup {row} /\ row.try = t /\ grant[t] # 0 /\ grant' = grant
        BY DEF Insert
    <2>2. \A u \in Try : u # t => copies'[u] = copies[u]
        BY DEF Insert, LinkInv, LinkTypeOK
    <2>3. sess' # 0 /\ copies'[sess'] > 0 /\ ~wiped'
              => \E r \in box' : r.try = sess'
        <3>1. CASE sess = t
            BY <2>1, <3>1 DEF Insert, ram
        <3>2. CASE sess # t /\ sess # 0
            <4>1. sess \in Try
                BY <3>2, LinkAssumption DEF LinkInv, LinkTypeOK, Try
            <4>2. sess' = sess /\ wiped' = wiped /\ copies'[sess] = copies[sess]
                BY <2>2, <3>2, <4>1 DEF Insert, ram, saved
            <4> QED BY <2>1, <3>2, <4>2 DEF LinkInv, BoxBooks
        <3>3. CASE sess = 0
            BY <3>3 DEF Insert, ram
        <3> QED BY <3>1, <3>2, <3>3
    <2>4. \A u \in Try : /\ grant'[u] # 0 => u <= tries'
                         /\ copies'[u] > 0 => grant'[u] # 0
        BY <2>1, <2>2 DEF Insert, LinkInv, BoxBooks, ram
    <2>5. \A r \in box' : grant'[r.try] # 0
        BY <2>1 DEF LinkInv, BoxBooks
    <2> QED BY <2>3, <2>4, <2>5 DEF BoxBooks, Try
<1>5. DiscardFinal'
    BY DEF Insert, LinkInv, saved, DiscardFinal
<1>6. InstallWhole'
    BY DEF Insert, LinkInv, saved, ram, Linked, InstallWhole
<1> QED BY <1>1, <1>2, <1>3, <1>4, <1>5, <1>6 DEF LinkInv

LEMMA ChangeKeeps ==
    ASSUME LinkInv, NEW on \in BOOLEAN, Change(on)
    PROVE  LinkInv'
<1>1. LinkTypeOK'
    <2>1. onList' \in Seq(BOOLEAN) /\ Len(onList') = Len(onList) + 1 /\ Len(onList') \in 1..MaxList
        BY LinkAssumption DEF Change, LinkInv, LinkTypeOK, Last
    <2>2. news' \subseteq 1..Len(onList')
        BY <2>1, LinkAssumption DEF Change, LinkInv, LinkTypeOK, Last
    <2> QED BY <2>1, <2>2 DEF Change, LinkInv, LinkTypeOK, Last, saved, ram
<1>2. AttemptBooks'
    BY DEF Change, LinkInv, saved, ram, Linked, AttemptBooks
<1>3. InstallBooks'
    BY DEF Change, LinkInv, saved, ram, Linked, InstallBooks
<1>4. BoxBooks'
    BY DEF Change, LinkInv, saved, ram, BoxBooks
<1>5. DiscardFinal'
    BY DEF Change, LinkInv, saved, DiscardFinal
<1>6. InstallWhole'
    BY DEF Change, LinkInv, saved, ram, Linked, InstallWhole
<1> QED BY <1>1, <1>2, <1>3, <1>4, <1>5, <1>6 DEF LinkInv

LEMMA JoinKeeps ==
    ASSUME LinkInv, Join
    PROVE  LinkInv'
<1>1. LinkTypeOK'
    BY LinkAssumption DEF Join, LinkInv, primary, saved, Last, Protected, LinkTypeOK
<1>2. AttemptBooks'
    BY DEF Join, LinkInv, saved, Protected, LinkTypeOK, AttemptBooks
<1>3. InstallBooks'
    BY DEF Join, LinkInv, saved, Linked, Protected, LinkTypeOK, InstallBooks
<1>4. BoxBooks'
    BY LinkAssumption DEF Join, LinkInv, primary, Try, LinkTypeOK, BoxBooks
<1>5. DiscardFinal'
    BY DEF Join, LinkInv, saved, DiscardFinal
<1>6. InstallWhole'
    BY DEF Join, LinkInv, saved, Linked, InstallWhole
<1> QED BY <1>1, <1>2, <1>3, <1>4, <1>5, <1>6 DEF LinkInv

LEMMA ResetKeeps ==
    ASSUME LinkInv, Reset
    PROVE  LinkInv'
<1>1. LinkTypeOK'
    BY DEF Reset, LinkInv, primary, saved, Last, Protected, LinkTypeOK
<1>2. AttemptBooks'
    BY DEF Reset, LinkInv, saved, Protected, AttemptBooks
<1>3. InstallBooks'
    BY DEF Reset, LinkInv, saved, Linked, Protected, LinkTypeOK, InstallBooks
<1>4. BoxBooks'
    BY DEF Reset, LinkInv, primary, BoxBooks
<1>5. DiscardFinal'
    BY DEF Reset, LinkInv, saved, DiscardFinal
<1>6. InstallWhole'
    BY DEF Reset, LinkInv, saved, Linked, InstallWhole
<1> QED BY <1>1, <1>2, <1>3, <1>4, <1>5, <1>6 DEF LinkInv

LEMMA ConfirmKeeps ==
    ASSUME LinkInv, Confirm
    PROVE  LinkInv'
<1>1. LinkTypeOK'
    BY DEF Confirm, LinkInv, primary, saved, Last, LinkTypeOK
<1>2. AttemptBooks'
    BY DEF Confirm, LinkInv, saved, AttemptBooks
<1>3. InstallBooks'
    BY DEF Confirm, LinkInv, primary, saved, Linked, InstallBooks
<1>4. BoxBooks'
    BY DEF Confirm, LinkInv, primary, BoxBooks
<1>5. DiscardFinal'
    BY DEF Confirm, LinkInv, saved, DiscardFinal
<1>6. InstallWhole'
    BY DEF Confirm, LinkInv, saved, Linked, InstallWhole
<1> QED BY <1>1, <1>2, <1>3, <1>4, <1>5, <1>6 DEF LinkInv

LEMMA SaveKeeps ==
    ASSUME LinkInv, Save
    PROVE  LinkInv'
<1>1. LinkTypeOK'
    BY LinkAssumption DEF Save, LinkInv, primary, Last, LinkTypeOK
<1>2. AttemptBooks'
    BY DEF Save, LinkInv, LinkTypeOK, AttemptBooks
<1>3. InstallBooks'
    BY DEF Save, LinkInv, primary, Linked, InstallBooks
<1>4. BoxBooks'
    BY DEF Save, LinkInv, primary, BoxBooks
<1>5. DiscardFinal'
    BY DEF Save, LinkInv, DiscardFinal
<1>6. InstallWhole'
    BY DEF Save, LinkInv, Linked, AttemptBooks, InstallWhole
<1> QED BY <1>1, <1>2, <1>3, <1>4, <1>5, <1>6 DEF LinkInv

LEMMA DeliverKeeps ==
    ASSUME LinkInv, NEW r \in Row, Deliver(r)
    PROVE  LinkInv'
<1>1. LinkTypeOK'
    <2>1. held' \subseteq box' /\ box' \subseteq Row
        BY DEF Deliver, LinkInv, LinkTypeOK
    <2> QED BY <2>1 DEF Deliver, LinkInv, LinkTypeOK, Last, primary, saved
<1>2. AttemptBooks'
    BY DEF Deliver, LinkInv, saved, Linked, AttemptBooks
<1>3. InstallBooks'
    BY DEF Deliver, LinkInv, primary, saved, Linked, InstallBooks
<1>4. BoxBooks'
    BY DEF Deliver, LinkInv, Disposition, primary, AttemptBooks, BoxBooks
<1>5. DiscardFinal'
    BY DEF Deliver, LinkInv, saved, DiscardFinal
<1>6. InstallWhole'
    BY DEF Deliver, LinkInv, saved, Linked, InstallWhole
<1> QED BY <1>1, <1>2, <1>3, <1>4, <1>5, <1>6 DEF LinkInv

LEMMA StartInstallKeeps ==
    ASSUME LinkInv, StartInstall
    PROVE  LinkInv'
<1>1. LinkTypeOK'
    BY DEF StartInstall, LinkInv, primary, saved, Last, Go, LinkTypeOK
<1>2. AttemptBooks'
    BY DEF StartInstall, LinkInv, saved, Go, AttemptBooks
<1>3. InstallBooks'
    BY DEF StartInstall, LinkInv, saved, Linked, Go, InstallBooks
<1>4. BoxBooks'
    BY DEF StartInstall, LinkInv, primary, BoxBooks
<1>5. DiscardFinal'
    BY DEF StartInstall, LinkInv, saved, DiscardFinal
<1>6. InstallWhole'
    BY DEF StartInstall, LinkInv, saved, Linked, InstallWhole
<1> QED BY <1>1, <1>2, <1>3, <1>4, <1>5, <1>6 DEF LinkInv

LEMMA CheckKeeps ==
    ASSUME LinkInv, Check
    PROVE  LinkInv'
<1>1. LinkTypeOK'
    BY DEF Check, LinkInv, primary, saved, Last, Go, LinkTypeOK
<1>2. AttemptBooks'
    BY DEF Check, LinkInv, saved, Linked, Go, AttemptBooks
<1>3. InstallBooks'
    BY DEF Check, LinkInv, primary, saved, Linked, Go, LinkTypeOK, InstallBooks, BoxBooks
<1>4. BoxBooks'
    BY DEF Check, LinkInv, Retire, primary, BoxBooks
<1>5. DiscardFinal'
    BY DEF Check, LinkInv, saved, DiscardFinal
<1>6. InstallWhole'
    BY DEF Check, LinkInv, saved, Linked, InstallWhole
<1> QED BY <1>1, <1>2, <1>3, <1>4, <1>5, <1>6 DEF LinkInv

LEMMA SwapKeeps ==
    ASSUME LinkInv, Swap
    PROVE  LinkInv'
<1>1. LinkTypeOK'
    BY DEF Swap, LinkInv, Installed, primary, Last, Go, Try, Row, Ver, LinkTypeOK, AttemptBooks, BoxBooks, InstallWhole
<1>2. AttemptBooks'
    BY DEF Swap, LinkInv, Go, LinkTypeOK, AttemptBooks
<1>3. InstallBooks'
    BY DEF Swap, LinkInv, Installed, Linked, Go, InstallBooks
<1>4. BoxBooks'
    BY DEF Swap, LinkInv, primary, BoxBooks
<1>5. DiscardFinal'
    BY DEF Swap, LinkInv, Installed, AttemptBooks, DiscardFinal
<1>6. InstallWhole'
    BY DEF Swap, LinkInv, LinkTypeOK, AttemptBooks, InstallWhole
<1> QED BY <1>1, <1>2, <1>3, <1>4, <1>5, <1>6 DEF LinkInv

LEMMA BarKeeps ==
    ASSUME LinkInv, Bar
    PROVE  LinkInv'
<1>1. LinkTypeOK'
    BY DEF Bar, LinkInv, primary, Last, Go, LinkTypeOK
<1>2. AttemptBooks'
    BY DEF Bar, LinkInv, Linked, Go, AttemptBooks
<1>3. InstallBooks'
    BY DEF Bar, LinkInv, Linked, Go, InstallBooks
<1>4. BoxBooks'
    BY DEF Bar, LinkInv, primary, BoxBooks
<1>5. DiscardFinal'
    BY DEF Bar, LinkInv, DiscardFinal
<1>6. InstallWhole'
    BY DEF Bar, LinkInv, Linked, InstallWhole
<1> QED BY <1>1, <1>2, <1>3, <1>4, <1>5, <1>6 DEF LinkInv

LEMMA ClearIntentKeeps ==
    ASSUME LinkInv, ClearIntent
    PROVE  LinkInv'
<1>1. LinkTypeOK'
    BY LinkAssumption DEF ClearIntent, LinkInv, primary, Last, Go, LinkTypeOK
<1>2. AttemptBooks'
    BY DEF ClearIntent, LinkInv, Linked, AttemptBooks
<1>3. InstallBooks'
    BY DEF ClearIntent, LinkInv, Linked, Go, InstallBooks
<1>4. BoxBooks'
    BY DEF ClearIntent, LinkInv, primary, BoxBooks
<1>5. DiscardFinal'
    BY DEF ClearIntent, LinkInv, DiscardFinal
<1>6. InstallWhole'
    BY DEF ClearIntent, LinkInv, Linked, InstallBooks, InstallWhole
<1> QED BY <1>1, <1>2, <1>3, <1>4, <1>5, <1>6 DEF LinkInv

LEMMA FinishKeeps ==
    ASSUME LinkInv, Finish
    PROVE  LinkInv'
<1>1. LinkTypeOK'
    BY DEF Finish, LinkInv, primary, saved, Last, Go, LinkTypeOK
<1>2. AttemptBooks'
    BY DEF Finish, LinkInv, saved, LinkTypeOK, AttemptBooks
<1>3. InstallBooks'
    BY DEF Finish, LinkInv, saved, Linked, Go, InstallBooks
<1>4. BoxBooks'
    BY DEF Finish, LinkInv, primary, BoxBooks
<1>5. DiscardFinal'
    BY DEF Finish, LinkInv, saved, DiscardFinal
<1>6. InstallWhole'
    BY DEF Finish, LinkInv, saved, Linked, InstallWhole
<1> QED BY <1>1, <1>2, <1>3, <1>4, <1>5, <1>6 DEF LinkInv

LEMMA InstallFailsKeeps ==
    ASSUME LinkInv, InstallFails
    PROVE  LinkInv'
<1>1. LinkTypeOK'
    BY DEF InstallFails, LinkInv, primary, saved, Last, Go, LinkTypeOK
<1>2. AttemptBooks'
    BY DEF InstallFails, LinkInv, saved, Linked, Go, AttemptBooks
<1>3. InstallBooks'
    BY DEF InstallFails, LinkInv, saved, Linked, Go, InstallBooks
<1>4. BoxBooks'
    BY DEF InstallFails, LinkInv, primary, BoxBooks
<1>5. DiscardFinal'
    BY DEF InstallFails, LinkInv, saved, DiscardFinal
<1>6. InstallWhole'
    BY DEF InstallFails, LinkInv, saved, Linked, InstallWhole
<1> QED BY <1>1, <1>2, <1>3, <1>4, <1>5, <1>6 DEF LinkInv

LEMMA StartDiscardKeeps ==
    ASSUME LinkInv, StartDiscard
    PROVE  LinkInv'
<1>1. LinkTypeOK'
    BY DEF StartDiscard, LinkInv, MayDiscard, primary, saved, Last, LinkTypeOK
<1>2. AttemptBooks'
    BY DEF StartDiscard, LinkInv, MayDiscard, saved, Linked, AttemptBooks
<1>3. InstallBooks'
    BY DEF StartDiscard, LinkInv, MayDiscard, saved, InstallBooks
<1>4. BoxBooks'
    BY DEF StartDiscard, LinkInv, primary, BoxBooks
<1>5. DiscardFinal'
    BY DEF StartDiscard, LinkInv, saved, DiscardFinal
<1>6. InstallWhole'
    BY DEF StartDiscard, LinkInv, saved, Linked, InstallWhole
<1> QED BY <1>1, <1>2, <1>3, <1>4, <1>5, <1>6 DEF LinkInv

LEMMA DiscardKeeps ==
    ASSUME LinkInv, Discard
    PROVE  LinkInv'
<1>1. LinkTypeOK'
    <2>1. inst = "idle" /\ intent \in Try
        BY LinkAssumption DEF Discard, LinkInv, LinkTypeOK, AttemptBooks, Try
    <2>2. box' \subseteq box
        BY DEF Discard
    <2>3. discarded' \subseteq Try /\ box' \subseteq Row /\ held' \subseteq box'
        BY <2>1, <2>2 DEF Discard, LinkInv, LinkTypeOK
    <2>4. sess' \in 0..tries' /\ intent' \in 0..MaxTry /\ inst' = "idle"
        BY <2>1, LinkAssumption DEF Discard, LinkInv, LinkTypeOK
    <2> QED BY <2>3, <2>4 DEF Discard, LinkInv, LinkTypeOK, Last, primary
<1>2. AttemptBooks'
    <2>1. /\ phase' = "none" /\ sess' = 0 /\ intent' = 0 /\ inst' = inst
          /\ abort' = FALSE /\ tries' = tries
        BY DEF Discard
    <2>2. sess \in 1..tries /\ discarded \subseteq 1..tries /\ intent \in {0, sess}
        BY DEF Discard, LinkInv, LinkTypeOK, AttemptBooks
    <2>3. discarded' \subseteq 0..tries /\ inst = "idle"
        BY <2>2 DEF Discard, LinkInv, LinkTypeOK, AttemptBooks
    <2>4. intent # 0
        BY DEF Discard, LinkInv, LinkTypeOK, AttemptBooks
    <2>5. discarded' \subseteq 1..tries
        BY <2>2, <2>4 DEF Discard
    <2> QED BY <2>1, <2>3, <2>5 DEF AttemptBooks
<1>3. InstallBooks'
    BY DEF Discard, LinkInv, Linked, LinkTypeOK, InstallBooks
<1>4. BoxBooks'
    BY DEF Discard, LinkInv, primary, BoxBooks
<1>5. DiscardFinal'
    BY DEF Discard, LinkInv, LinkTypeOK, AttemptBooks, InstallBooks, DiscardFinal
<1>6. InstallWhole'
    BY DEF Discard, LinkInv, Linked, AttemptBooks, InstallWhole
<1> QED BY <1>1, <1>2, <1>3, <1>4, <1>5, <1>6 DEF LinkInv

LEMMA DiscardFailsKeeps ==
    ASSUME LinkInv, DiscardFails
    PROVE  LinkInv'
<1>1. LinkTypeOK'
    BY DEF DiscardFails, LinkInv, primary, saved, Last, LinkTypeOK
<1>2. AttemptBooks'
    BY DEF DiscardFails, LinkInv, saved, AttemptBooks
<1>3. InstallBooks'
    BY DEF DiscardFails, LinkInv, primary, saved, Linked, InstallBooks
<1>4. BoxBooks'
    BY DEF DiscardFails, LinkInv, primary, BoxBooks
<1>5. DiscardFinal'
    BY DEF DiscardFails, LinkInv, saved, DiscardFinal
<1>6. InstallWhole'
    BY DEF DiscardFails, LinkInv, saved, Linked, InstallWhole
<1> QED BY <1>1, <1>2, <1>3, <1>4, <1>5, <1>6 DEF LinkInv

LEMMA TakeListKeeps ==
    ASSUME LinkInv, NEW v \in 1..MaxList, TakeList(v)
    PROVE  LinkInv'
<1>1. LinkTypeOK'
    <2>1. v \in Ver
        BY LinkAssumption DEF Ver
    <2>2. id' \in [try : 0..MaxTry, list : Ver] /\ wiped' \in BOOLEAN
        BY <2>1 DEF TakeList, LinkInv, LinkTypeOK
    <2>3. news' \subseteq news
        BY DEF TakeList
    <2> QED BY <2>2, <2>3 DEF TakeList, LinkInv, LinkTypeOK, Last, ram
<1>2. AttemptBooks'
    BY DEF TakeList, LinkInv, ram, Linked, AttemptBooks
<1>3. InstallBooks'
    BY DEF TakeList, LinkInv, ram, Linked, LinkTypeOK, InstallBooks
<1>4. BoxBooks'
    BY DEF TakeList, LinkInv, ram, BoxBooks
<1>5. DiscardFinal'
    BY DEF TakeList, LinkInv, LinkTypeOK, DiscardFinal
<1>6. InstallWhole'
    BY DEF TakeList, LinkInv, ram, Linked, InstallWhole
<1> QED BY <1>1, <1>2, <1>3, <1>4, <1>5, <1>6 DEF LinkInv

LEMMA RebootKeeps ==
    ASSUME LinkInv, Reboot
    PROVE  LinkInv'
<1>1. LinkTypeOK'
    <2>1. intent \in 0..tries
        BY LinkAssumption DEF LinkInv, LinkTypeOK, AttemptBooks
    <2>2. Rebarred \in BOOLEAN
        BY DEF Rebarred, LinkInv, LinkTypeOK, Linked
    <2> QED BY <2>1, <2>2 DEF Reboot, LinkInv, LinkTypeOK, Last, primary
<1>2. AttemptBooks'
    BY DEF Reboot, LinkInv, AttemptBooks
<1>3. InstallBooks'
    BY DEF Reboot, LinkInv, Linked, InstallBooks
<1>4. BoxBooks'
    BY DEF Reboot, LinkInv, primary, AttemptBooks, BoxBooks
<1>5. DiscardFinal'
    BY DEF Reboot, LinkInv, DiscardFinal
<1>6. InstallWhole'
    BY DEF Reboot, Rebarred, Linked, InstallWhole
<1> QED BY <1>1, <1>2, <1>3, <1>4, <1>5, <1>6 DEF LinkInv

-----------------------------------------------------------------------------
LEMMA LinkInvInit == LinkInit => LinkInv
<1> SUFFICES ASSUME LinkInit PROVE LinkInv
    OBVIOUS
<1>1. LinkTypeOK
    <2>1. onList \in Seq(BOOLEAN) /\ Len(onList) = 1
        BY DEF LinkInit
    <2>2. grant \in [Try -> Ver] /\ copies \in [Try -> 0..MaxCopy]
        BY LinkAssumption DEF LinkInit, Ver
    <2>3. id \in [try : 0..MaxTry, list : Ver]
        BY LinkAssumption DEF LinkInit, Ver, NewId
    <2>4. /\ news = {} /\ box = {} /\ held = {} /\ discarded = {}
          /\ intent = 0 /\ tries = 0 /\ sess = 0 /\ phase = "none" /\ inst = "idle"
          /\ barred = FALSE /\ wiped = FALSE /\ stale = FALSE /\ abort = FALSE
        BY DEF LinkInit
    <2>5. onList \in Seq(BOOLEAN) /\ Last \in 1..MaxList
        BY <2>1, LinkAssumption DEF Last
    <2>6. {barred, wiped, stale, abort} \subseteq BOOLEAN
        BY <2>4
    <2>7. intent \in 0..MaxTry /\ tries \in 0..MaxTry /\ sess \in 0..tries
        BY <2>4, LinkAssumption
    <2> QED BY <2>2, <2>3, <2>4, <2>5, <2>6, <2>7 DEF LinkTypeOK
<1>2. AttemptBooks /\ InstallBooks /\ BoxBooks
    BY DEF LinkInit, AttemptBooks, InstallBooks, BoxBooks, Linked, NewId
<1>3. DiscardFinal /\ InstallWhole
    BY DEF LinkInit, DiscardFinal, InstallWhole, Linked, NewId
<1> QED BY <1>1, <1>2, <1>3 DEF LinkInv

LEMMA LinkInvNext == LinkInv /\ [LinkNext]_linkVars => LinkInv'
<1> SUFFICES ASSUME LinkInv, [LinkNext]_linkVars PROVE LinkInv'
    OBVIOUS
<1>1. ASSUME NEW t \in Try, Authorise(t) \/ Insert(t)
      PROVE  LinkInv'
    BY <1>1, AuthoriseKeeps, InsertKeeps
<1>2. ASSUME NEW on \in BOOLEAN, Change(on)
      PROVE  LinkInv'
    BY <1>2, ChangeKeeps
<1>3. CASE Join \/ Reset \/ Confirm \/ Save
    BY <1>3, JoinKeeps, ResetKeeps, ConfirmKeeps, SaveKeeps
<1>4. ASSUME NEW r \in Row, Deliver(r)
      PROVE  LinkInv'
    BY <1>4, DeliverKeeps
<1>5. CASE Install \/ InstallFails
    BY <1>5, StartInstallKeeps, CheckKeeps, SwapKeeps, BarKeeps, ClearIntentKeeps,
       FinishKeeps, InstallFailsKeeps DEF Install
<1>6. CASE StartDiscard \/ Discard \/ DiscardFails
    BY <1>6, StartDiscardKeeps, DiscardKeeps, DiscardFailsKeeps
<1>7. ASSUME NEW v \in 1..MaxList, TakeList(v)
      PROVE  LinkInv'
    BY <1>7, TakeListKeeps
<1>8. CASE Reboot
    BY <1>8, RebootKeeps
<1>9. CASE UNCHANGED linkVars
    BY <1>9 DEF linkVars, primary, saved, ram, LinkInv, LinkTypeOK, AttemptBooks, InstallBooks,
                BoxBooks, DiscardFinal, InstallWhole, Last, Linked
<1> QED BY <1>1, <1>2, <1>3, <1>4, <1>5, <1>6, <1>7, <1>8, <1>9 DEF LinkNext

(* The invariant holds in every reachable state, whatever rows are doubled or  *)
(* late and wherever the device dies.                                          *)
THEOREM LinkInvariant == LinkSpec => []LinkInv
BY LinkInvInit, LinkInvNext, PTL DEF LinkSpec

(* Every variable has its type, and memory agrees with what was saved.         *)
THEOREM LinkTypeCorrect == LinkSpec => []LinkTypeOK
<1>1. LinkInv => LinkTypeOK
    BY DEF LinkInv
<1> QED BY <1>1, LinkInvariant, PTL

(* A confirmed attempt keeps its grant until the link is durable, a discarded  *)
(* one is never installed, and the new identity is used with no old contact.   *)
THEOREM LinksAreSafe == LinkSpec => []LinkSafe
<1>1. LinkInv => LinkSafe
    <2>1. LinkInv => GrantKept
        BY LinkAssumption DEF LinkInv, AttemptBooks, BoxBooks, GrantKept, LinkTypeOK, Try
    <2> QED BY <2>1 DEF LinkInv, LinkSafe
<1> QED BY <1>1, LinkInvariant, PTL

(* A list the device has taken is never replaced by an older one.              *)
THEOREM ListsGoForward == LinkSpec => ListForward
<1>1. LinkInv /\ [LinkNext]_linkVars => [id'.list >= id.list]_linkVars
    <2> SUFFICES ASSUME LinkInv, LinkNext PROVE id'.list >= id.list
        OBVIOUS
    <2>1. id.list \in Nat
        BY LinkAssumption DEF LinkInv, LinkTypeOK, Ver
    <2>2. ASSUME NEW v \in 1..MaxList, TakeList(v)
          PROVE  id'.list >= id.list
        BY <2>1, <2>2 DEF TakeList, LinkInv, LinkTypeOK
    <2>3. CASE Swap
        <3>1. grant[sess] \in Nat
            BY <2>3, LinkAssumption DEF Swap, LinkInv, LinkTypeOK, AttemptBooks, Try, Ver
        <3> QED BY <2>1, <2>3, <3>1 DEF Swap, Installed, Linked
    <2>4. CASE id' = id
        BY <2>1, <2>4
    <2> QED BY <2>2, <2>3, <2>4
        DEF LinkNext, Install, Authorise, Insert, Change, Join, Reset, Confirm, Save,
            Deliver, StartInstall, Check, Bar, ClearIntent, Finish, InstallFails,
            StartDiscard, Discard, DiscardFails, Reboot, saved
<1> QED BY <1>1, LinkInvariant, PTL DEF LinkSpec, ListForward
=============================================================================
