-------------------------- MODULE DuressVault_proofs --------------------------
(***************************************************************************)
(* That the device can always go on, and that it implements one account    *)
(* with an indivisible promotion: for any tabs, armings, writes, deaths    *)
(* and lost header updates, if the lease of a tab that lives does not lapse *)
(* (Timely) and a lock screen has a promotion's event in time (Prompt).    *)
(***************************************************************************)
EXTENDS DuressVault, TLAPS

Ops == {"none", "finishRemoval", "finishPromotion", "fire", "arm", "remove"}
Rec == [pc : Unheld \cup Held, op : Ops, env : Env, wit : Env]

Disks ==
    /\ real \in [meta : 0..arms \cup {None, Garbage},
                 records : Content \cup {None}, rest : Content \cup {None}]
    /\ decoy \in [meta : 0..arms \cup {None},
                  records : Content \cup {None}, rest : Content \cup {None}]
    /\ armed \in BOOLEAN /\ deleting \in BOOLEAN /\ removal \in BOOLEAN
    /\ fence \in Env \cup {None}
    /\ journal \in [phase : {"none", "pending", "copied"}, env : Env]
    /\ arms \in 0..MaxArm /\ crashes \in 0..MaxCrash /\ lost \in 0..MaxLost

Tabs == lease \in Tab \cup {None} /\ tab \in [Tab -> Rec]

Copied == journal.phase = "copied"

\* IsWhole without its quantifiers.
Sound(db) ==
    /\ db.meta \in Env /\ db.records \in Content
    /\ db.rest = db.records /\ db.records.env = db.meta

\* The decoy is nothing or a whole cover, and the source of a promotion.
DecoyBooks ==
    /\ decoy = Empty \/ (Sound(decoy) /\ decoy.meta # 0)
    /\ Pending => decoy.meta = journal.env

\* The canonical account is whole but while it is being replaced.
RealBooks ==
    /\ ~Pending => Sound(real) /\ (Promoting => real.meta = journal.env)
    /\ real.records # None /\ real.rest # None => real.rest = real.records

\* Nobody shows the decoy as an account before it is promoted.
Fresh == ~Promoting => real.meta # decoy.meta
Apart ==
    /\ Fresh
    /\ \A t \in Tab : tab[t].env <= arms /\ (~Copied => tab[t].env # decoy.meta)

\* Whoever is in a mutation has the lease.
LeaseBooks == \A t \in Tab : tab[t].pc \in Held => lease = t

\* What the stage of a mutation says about the databases and the journals.
Copying == {"wipe", "clear", "copyMeta", "copyRecords", "copyRest", "assert", "mark"}
Stage(r) ==
    /\ r.pc = "wait" => r.op # "none"
    /\ r.pc \in {"neutralize", "disarm", "unmark", "provision", "flag", "bind"} =>
          ~Promoting
    /\ r.pc = "fence" \/ r.pc \in Copying => Pending /\ r.wit = journal.env
    /\ r.pc \in Copying => fence = r.wit
    /\ r.pc = "copyMeta" => real = Empty
    /\ r.pc = "copyRecords" => real = [Empty EXCEPT !.meta = decoy.meta]
    /\ r.pc = "copyRest" => real = [decoy EXCEPT !.rest = None]
    /\ r.pc \in {"assert", "mark"} => real = decoy
    /\ r.pc \in {"delete", "clearJournal"} => Copied /\ r.wit = journal.env
    /\ r.pc = "clearJournal" => decoy = Empty /\ ~deleting
    /\ r.pc = "finish" => ~Pending

Inv ==
    /\ Disks /\ Tabs /\ DecoyBooks /\ RealBooks /\ Apart /\ LeaseBooks
    /\ deleting => Copied
    /\ \A t \in Tab : Stage(tab[t])

-----------------------------------------------------------------------------
(* Facts about databases and tabs.                                         *)

LEMMA SoundIsWhole ==
    ASSUME NEW db, NEW M,
           db \in [meta : M, records : Content \cup {None}, rest : Content \cup {None}]
    PROVE  IsWhole(db) <=> Sound(db)
<1>1. ASSUME IsWhole(db) PROVE Sound(db)
  BY <1>1 DEF IsWhole, Whole, Sound, Content
<1>2. ASSUME Sound(db) PROVE IsWhole(db)
  <2>1. db.records.ver \in 0..MaxWrite /\ db.meta \in Env
    BY <1>2 DEF Sound, Content
  <2>2. db.records = [env |-> db.meta, ver |-> db.records.ver]
    BY <1>2 DEF Sound, Content
  <2>3. db = [meta |-> db.meta, records |-> db.records, rest |-> db.rest]
    OBVIOUS
  <2>4. db = Whole(db.meta, db.records.ver)
    BY <1>2, <2>2, <2>3 DEF Sound, Whole
  <2> QED
    BY <2>1, <2>4 DEF IsWhole
<1> QED
  BY <1>1, <1>2

\* None, Garbage and envelopes are told apart.
LEMMA Distinct ==
    /\ None \notin Env /\ Garbage \notin Env /\ None # Garbage
    /\ None \notin Content /\ None \notin Tab
    /\ Env \subseteq Nat /\ 0 \in Env
<1>1. None \notin Nat /\ Garbage \notin Nat /\ None # Garbage /\ None \notin Tab
  BY DuressAssumption
<1>2. Env \subseteq Nat /\ 0 \in Env
  BY DuressAssumption DEF Env
<1>3. Content \subseteq [env : Nat, ver : Nat]
  <2>1. 0..MaxWrite \subseteq Nat
    BY DuressAssumption
  <2> QED
    BY <1>2, <2>1 DEF Content
<1>4. None \notin [env : Nat, ver : Nat]
  BY DuressAssumption
<1> QED
  BY <1>1, <1>2, <1>3, <1>4


LEMMA Pcs ==
    /\ DOMAIN FirstStep = Ops \ {"none"}
    /\ Unheld \cap Held = {}
    /\ \A op \in Ops \ {"none"} :
          FirstStep[op] \in {"removal", "promote", "fire", "arm", "remove"}
<1>1. FirstStep = [finishRemoval |-> "removal", finishPromotion |-> "promote",
                   fire |-> "fire", arm |-> "arm", remove |-> "remove"]
  BY DEF FirstStep
<1>2. DOMAIN FirstStep = Ops \ {"none"}
  BY <1>1 DEF Ops
<1>3. Unheld \cap Held = {}
  BY DEF Unheld, Held
<1>4. \A op \in Ops \ {"none"} :
          FirstStep[op] \in {"removal", "promote", "fire", "arm", "remove"}
  BY <1>1 DEF Ops
<1> QED
  BY <1>2, <1>3, <1>4

\* Only one tab is in a mutation.
LEMMA Alone ==
    ASSUME Inv, NEW t \in Tab, tab[t].pc \in Held
    PROVE  lease = t /\ \A u \in Tab \ {t} : tab[u].pc \in Unheld
BY DEF Inv, LeaseBooks, Tabs, Rec

\* A tab in no mutation says nothing about the databases.
LEMMA Outside ==
    ASSUME NEW r, r.pc \in Unheld, r.pc = "wait" => r.op # "none"
    PROVE  Stage(r) /\ Stage(r)'
BY DEF Unheld, Stage, Copying

\* A step of one tab, whatever it does, when the others are in no mutation.
LEMMA OneTab ==
    ASSUME Inv, NEW t \in Tab, NEW x \in Rec,
           tab' = [tab EXCEPT ![t] = x],
           \A u \in Tab \ {t} : tab[u].pc \in Unheld,
           Disks', DecoyBooks', RealBooks', Fresh', (deleting => Copied)',
           lease' \in Tab \cup {None}, x.pc \in Held => lease' = t, Stage(x)',
           arms <= arms', x.env <= arms',
           ~Copied' => x.env # decoy'.meta
                       /\ \A u \in Tab : tab[u].env # decoy'.meta
    PROVE  Inv'
<1>1. /\ tab \in [Tab -> Rec] /\ tab'[t] = x
      /\ \A u \in Tab \ {t} : tab'[u] = tab[u]
  BY DEF Inv, Tabs
<1>2. Tabs'
  BY <1>1 DEF Tabs
<1>3. LeaseBooks'
  BY <1>1, Pcs DEF LeaseBooks
<1>4. \A u \in Tab : tab'[u].env <= arms' /\ (~Copied' => tab'[u].env # decoy'.meta)
  <2>1. \A u \in Tab : tab[u].env <= arms /\ tab[u].env \in Nat
    BY <1>1, Distinct DEF Inv, Apart, Rec
  <2>2. arms \in Nat /\ arms' \in Nat
    BY DEF Inv, Disks
  <2> QED
    BY <1>1, <2>1, <2>2
<1>5. \A u \in Tab : Stage(tab[u])'
  <2> TAKE u \in Tab
  <2>1. CASE u = t
    <3>1. Stage(x)' => Stage(tab[t])'
      BY <1>1 DEF Stage
    <3> QED
      BY <2>1, <3>1
  <2>2. CASE u # t
    <3>1. tab[u].pc \in Unheld /\ (tab[u].pc = "wait" => tab[u].op # "none")
      BY <2>2 DEF Inv, Stage
    <3>2. tab'[u] = tab[u]
      BY <1>1, <2>2
    <3> QED
      BY <3>1, <3>2 DEF Stage, Unheld, Copying
  <2> QED
    BY <2>1, <2>2
<1> QED
  BY <1>2, <1>3, <1>4, <1>5 DEF Inv, Apart

\* A step of a tab that leaves the databases and the journals alone.
LEMMA Quietly ==
    ASSUME Inv, NEW t \in Tab, NEW x \in Rec,
           UNCHANGED <<disk, marks, counts>>,
           tab' = [tab EXCEPT ![t] = x],
           lease' \in Tab \cup {None}, x.pc \in Held => lease' = t,
           \A u \in Tab \ {t} : tab[u].pc \in Held => lease' = u,
           Stage(x),
           x.env <= arms, ~Copied => x.env # decoy.meta
    PROVE  Inv'
<1>1. /\ tab \in [Tab -> Rec] /\ tab'[t] = x
      /\ \A u \in Tab \ {t} : tab'[u] = tab[u]
  BY DEF Inv, Tabs
<1>2. UNCHANGED <<real, armed, decoy, fence, deleting, journal, removal, arms, crashes, lost>>
  BY DEF disk, marks, counts
<1>3. Disks' /\ DecoyBooks' /\ RealBooks' /\ (deleting => Copied)' /\ Fresh' /\ (Copied' = Copied)
  BY <1>2 DEF Inv, Disks, DecoyBooks, RealBooks, Sound, Apart, Fresh, Copied, Pending, Promoting
<1>4. Tabs' /\ LeaseBooks'
  BY <1>1 DEF Tabs, LeaseBooks
<1>5. Apart'
  BY <1>1, <1>2, <1>3 DEF Inv, Apart
<1>6. \A u \in Tab : Stage(tab[u])'
  <2> TAKE u \in Tab
  <2>1. Stage(tab'[u])
    BY <1>1 DEF Inv
  <2> QED
    BY <1>2, <2>1 DEF Stage, Pending, Promoting, Copied
<1> QED
  BY <1>3, <1>4, <1>5, <1>6 DEF Inv

\* A step that ends outside a mutation, and shows no other account.
LEMMA Stroll ==
    ASSUME Inv, NEW t \in Tab, NEW x \in Rec,
           UNCHANGED <<disk, marks, counts>>,
           tab' = [tab EXCEPT ![t] = x],
           lease' \in Tab \cup {None},
           \A u \in Tab \ {t} : lease = u => lease' = u,
           x.pc \in Unheld, x.pc = "wait" => x.op # "none",
           x.env \in {0, tab[t].env}
    PROVE  Inv'
<1>1. Stage(x) /\ x.pc \notin Held
  BY Outside, Pcs
<1>2. \A u \in Tab \ {t} : tab[u].pc \in Held => lease' = u
  BY DEF Inv, LeaseBooks
<1>3. x.env <= arms
  BY DEF Inv, Apart, Disks
<1>4. ~Copied => x.env # decoy.meta
  BY Distinct DEF Inv, Apart, DecoyBooks, Empty
<1> QED
  BY <1>1, <1>2, <1>3, <1>4, Quietly

\* The end of a mutation, when it changes nothing else.
LEMMA LeaveRec ==
    ASSUME Inv, NEW t \in Tab, NEW next \in Unheld, Leave(t, next)
    PROVE  \E x \in Rec :
             /\ tab' = [tab EXCEPT ![t] = x]
             /\ x.pc = next /\ x.env = tab[t].env
             /\ x.op = "none"
             /\ lease' \in Tab \cup {None}
             /\ \A u \in Tab \ {t} : lease = u => lease' = u
<1> DEFINE x == [tab[t] EXCEPT !.pc = next, !.op = "none", !.wit = 0]
<1>1. tab[t] \in Rec
  BY DEF Inv, Tabs
<1>2. x \in Rec /\ x.pc = next /\ x.env = tab[t].env /\ x.op = "none"
  BY <1>1, Distinct DEF Rec, Ops
<1>3. tab' = [tab EXCEPT ![t] = x]
  BY DEF Leave
<1>4. lease' \in Tab \cup {None} /\ \A u \in Tab \ {t} : lease = u => lease' = u
  BY DEF Leave, Release, Inv, Tabs
<1> QED
  BY <1>2, <1>3, <1>4

LEMMA Ways ==
    ASSUME NEW t \in Tab
    PROVE  /\ Return(t) => \E next \in Unheld \ {"wait"} : Leave(t, next)
           /\ Throw(t) => \E next \in Unheld \ {"wait"} : Leave(t, next)
BY DEF Return, Throw, Caught, Unheld

LEMMA LeaveSafe ==
    ASSUME Inv, NEW t \in Tab, Return(t) \/ Throw(t),
           UNCHANGED <<disk, marks, counts>>
    PROVE  Inv'
<1>1. PICK next \in Unheld \ {"wait"} : Leave(t, next)
  BY Ways
<1>2. PICK x \in Rec :
             /\ tab' = [tab EXCEPT ![t] = x]
             /\ x.pc = next /\ x.env = tab[t].env
             /\ x.op = "none"
             /\ lease' \in Tab \cup {None}
             /\ \A u \in Tab \ {t} : lease = u => lease' = u
  BY <1>1, LeaveRec
<1> QED
  BY <1>1, <1>2, Stroll

\* A jump within a mutation.
LEMMA GotoRec ==
    ASSUME Inv, NEW t \in Tab, NEW pc \in Unheld \cup Held, Goto(t, pc)
    PROVE  \E x \in Rec :
             /\ tab' = [tab EXCEPT ![t] = x]
             /\ x.pc = pc /\ x.env = tab[t].env /\ x.op = tab[t].op
             /\ x.wit = tab[t].wit
<1> DEFINE x == [tab[t] EXCEPT !.pc = pc]
<1>1. tab[t] \in Rec
  BY DEF Inv, Tabs
<1>2. /\ x \in Rec
      /\ x.pc = pc /\ x.env = tab[t].env /\ x.op = tab[t].op /\ x.wit = tab[t].wit
  BY <1>1 DEF Rec
<1>3. tab' = [tab EXCEPT ![t] = x]
  BY DEF Goto
<1> QED
  BY <1>2, <1>3

LEMMA GotoSafe ==
    ASSUME Inv, NEW t \in Tab, NEW pc \in Held, Goto(t, pc),
           tab[t].pc \in Held, UNCHANGED <<disk, marks, counts, lease>>,
           \A x \in Rec : x.pc = pc /\ x.op = tab[t].op /\ x.wit = tab[t].wit
                          => Stage(x)
    PROVE  Inv'
<1>1. PICK x \in Rec :
             /\ tab' = [tab EXCEPT ![t] = x]
             /\ x.pc = pc /\ x.env = tab[t].env /\ x.op = tab[t].op
             /\ x.wit = tab[t].wit
  BY GotoRec
<1>2. lease = t /\ \A u \in Tab \ {t} : tab[u].pc \notin Held
  BY Alone, Pcs
<1>3. x.env <= arms /\ (~Copied => x.env # decoy.meta)
  BY <1>1 DEF Inv, Apart
<1> QED
  BY <1>1, <1>2, <1>3, Quietly

-----------------------------------------------------------------------------
(* Boot, the lock screen and the open account.                             *)

LEMMA BootSteps ==
    ASSUME Inv, NEW t \in Tab,
           Reopen(t) \/ Boot(t) \/ Lock(t) \/ Lockdown(t)
    PROVE  Inv'
<1>1. tab[t] \in Rec /\ Away \in Rec /\ Away.env = 0
  BY Distinct DEF Inv, Tabs, Rec, Away, Unheld, Ops
<1>2. CASE Reopen(t) \/ Lock(t) \/ Lockdown(t)
  <2>1. PICK pc \in {"boot", "locked"} :
          tab' = [tab EXCEPT ![t] = [Away EXCEPT !.pc = pc]]
    BY <1>2 DEF Reopen, Lock, Lockdown
  <2> DEFINE x == [Away EXCEPT !.pc = pc]
  <2>2. x \in Rec /\ x.pc = pc /\ x.env = 0
    BY <1>1 DEF Rec, Unheld
  <2>3. UNCHANGED <<disk, marks, counts, lease>>
    BY <1>2 DEF Reopen, Lock, Lockdown
  <2>4. lease' \in Tab \cup {None} /\ \A u \in Tab \ {t} : lease = u => lease' = u
    BY <2>3 DEF Inv, Tabs
  <2>5. tab' = [tab EXCEPT ![t] = x] /\ x.pc \in Unheld /\ x.pc # "wait"
    BY <2>1, <2>2 DEF Unheld
  <2> HIDE DEF x
  <2> QED
    BY <2>2, <2>3, <2>4, <2>5, Stroll
<1>3. CASE Boot(t)
  <2>1. PICK pc \in {"checkPromotion", "locked", "wait"}, op \in Ops :
          /\ tab' = [tab EXCEPT ![t] = [tab[t] EXCEPT !.pc = pc, !.op = op]]
          /\ pc = "wait" => op # "none"
    <3>1. CASE BootRemoval(t) /\ removal
      BY <3>1 DEF BootRemoval, Ops
    <3>2. CASE BootPromotion(t) /\ Promoting
      BY <3>2 DEF BootPromotion, Ops
    <3>3. CASE BootRemoval(t) /\ ~removal
      <4>1. tab' = [tab EXCEPT ![t] = [tab[t] EXCEPT !.pc = "checkPromotion", !.op = tab[t].op]]
        BY <3>3, <1>1 DEF BootRemoval, Rec
      <4> QED
        BY <1>1, <4>1 DEF Rec
    <3>4. CASE BootPromotion(t) /\ ~Promoting
      <4>1. tab' = [tab EXCEPT ![t] = [tab[t] EXCEPT !.pc = "locked", !.op = tab[t].op]]
        BY <3>4, <1>1 DEF BootPromotion, Rec
      <4> QED
        BY <1>1, <4>1 DEF Rec
    <3> QED
      BY <1>3, <3>1, <3>2, <3>3, <3>4 DEF Boot
  <2> DEFINE x == [tab[t] EXCEPT !.pc = pc, !.op = op]
  <2>2. x \in Rec /\ x.pc = pc /\ x.op = op /\ x.env = tab[t].env
    BY <1>1 DEF Rec, Unheld
  <2>3. UNCHANGED <<disk, marks, counts, lease>>
    BY <1>3 DEF Boot, BootRemoval, BootPromotion
  <2>4. lease' \in Tab \cup {None} /\ \A u \in Tab \ {t} : lease = u => lease' = u
    BY <2>3 DEF Inv, Tabs
  <2>5. x.pc \in Unheld /\ (x.pc = "wait" => x.op # "none") /\ tab' = [tab EXCEPT ![t] = x]
    BY <2>1, <2>2 DEF Unheld
  <2> HIDE DEF x
  <2> QED
    BY <2>2, <2>3, <2>4, <2>5, Stroll
<1> QED
  BY <1>2, <1>3

LEMMA UnlockSafe ==
    ASSUME Inv, Prompt = TRUE, NEW t \in Tab, Unlock(t)
    PROVE  Inv'
<1> DEFINE x == [tab[t] EXCEPT !.pc = "open", !.env = real.meta]
<1>1. Sound(real) /\ real.meta <= arms
  <2>1. Sound(real)
    BY SoundIsWhole DEF Unlock, Inv, Disks
  <2> QED
    BY <2>1, Distinct DEF Inv, Disks, Sound
<1>2. tab[t] \in Rec
  BY DEF Inv, Tabs
<1>3. x \in Rec /\ x.pc = "open" /\ x.env = real.meta
  BY <1>1, <1>2 DEF Rec, Unheld, Sound
<1>4. ~Copied => real.meta # decoy.meta
  BY DEF Inv, Apart, Fresh, Copied, Promoting, Pending, DecoyBooks, Unlock, Disks
<1>5. /\ UNCHANGED <<disk, marks, counts, lease>>
      /\ tab' = [tab EXCEPT ![t] = x]
  BY DEF Unlock
<1>6. Stage(x) /\ x.pc \notin Held
  BY <1>3 DEF Stage, Copying, Held
<1>7. lease' \in Tab \cup {None} /\ \A u \in Tab \ {t} : tab[u].pc \in Held => lease' = u
  BY <1>5 DEF Inv, Tabs, LeaseBooks
<1> HIDE DEF x
<1> QED
  BY <1>1, <1>3, <1>4, <1>5, <1>6, <1>7, Quietly

LEMMA OpenSteps ==
    ASSUME Inv, NEW t \in Tab,
           TypeDuress(t) \/ StartArm(t) \/ StartRemove(t)
           \/ EnterDecoy(t) \/ ExitDecoy(t)
    PROVE  Inv'
<1>1. tab[t] \in Rec
  BY DEF Inv, Tabs
<1>2. PICK pc \in {"wait", "populate", "open"}, op \in Ops, wit \in Env :
         /\ tab' = [tab EXCEPT ![t] = [tab[t] EXCEPT !.pc = pc, !.op = op, !.wit = wit]]
         /\ pc = "wait" => op # "none"
  <2>1. TypeDuress(t) \/ EnterDecoy(t) => decoy.meta \in Env
    BY SoundIsWhole DEF TypeDuress, EnterDecoy, Inv, Disks, Sound
  <2>2. CASE TypeDuress(t)
    BY <2>1, <2>2 DEF TypeDuress, Ops
  <2>3. CASE StartArm(t)
    <3>1. tab' = [tab EXCEPT ![t] = [tab[t] EXCEPT !.pc = "wait", !.op = "arm", !.wit = tab[t].wit]]
      BY <1>1, <2>3 DEF StartArm, Rec
    <3> QED
      BY <1>1, <3>1 DEF Rec, Ops
  <2>4. CASE StartRemove(t)
    <3>1. tab' = [tab EXCEPT ![t] = [tab[t] EXCEPT !.pc = "wait", !.op = "remove", !.wit = tab[t].wit]]
      BY <1>1, <2>4 DEF StartRemove, Rec
    <3> QED
      BY <1>1, <3>1 DEF Rec, Ops
  <2>5. CASE EnterDecoy(t)
    <3>1. tab' = [tab EXCEPT ![t] = [tab[t] EXCEPT !.pc = "populate", !.op = tab[t].op, !.wit = decoy.meta]]
      BY <1>1, <2>5 DEF EnterDecoy, Rec
    <3> QED
      BY <1>1, <2>1, <2>5, <3>1 DEF Rec
  <2>6. CASE ExitDecoy(t)
    <3>1. tab' = [tab EXCEPT ![t] = [tab[t] EXCEPT !.pc = "open", !.op = tab[t].op, !.wit = 0]]
      BY <1>1, <2>6 DEF ExitDecoy, Rec
    <3> QED
      BY <1>1, <3>1, Distinct DEF Rec
  <2> QED
    BY <2>2, <2>3, <2>4, <2>5, <2>6
<1> DEFINE x == [tab[t] EXCEPT !.pc = pc, !.op = op, !.wit = wit]
<1>3. x \in Rec /\ x.pc = pc /\ x.op = op /\ x.env = tab[t].env
  BY <1>1 DEF Rec, Unheld
<1>4. UNCHANGED <<disk, marks, counts, lease>>
  BY DEF TypeDuress, StartArm, StartRemove, EnterDecoy, ExitDecoy
<1>5. lease' \in Tab \cup {None} /\ \A u \in Tab \ {t} : lease = u => lease' = u
  BY <1>4 DEF Inv, Tabs
<1>6. x.pc \in Unheld /\ (x.pc = "wait" => x.op # "none") /\ tab' = [tab EXCEPT ![t] = x]
  BY <1>2, <1>3 DEF Unheld
<1> HIDE DEF x
<1> QED
  BY <1>3, <1>4, <1>5, <1>6, Stroll

-----------------------------------------------------------------------------
(* The mutation lease.                                                     *)

LEMMA AcquireSafe ==
    ASSUME Inv, NEW t \in Tab, Acquire(t)
    PROVE  Inv'
<1>1. tab[t] \in Rec /\ tab[t].op \in Ops \ {"none"}
  BY DEF Inv, Tabs, Stage, Acquire, At, Rec
<1>2. PICK pc \in {"removal", "promote", "fire", "arm", "remove"} : Goto(t, pc)
  BY <1>1, Pcs DEF Acquire
<1>3. pc \in Unheld \cup Held
  BY DEF Held
<1>4. PICK x \in Rec :
             /\ tab' = [tab EXCEPT ![t] = x]
             /\ x.pc = pc /\ x.env = tab[t].env /\ x.op = tab[t].op
             /\ x.wit = tab[t].wit
  BY <1>2, <1>3, GotoRec
<1>5. Stage(x)
  BY <1>4 DEF Stage, Copying
<1>6. \A u \in Tab : tab[u].pc \notin Held
  BY Distinct DEF Acquire, Inv, LeaseBooks
<1>7. x.env <= arms /\ (~Copied => x.env # decoy.meta)
  BY <1>4 DEF Inv, Apart
<1>8. lease' = t /\ UNCHANGED <<disk, marks, counts>>
  BY DEF Acquire
<1> QED
  BY <1>4, <1>5, <1>6, <1>7, <1>8, Quietly

LEMMA GiveUpSafe ==
    ASSUME Inv, NEW t \in Tab, GiveUp(t)
    PROVE  Inv'
BY LeaveSafe DEF GiveUp

LEMMA LapseSafe ==
    ASSUME Inv, Timely = TRUE, LeaseLapses
    PROVE  Inv'
<1>1. UNCHANGED <<real, armed, decoy, fence, deleting, journal, removal, tab, arms, crashes, lost>>
  BY DEF LeaseLapses, disk, marks, counts
<1>2. lease \in Tab /\ lease' = None /\ tab[lease].pc \notin Held
  BY DEF LeaseLapses, Inv, Tabs
<1>3. Tabs' /\ LeaseBooks'
  BY <1>1, <1>2 DEF Inv, Tabs, LeaseBooks
<1>4. /\ Disks' /\ DecoyBooks' /\ RealBooks' /\ Apart'
      /\ (deleting => Copied)' /\ (\A u \in Tab : Stage(tab[u]))'
  BY <1>1 DEF Inv, Disks, DecoyBooks, RealBooks, Sound, Apart, Fresh, Copied,
              Pending, Promoting, Stage
<1> QED
  BY <1>3, <1>4 DEF Inv

-----------------------------------------------------------------------------
(* Removal and arming.                                                     *)

LEMMA Envelopes ==
    ASSUME Inv
    PROVE  /\ arms \in Nat
           /\ \A u \in Tab : /\ tab[u].env \in Nat /\ tab[u].env <= arms
                             /\ tab[u].env # None
<1>1. arms \in Nat
  BY DuressAssumption DEF Inv, Disks
<1>2. ASSUME NEW u \in Tab
      PROVE  tab[u].env \in Nat /\ tab[u].env <= arms /\ tab[u].env # None
  <2>1. tab[u].env \in Env
    BY DEF Inv, Tabs, Rec
  <2> QED
    BY <2>1, Distinct DEF Inv, Apart
<1> QED
  BY <1>1, <1>2

LEMMA MutationGoto ==
    ASSUME Inv, NEW t \in Tab, tab[t].pc \in Held,
           NEW pc \in Held, Goto(t, pc), UNCHANGED lease,
           Disks', DecoyBooks', RealBooks', Fresh', (deleting => Copied)',
           arms <= arms',
           ~Copied' => \/ decoy'.meta = None
                       \/ ~Copied /\ decoy'.meta = decoy.meta
                       \/ decoy'.meta = arms + 1,
           \A x \in Rec : x.pc = pc /\ x.wit = tab[t].wit => Stage(x)'
    PROVE  Inv'
<1>1. PICK x \in Rec :
             /\ tab' = [tab EXCEPT ![t] = x]
             /\ x.pc = pc /\ x.env = tab[t].env /\ x.op = tab[t].op
             /\ x.wit = tab[t].wit
  BY GotoRec
<1>2. lease = t /\ \A u \in Tab \ {t} : tab[u].pc \in Unheld
  BY Alone
<1>3. Stage(x)'
  BY <1>1
<1>4. arms' \in Nat
  BY DuressAssumption DEF Disks
<1>5. x.env <= arms'
  BY <1>1, <1>4, Envelopes
<1>6. ~Copied' => \A u \in Tab : tab[u].env # decoy'.meta
  BY Envelopes DEF Inv, Apart
<1> QED
  BY <1>1, <1>2, <1>3, <1>5, <1>6, OneTab

LEMMA MutationLeave ==
    ASSUME Inv, NEW t \in Tab, tab[t].pc \in Held,
           Return(t) \/ Throw(t),
           Disks', DecoyBooks', RealBooks', Fresh', (deleting => Copied)',
           UNCHANGED arms,
           ~Copied' => \/ decoy'.meta = None
                       \/ ~Copied /\ decoy'.meta = decoy.meta
    PROVE  Inv'
<1>1. PICK next \in Unheld \ {"wait"} : Leave(t, next)
  BY Ways
<1>2. PICK x \in Rec :
             /\ tab' = [tab EXCEPT ![t] = x]
             /\ x.pc = next /\ x.env = tab[t].env
             /\ x.op = "none"
             /\ lease' \in Tab \cup {None}
             /\ \A u \in Tab \ {t} : lease = u => lease' = u
  BY <1>1, LeaveRec
<1>3. \A u \in Tab \ {t} : tab[u].pc \in Unheld
  BY Alone
<1>4. Stage(x)' /\ x.pc \notin Held
  BY <1>1, <1>2, Outside, Pcs
<1>5. arms <= arms' /\ x.env <= arms'
  BY <1>2, Envelopes
<1>6. ~Copied' => \A u \in Tab : tab[u].env # decoy'.meta
  BY Envelopes DEF Inv, Apart
<1> QED
  BY <1>2, <1>3, <1>4, <1>5, <1>6, OneTab

\* What a step that leaves the databases and the journal of a promotion alone
\* keeps.
LEMMA Untouched ==
    ASSUME Inv, UNCHANGED <<real, decoy, fence, deleting, journal, arms>>,
           armed' \in BOOLEAN, removal' \in BOOLEAN, crashes' \in 0..MaxCrash,
           lost' \in 0..MaxLost
    PROVE  /\ Disks' /\ DecoyBooks' /\ RealBooks' /\ Fresh' /\ (deleting => Copied)'
           /\ arms <= arms' /\ Copied' = Copied /\ decoy'.meta = decoy.meta
           /\ Pending' = Pending /\ Promoting' = Promoting
BY DEF Inv, Disks, DecoyBooks, RealBooks, Sound, Apart, Fresh, Copied, Pending, Promoting

\* The stages of a mutation that no promotion is open in.
Early == {"neutralize", "disarm", "unmark", "provision", "flag", "bind"}

LEMMA Calm ==
    ASSUME Inv, NEW t \in Tab, tab[t].pc \in Early
    PROVE  /\ tab[t].pc \in Held /\ ~Promoting /\ ~Pending /\ ~Copied /\ ~deleting
           /\ Sound(real) /\ real.meta \in 0..arms
<1>1. tab[t].pc \in Held /\ ~Promoting
  BY DEF Inv, Stage, Early, Held
<1>2. ~Pending /\ ~Copied
  BY <1>1 DEF Promoting, Pending, Copied
<1>3. Sound(real)
  BY <1>2 DEF Inv, RealBooks
<1>4. real.meta \in 0..arms
  BY <1>3, Distinct DEF Inv, Disks, Sound
<1> QED
  BY <1>1, <1>2, <1>3, <1>4 DEF Inv

\* ... and the one they go on to: it says no more than that.
LEMMA EarlyStage ==
    ASSUME NEW x, x.pc \in Early, ~Promoting'
    PROVE  Stage(x)'
BY DEF Early, Stage, Copying

LEMMA RemovalSafe ==
    ASSUME Inv, NEW t \in Tab, Removal(t)
    PROVE  Inv'
<1>1. CASE removal /\ ~Promoting
  <2>1. Goto(t, "neutralize") /\ UNCHANGED <<disk, marks, counts, lease>>
    BY <1>1 DEF Removal
  <2>2. tab[t].pc \in Held /\ "neutralize" \in Held
    BY DEF Removal, At, Held
  <2>3. \A x \in Rec : x.pc = "neutralize" => Stage(x)
    BY <1>1 DEF Stage, Copying
  <2> QED
    BY <2>1, <2>2, <2>3, GotoSafe
<1>2. CASE ~(removal /\ ~Promoting)
  BY <1>2, LeaveSafe DEF Removal
<1> QED
  BY <1>1, <1>2

LEMMA RemoveSafe ==
    ASSUME Inv, NEW t \in Tab, Remove(t)
    PROVE  Inv'
<1>1. CASE Throw(t) /\ UNCHANGED removal
  BY <1>1, LeaveSafe DEF Remove, marks
<1>2. CASE ~Promoting /\ removal' = TRUE /\ Goto(t, "neutralize") /\ UNCHANGED lease
  <2>1. tab[t].pc \in Held /\ "neutralize" \in Held /\ "neutralize" \in Early
    BY DEF Remove, At, Held, Early
  <2>2. UNCHANGED <<real, armed, decoy, fence, deleting, journal, arms, crashes, lost>>
    BY DEF Remove, disk, counts
  <2>3. /\ Disks' /\ DecoyBooks' /\ RealBooks' /\ Fresh' /\ (deleting => Copied)'
        /\ arms <= arms' /\ Copied' = Copied /\ decoy'.meta = decoy.meta
        /\ Promoting' = Promoting
    BY <1>2, <2>2, Untouched DEF Inv, Disks
  <2>4. \A x \in Rec : x.pc = "neutralize" => Stage(x)'
    BY <1>2, <2>1, <2>3, EarlyStage
  <2> QED
    BY <1>2, <2>1, <2>3, <2>4, MutationGoto
<1> QED
  BY <1>1, <1>2 DEF Remove

LEMMA NeutralizeSafe ==
    ASSUME Inv, NEW t \in Tab, Neutralize(t)
    PROVE  Inv'
<1>1. tab[t].pc \in Early /\ "disarm" \in Held /\ "disarm" \in Early
  BY DEF Neutralize, At, Early, Held
<1>2. /\ tab[t].pc \in Held /\ ~Promoting /\ ~Pending /\ ~Copied /\ ~deleting
      /\ Sound(real) /\ real.meta \in 0..arms
  BY <1>1, Calm
<1>3. /\ decoy' = Empty /\ fence' = None /\ Goto(t, "disarm")
      /\ UNCHANGED <<real, armed, deleting, journal, removal, lease, arms, crashes, lost>>
  BY DEF Neutralize, marks, counts
<1>4. Promoting' = Promoting /\ Pending' = Pending /\ Copied' = Copied
  BY <1>3 DEF Promoting, Pending, Copied
<1>5. Disks' /\ arms <= arms'
  BY <1>3 DEF Inv, Disks, Empty
<1>6. DecoyBooks' /\ RealBooks' /\ (deleting => Copied)'
  BY <1>2, <1>3, <1>4 DEF DecoyBooks, RealBooks, Sound, Inv
<1>7. Fresh' /\ decoy'.meta = None
  BY <1>2, <1>3, Distinct DEF Fresh, Empty, Sound
<1>8. \A x \in Rec : x.pc = "disarm" => Stage(x)'
  BY <1>1, <1>2, <1>4, EarlyStage
<1> QED
  BY <1>1, <1>2, <1>3, <1>5, <1>6, <1>7, <1>8, MutationGoto

LEMMA DisarmSafe ==
    ASSUME Inv, NEW t \in Tab, Disarm(t)
    PROVE  Inv'
<1>1. tab[t].pc \in Early /\ "unmark" \in Held /\ "unmark" \in Early
  BY DEF Disarm, At, Early, Held
<1>2. tab[t].pc \in Held /\ ~Promoting /\ ~Copied
  BY <1>1, Calm
<1>3. /\ UNCHANGED <<real, decoy, fence, deleting, journal, removal, arms, crashes>>
      /\ armed' \in BOOLEAN /\ lost' \in 0..MaxLost
  <2>1. /\ armed \in BOOLEAN /\ lost \in 0..MaxLost
        /\ lost < MaxLost => lost + 1 \in 0..MaxLost
    BY DuressAssumption DEF Inv, Disks
  <2> QED
    BY <2>1 DEF Disarm, marks
<1>4. /\ Disks' /\ DecoyBooks' /\ RealBooks' /\ Fresh' /\ (deleting => Copied)'
      /\ arms <= arms' /\ Copied' = Copied /\ decoy'.meta = decoy.meta
      /\ Promoting' = Promoting
  BY <1>3, Untouched DEF Inv, Disks
<1>5. CASE Goto(t, "unmark") /\ UNCHANGED lease
  <2>1. \A x \in Rec : x.pc = "unmark" => Stage(x)'
    BY <1>1, <1>2, <1>4, EarlyStage
  <2> QED
    BY <1>1, <1>2, <1>4, <1>5, <2>1, MutationGoto
<1>6. CASE Throw(t)
  BY <1>2, <1>3, <1>4, <1>6, MutationLeave
<1> QED
  BY <1>5, <1>6 DEF Disarm

LEMMA UnmarkSafe ==
    ASSUME Inv, NEW t \in Tab, Unmark(t)
    PROVE  Inv'
<1>1. tab[t].pc \in Early /\ "provision" \in Held /\ "provision" \in Early
  BY DEF Unmark, At, Early, Held
<1>2. tab[t].pc \in Held /\ ~Promoting /\ ~Copied
  BY <1>1, Calm
<1>3. UNCHANGED <<real, armed, decoy, fence, deleting, journal, arms, crashes, lost>>
      /\ removal' \in BOOLEAN
  BY DEF Unmark, disk, counts
<1>4. /\ Disks' /\ DecoyBooks' /\ RealBooks' /\ Fresh' /\ (deleting => Copied)'
      /\ arms <= arms' /\ Copied' = Copied /\ decoy'.meta = decoy.meta
      /\ Promoting' = Promoting
  BY <1>3, Untouched DEF Inv, Disks
<1>5. CASE Goto(t, "provision") /\ UNCHANGED lease
  <2>1. \A x \in Rec : x.pc = "provision" => Stage(x)'
    BY <1>1, <1>2, <1>4, EarlyStage
  <2> QED
    BY <1>1, <1>2, <1>4, <1>5, <2>1, MutationGoto
<1>6. CASE Return(t)
  BY <1>2, <1>3, <1>4, <1>6, MutationLeave
<1> QED
  BY <1>5, <1>6 DEF Unmark

LEMMA ArmSafe ==
    ASSUME Inv, NEW t \in Tab, Arm(t)
    PROVE  Inv'
<1>1. CASE Promoting
  BY <1>1, LeaveSafe DEF Arm
<1>2. CASE ~Promoting
  <2>1. PICK pc \in {"neutralize", "provision"} : Goto(t, pc)
    BY <1>2 DEF Arm
  <2>2. UNCHANGED <<disk, marks, counts, lease>>
    BY <1>2 DEF Arm
  <2>3. tab[t].pc \in Held /\ pc \in Held
    BY DEF Arm, At, Held
  <2>4. \A x \in Rec : x.pc = pc => Stage(x)
    BY <1>2 DEF Stage, Copying
  <2> QED
    BY <2>1, <2>2, <2>3, <2>4, GotoSafe
<1> QED
  BY <1>1, <1>2

LEMMA ProvisionSafe ==
    ASSUME Inv, NEW t \in Tab, Provision(t)
    PROVE  Inv'
<1>1. tab[t].pc \in Early /\ "flag" \in Held /\ "flag" \in Early
  BY DEF Provision, At, Early, Held
<1>2. /\ tab[t].pc \in Held /\ ~Promoting /\ ~Pending /\ ~Copied /\ ~deleting
      /\ Sound(real) /\ real.meta \in 0..arms
  BY <1>1, Calm
<1>3. UNCHANGED <<real, armed, deleting, journal, removal, crashes, lost>>
  BY DEF Provision, marks
<1>4. Promoting' = Promoting /\ Pending' = Pending /\ Copied' = Copied
  BY <1>3 DEF Promoting, Pending, Copied
<1>5. CASE Throw(t) /\ UNCHANGED <<decoy, fence, arms>>
  <2>1. UNCHANGED <<disk, marks, counts>>
    BY <1>3, <1>5 DEF disk, marks, counts
  <2> QED
    BY <1>5, <2>1, LeaveSafe
<1>6. CASE /\ arms < MaxArm /\ arms' = arms + 1
           /\ decoy' = Whole(arms + 1, 0) /\ fence' = None
           /\ Goto(t, "flag") /\ UNCHANGED lease
  <2>1. arms \in Nat /\ MaxArm \in Nat /\ arms' \in Env /\ arms' = arms + 1
    BY <1>6, DuressAssumption DEF Inv, Disks, Env
  <2>2. [env |-> arms + 1, ver |-> 0] \in Content
    BY <2>1, DuressAssumption DEF Content
  <2>3. Sound(decoy') /\ decoy'.meta = arms + 1
    BY <1>6, <2>1, <2>2 DEF Sound, Whole
  <2>4. /\ real' \in [meta : 0..arms' \cup {None, Garbage},
                      records : Content \cup {None}, rest : Content \cup {None}]
        /\ decoy' \in [meta : 0..arms' \cup {None},
                       records : Content \cup {None}, rest : Content \cup {None}]
    BY <1>3, <1>6, <2>1, <2>2 DEF Inv, Disks, Whole
  <2>5. Disks' /\ arms <= arms'
    BY <1>3, <1>6, <2>1, <2>4 DEF Inv, Disks, Env
  <2>6. DecoyBooks' /\ RealBooks' /\ (deleting => Copied)'
    BY <1>2, <1>3, <1>4, <2>1, <2>3 DEF DecoyBooks, RealBooks, Sound, Inv
  <2>7. Fresh'
    BY <1>2, <1>3, <2>1, <2>3 DEF Fresh
  <2>8. \A x \in Rec : x.pc = "flag" => Stage(x)'
    BY <1>1, <1>2, <1>4, EarlyStage
  <2> QED
    BY <1>1, <1>2, <1>6, <2>3, <2>5, <2>6, <2>7, <2>8, MutationGoto
<1> QED
  BY <1>5, <1>6 DEF Provision

LEMMA FlagSafe ==
    ASSUME Inv, NEW t \in Tab, Flag(t)
    PROVE  Inv'
<1>1. tab[t].pc \in Early
  BY DEF Flag, At, Early
<1>2. /\ tab[t].pc \in Held /\ ~Promoting /\ ~Pending /\ ~Copied /\ ~deleting
      /\ Sound(real) /\ real.meta \in 0..arms
  BY <1>1, Calm
<1>3. UNCHANGED <<real, deleting, journal, removal, arms, crashes>>
  BY DEF Flag, marks
<1>4. CASE armed' = TRUE /\ Return(t) /\ UNCHANGED <<decoy, fence, lost>>
  <2>1. /\ Disks' /\ DecoyBooks' /\ RealBooks' /\ Fresh' /\ (deleting => Copied)'
        /\ Copied' = Copied /\ decoy'.meta = decoy.meta
    BY <1>3, <1>4, Untouched DEF Inv, Disks
  <2> QED
    BY <1>2, <1>3, <1>4, <2>1, MutationLeave
<1>5. CASE /\ real.meta # tab[t].env \/ lost < MaxLost
           /\ lost' = IF real.meta = tab[t].env THEN lost + 1 ELSE lost
           /\ decoy' = Empty /\ fence' = None /\ Throw(t) /\ UNCHANGED armed
  <2>1. Promoting' = Promoting /\ Pending' = Pending /\ Copied' = Copied
    BY <1>3 DEF Promoting, Pending, Copied
  <2>2. lost' \in 0..MaxLost
    BY <1>5, DuressAssumption DEF Inv, Disks
  <2>3. Disks'
    BY <1>3, <1>5, <2>2 DEF Inv, Disks, Empty
  <2>4. DecoyBooks' /\ RealBooks' /\ (deleting => Copied)'
    BY <1>2, <1>3, <1>5, <2>1 DEF DecoyBooks, RealBooks, Sound, Inv
  <2>5. Fresh' /\ decoy'.meta = None
    BY <1>2, <1>3, <1>5, Distinct DEF Fresh, Empty, Sound
  <2> QED
    BY <1>2, <1>3, <1>5, <2>3, <2>4, <2>5, MutationLeave
<1> QED
  BY <1>4, <1>5 DEF Flag

-----------------------------------------------------------------------------
(* Firing and promotion.                                                   *)

LEMMA FireSafe ==
    ASSUME Inv, NEW t \in Tab, Fire(t)
    PROVE  Inv'
<1>1. tab[t].pc \in Held /\ removal' = FALSE
      /\ UNCHANGED <<real, armed, decoy, fence, deleting, journal, arms, crashes, lost>>
  BY DEF Fire, At, Held, disk, counts
<1>2. /\ Disks' /\ DecoyBooks' /\ RealBooks' /\ Fresh' /\ (deleting => Copied)'
      /\ arms <= arms' /\ Copied' = Copied /\ decoy'.meta = decoy.meta
      /\ Promoting' = Promoting
  BY <1>1, Untouched DEF Inv, Disks
<1>3. CASE Throw(t)
  BY <1>1, <1>2, <1>3, MutationLeave
<1>4. CASE ~Throw(t)
  <2>1. PICK pc \in {"promote", "bind"} :
          Goto(t, pc) /\ UNCHANGED lease /\ (pc = "bind" => ~Promoting)
    BY <1>4 DEF Fire
  <2>2. \A x \in Rec : x.pc = pc => Stage(x)'
    BY <1>2, <2>1 DEF Stage, Copying
  <2> QED
    BY <1>1, <1>2, <2>1, <2>2, MutationGoto DEF Held
<1> QED
  BY <1>3, <1>4

LEMMA BindSafe ==
    ASSUME Inv, NEW t \in Tab, Bind(t)
    PROVE  Inv'
<1>1. tab[t].pc \in Early
  BY DEF Bind, At, Early
<1>2. /\ tab[t].pc \in Held /\ ~Promoting /\ ~Pending /\ ~Copied /\ ~deleting
      /\ Sound(real) /\ real.meta \in 0..arms
  BY <1>1, Calm
<1>3. CASE Throw(t) /\ UNCHANGED journal
  <2>1. UNCHANGED <<disk, marks, counts>>
    BY <1>3 DEF Bind, marks
  <2> QED
    BY <1>3, <2>1, LeaveSafe
<1>4. CASE /\ decoy.meta = tab[t].wit
           /\ journal' = [phase |-> "pending", env |-> tab[t].wit]
           /\ Goto(t, "promote") /\ UNCHANGED lease
  <2>1. UNCHANGED <<real, armed, decoy, fence, deleting, removal, arms, crashes, lost>>
    BY DEF Bind, disk, counts
  <2>2. tab[t].wit \in Env
    BY DEF Inv, Tabs, Rec
  <2>3. journal'.phase = "pending" /\ journal'.env = tab[t].wit
        /\ journal' \in [phase : {"none", "pending", "copied"}, env : Env]
    BY <1>4, <2>2
  <2>4. Pending' /\ Promoting' /\ ~Copied'
    BY <2>3 DEF Pending, Promoting, Copied
  <2>5. Disks' /\ arms <= arms'
    BY <2>1, <2>3, Envelopes DEF Inv, Disks
  <2>6. DecoyBooks' /\ RealBooks' /\ Fresh' /\ (deleting => Copied)'
    BY <1>2, <1>4, <2>1, <2>3, <2>4 DEF DecoyBooks, RealBooks, Fresh, Sound, Inv
  <2>7. \A x \in Rec : x.pc = "promote" => Stage(x)'
    BY DEF Stage, Copying
  <2> QED
    BY <1>2, <1>4, <2>1, <2>5, <2>6, <2>7, MutationGoto DEF Held
<1> QED
  BY <1>3, <1>4 DEF Bind

LEMMA PromoteSafe ==
    ASSUME Inv, NEW t \in Tab, Promote(t)
    PROVE  Inv'
<1>1. tab[t].pc \in Held /\ tab[t] \in Rec
  BY DEF Promote, At, Held, Inv, Tabs
<1>2. UNCHANGED <<real, armed, decoy, fence, deleting, journal, arms, crashes, lost>>
      /\ removal' \in BOOLEAN
  BY DEF Promote, disk, counts
<1>3. /\ Disks' /\ DecoyBooks' /\ RealBooks' /\ Fresh' /\ (deleting => Copied)'
      /\ arms <= arms' /\ Copied' = Copied /\ decoy'.meta = decoy.meta
      /\ Pending' = Pending /\ Promoting' = Promoting
  BY <1>2, Untouched DEF Inv, Disks
<1>4. CASE Promoting
  <2>1. PICK pc \in {"fence", "delete"} :
          /\ tab' = [tab EXCEPT ![t].wit = journal.env, ![t].pc = pc]
          /\ UNCHANGED lease
          /\ IF journal.phase = "pending" THEN pc = "fence" ELSE pc = "delete"
    BY <1>4 DEF Promote
  <2>2. journal \in [phase : {"none", "pending", "copied"}, env : Env]
    BY DEF Inv, Disks
  <2>3. [tab[t] EXCEPT !.wit = journal.env, !.pc = pc] \in Rec
    BY <1>1, <2>2 DEF Rec, Held
  <2>4. PICK x \in Rec : /\ tab' = [tab EXCEPT ![t] = x]
                        /\ x.pc = pc /\ x.wit = journal.env /\ x.env = tab[t].env
    <3>1. tab' = [tab EXCEPT ![t] = [tab[t] EXCEPT !.wit = journal.env, !.pc = pc]]
      BY <2>1 DEF Inv, Tabs
    <3> DEFINE y == [tab[t] EXCEPT !.wit = journal.env, !.pc = pc]
    <3>2. y.pc = pc /\ y.wit = journal.env /\ y.env = tab[t].env
      BY <1>1 DEF Rec
    <3> QED
      BY <2>3, <3>1, <3>2
  <2>5. pc = "fence" => Pending'
    BY <1>2, <2>1 DEF Pending
  <2>6. pc = "delete" => Copied'
    BY <1>2, <1>4, <2>1, <2>2 DEF Copied, Promoting
  <2>7. Stage(x)'
    <3>1. x.wit = journal'.env /\ x.pc \in {"fence", "delete"}
      BY <1>2, <2>4
    <3>2. (x.pc = "fence" => Pending') /\ (x.pc = "delete" => Copied')
      BY <2>4, <2>5, <2>6
    <3> QED
      BY <3>1, <3>2 DEF Stage, Copying
  <2>8. lease' = t /\ \A u \in Tab \ {t} : tab[u].pc \in Unheld
    BY <1>1, <2>1, Alone
  <2>9. x.env <= arms' /\ arms <= arms' /\ lease' \in Tab \cup {None}
    BY <1>2, <2>4, <2>8, Envelopes
  <2>10. ~Copied' => /\ x.env # decoy'.meta
                     /\ \A u \in Tab : tab[u].env # decoy'.meta
    BY <1>2, <1>3, <2>4 DEF Inv, Apart
  <2>11. Disks' /\ DecoyBooks' /\ RealBooks' /\ Fresh' /\ (deleting => Copied)'
    BY <1>3
  <2>12. x.pc \in Held => lease' = t
    BY <2>8
  <2> QED
    BY <2>4, <2>4, <2>7, <2>8, <2>9, <2>10, <2>11, <2>12, OneTab
<1>5. CASE ~Promoting
  <2>1. CASE Return(t)
    BY <1>1, <1>2, <1>3, <2>1, MutationLeave
  <2>2. CASE Goto(t, "finish") /\ UNCHANGED lease
    <3>1. ~Pending'
      BY <1>3, <1>5 DEF Pending, Promoting
    <3>2. \A x \in Rec : x.pc = "finish" => Stage(x)'
      BY <3>1 DEF Stage, Copying
    <3> QED
      BY <1>1, <1>3, <2>2, <3>2, MutationGoto DEF Held
  <2> QED
    BY <1>5, <2>1, <2>2 DEF Promote
<1> QED
  BY <1>4, <1>5

\* From the fence to the mark: the tab acts for the pending journal, whose
\* source is whole.
LEMMA Source ==
    ASSUME Inv, NEW t \in Tab, tab[t].pc = "fence" \/ tab[t].pc \in Copying
    PROVE  /\ tab[t].pc \in Held
           /\ Pending /\ Promoting /\ ~Copied /\ ~deleting
           /\ tab[t].wit = journal.env /\ tab[t].wit \in Env
           /\ decoy.meta = tab[t].wit /\ Sound(decoy)
<1>1. tab[t].pc \in Held
  BY DEF Held, Copying
<1>2. Pending /\ tab[t].wit = journal.env
  BY DEF Inv, Stage
<1>3. Promoting /\ ~Copied
  BY <1>2 DEF Pending, Promoting, Copied
<1>4. tab[t].wit \in Env
  BY DEF Inv, Tabs, Rec
<1>5. decoy.meta = tab[t].wit /\ Sound(decoy)
  BY <1>2, <1>4, Distinct DEF Inv, DecoyBooks, Empty
<1> QED
  BY <1>1, <1>2, <1>3, <1>4, <1>5 DEF Inv

LEMMA FenceSafe ==
    ASSUME Inv, NEW t \in Tab, Fence(t)
    PROVE  Inv'
<1>1. /\ tab[t].pc \in Held /\ Pending /\ Promoting /\ ~Copied
      /\ tab[t].wit = journal.env /\ tab[t].wit \in Env
      /\ decoy.meta = tab[t].wit
  BY Source DEF Fence, At
<1>2. fence' = tab[t].wit /\ Goto(t, "wipe") /\ UNCHANGED lease
      /\ UNCHANGED <<real, armed, decoy, deleting, journal, removal, arms, crashes, lost>>
  BY <1>1 DEF Fence, marks, counts
<1>3. Disks' /\ arms <= arms'
  BY <1>1, <1>2, Envelopes DEF Inv, Disks
<1>4. Pending' /\ Promoting' /\ ~Copied'
  BY <1>1, <1>2 DEF Pending, Promoting, Copied
<1>5. DecoyBooks' /\ RealBooks' /\ Fresh' /\ (deleting => Copied)'
  BY <1>1, <1>2, <1>4 DEF Inv, DecoyBooks, RealBooks, Fresh, Sound
<1>6. \A x \in Rec : x.pc = "wipe" /\ x.wit = tab[t].wit => Stage(x)'
  BY <1>1, <1>2, <1>4 DEF Stage
<1> QED
  BY <1>1, <1>2, <1>3, <1>5, <1>6, MutationGoto DEF Held

\* While a promotion copies, only the canonical database changes.
LEMMA TargetSafe ==
    ASSUME Inv, NEW t \in Tab, tab[t].pc \in Copying,
           NEW pc \in Copying, Goto(t, pc), UNCHANGED lease,
           UNCHANGED <<decoy, fence, deleting, journal, arms, crashes, lost>>,
           armed' \in BOOLEAN, removal' \in BOOLEAN,
           real' \in [meta : 0..arms \cup {None, Garbage},
                      records : Content \cup {None}, rest : Content \cup {None}],
           real'.records # None /\ real'.rest # None => real'.rest = real'.records,
           pc = "copyMeta" => real' = Empty,
           pc = "copyRecords" => real' = [Empty EXCEPT !.meta = decoy.meta],
           pc = "copyRest" => real' = [decoy EXCEPT !.rest = None],
           pc \in {"assert", "mark"} => real' = decoy
    PROVE  Inv'
<1>1. /\ tab[t].pc \in Held /\ Pending /\ Promoting /\ ~Copied
      /\ tab[t].wit = journal.env
  BY Source
<1>2. Disks' /\ arms <= arms'
  BY Envelopes DEF Inv, Disks
<1>3. Pending' /\ Promoting' /\ ~Copied'
  BY <1>1 DEF Pending, Promoting, Copied
<1>4. DecoyBooks' /\ RealBooks' /\ Fresh' /\ (deleting => Copied)'
  BY <1>1, <1>3 DEF Inv, DecoyBooks, RealBooks, Fresh, Sound
<1>5. fence = tab[t].wit
  BY DEF Inv, Stage
<1>6. \A x \in Rec : x.pc = pc /\ x.wit = tab[t].wit => Stage(x)'
  BY <1>1, <1>3, <1>5 DEF Stage, Copying
<1>7. pc \in Held
  BY DEF Copying, Held
<1> QED
  BY <1>1, <1>2, <1>3, <1>4, <1>6, <1>7, MutationGoto

LEMMA WipeSafe ==
    ASSUME Inv, NEW t \in Tab, Wipe(t)
    PROVE  Inv'
<1>1. tab[t].pc \in Copying /\ "clear" \in Copying
  BY DEF Wipe, At, Copying
<1>2. UNCHANGED <<decoy, fence, deleting, journal, lease, arms, crashes, lost>>
      /\ Goto(t, "clear") /\ removal' \in BOOLEAN
  BY DEF Wipe, counts
<1>3. armed' \in BOOLEAN /\ (real' = real \/ real' = [real EXCEPT !.meta = Garbage])
  BY DEF Wipe, Inv, Disks
<1>4. /\ real' \in [meta : 0..arms \cup {None, Garbage},
                    records : Content \cup {None}, rest : Content \cup {None}]
      /\ real'.records = real.records /\ real'.rest = real.rest
  BY <1>3 DEF Inv, Disks
<1>5. real'.records # None /\ real'.rest # None => real'.rest = real'.records
  BY <1>4 DEF Inv, RealBooks
<1> QED
  BY <1>1, <1>2, <1>3, <1>4, <1>5, TargetSafe

LEMMA ClearSafe ==
    ASSUME Inv, NEW t \in Tab, Clear(t)
    PROVE  Inv'
<1>1. tab[t].pc \in Copying /\ "copyMeta" \in Copying
  BY DEF Clear, At, Copying
<1>2. StableSource(t)
  BY <1>1, Source DEF StableSource, Inv, Stage
<1>3. UNCHANGED <<decoy, fence, deleting, journal, removal, lease, arms, crashes, lost>>
      /\ Goto(t, "copyMeta") /\ armed' = FALSE /\ real' = Empty
  BY <1>2 DEF Clear, marks, counts
<1>4. /\ real' \in [meta : 0..arms \cup {None, Garbage},
                    records : Content \cup {None}, rest : Content \cup {None}]
      /\ real'.records = None /\ removal' \in BOOLEAN
  BY <1>3 DEF Empty, Inv, Disks
<1> QED
  BY <1>1, <1>3, <1>4, TargetSafe

LEMMA CopySafe ==
    ASSUME Inv, NEW t \in Tab, Copy(t)
    PROVE  Inv'
<1>1. tab[t].pc \in Copying
  BY DEF Copy, CopyBatch, At, Copying
<1>2. UNCHANGED <<decoy, fence, deleting, journal, removal, armed, lease, arms, crashes, lost>>
  BY DEF Copy, CopyBatch, marks, counts
<1>3. armed' \in BOOLEAN /\ removal' \in BOOLEAN
  BY <1>2 DEF Inv, Disks
<1>4. Sound(decoy)
      /\ decoy \in [meta : 0..arms \cup {None},
                    records : Content \cup {None}, rest : Content \cup {None}]
  BY <1>1, Source DEF Inv, Disks
<1>5. CASE CopyBatch(t, "copyMeta", "meta", "copyRecords")
  <2>1. real = Empty
    BY <1>5 DEF CopyBatch, At, Inv, Stage
  <2>2. real' = [Empty EXCEPT !.meta = decoy.meta] /\ Goto(t, "copyRecords")
    BY <1>5, <2>1 DEF CopyBatch, Empty
  <2>3. /\ real' \in [meta : 0..arms \cup {None, Garbage},
                      records : Content \cup {None}, rest : Content \cup {None}]
        /\ real'.records = None
    BY <1>4, <2>2 DEF Empty
  <2>4. "copyRecords" \in Copying
    BY DEF Copying
  <2> QED
    BY <1>1, <1>2, <1>3, <2>2, <2>3, <2>4, TargetSafe
<1>6. CASE CopyBatch(t, "copyRecords", "records", "copyRest")
  <2>1. real = [Empty EXCEPT !.meta = decoy.meta]
    BY <1>6 DEF CopyBatch, At, Inv, Stage
  <2>2. real' = [decoy EXCEPT !.rest = None] /\ Goto(t, "copyRest")
    <3>1. real' = [real EXCEPT !.records = decoy.records] /\ Goto(t, "copyRest")
      BY <1>6 DEF CopyBatch
    <3>2. real' = [meta |-> decoy.meta, records |-> decoy.records, rest |-> None]
      BY <2>1, <3>1 DEF Empty
    <3>3. [decoy EXCEPT !.rest = None]
          = [meta |-> decoy.meta, records |-> decoy.records, rest |-> None]
      BY <1>4
    <3> QED
      BY <3>1, <3>2, <3>3
  <2>3. /\ real' \in [meta : 0..arms \cup {None, Garbage},
                      records : Content \cup {None}, rest : Content \cup {None}]
        /\ real'.rest = None
    BY <1>4, <2>2
  <2>4. "copyRest" \in Copying
    BY DEF Copying
  <2> QED
    BY <1>1, <1>2, <1>3, <2>2, <2>3, <2>4, TargetSafe
<1>7. CASE CopyBatch(t, "copyRest", "rest", "assert")
  <2>1. real = [decoy EXCEPT !.rest = None]
    BY <1>7 DEF CopyBatch, At, Inv, Stage
  <2>2. real' = decoy /\ Goto(t, "assert")
    BY <1>4, <1>7, <2>1 DEF CopyBatch
  <2>3. /\ real' \in [meta : 0..arms \cup {None, Garbage},
                      records : Content \cup {None}, rest : Content \cup {None}]
        /\ real'.rest = real'.records
    BY <1>4, <2>2 DEF Sound
  <2>4. "assert" \in Copying
    BY DEF Copying
  <2> QED
    BY <1>1, <1>2, <1>3, <2>2, <2>3, <2>4, TargetSafe
<1> QED
  BY <1>5, <1>6, <1>7 DEF Copy

LEMMA AssertSafe ==
    ASSUME Inv, NEW t \in Tab, AssertSource(t)
    PROVE  Inv'
<1>1. tab[t].pc \in Copying /\ "mark" \in Copying
  BY DEF AssertSource, At, Copying
<1>2. StableSource(t)
  BY <1>1, Source DEF StableSource, Inv, Stage
<1>3. UNCHANGED <<real, armed, decoy, fence, deleting, journal, removal, lease, arms, crashes, lost>>
      /\ Goto(t, "mark")
  BY <1>2 DEF AssertSource, disk, marks, counts
<1>4. real = decoy
  BY DEF AssertSource, At, Inv, Stage
<1>5. /\ real' \in [meta : 0..arms \cup {None, Garbage},
                    records : Content \cup {None}, rest : Content \cup {None}]
      /\ real'.records # None /\ real'.rest # None => real'.rest = real'.records
      /\ armed' \in BOOLEAN /\ removal' \in BOOLEAN
  BY <1>3 DEF Inv, Disks, RealBooks
<1> QED
  BY <1>1, <1>3, <1>4, <1>5, TargetSafe

LEMMA MarkSafe ==
    ASSUME Inv, NEW t \in Tab, Mark(t)
    PROVE  Inv'
<1>1. /\ tab[t].pc \in Held /\ Pending /\ Promoting /\ ~Copied /\ ~deleting
      /\ tab[t].wit = journal.env /\ decoy.meta = tab[t].wit /\ Sound(decoy)
  BY Source DEF Mark, At, Copying
<1>2. real = decoy
  BY DEF Mark, At, Inv, Stage
<1>3. UNCHANGED <<real, armed, decoy, fence, deleting, removal, lease, arms, crashes, lost>>
      /\ Goto(t, "delete") /\ journal' = [journal EXCEPT !.phase = "copied"]
  BY <1>1 DEF Mark, disk, counts
<1>4. /\ journal' \in [phase : {"none", "pending", "copied"}, env : Env]
      /\ journal'.phase = "copied" /\ journal'.env = journal.env
  BY <1>3 DEF Inv, Disks
<1>5. ~Pending' /\ Promoting' /\ Copied'
  BY <1>4 DEF Pending, Promoting, Copied
<1>6. Disks' /\ arms <= arms'
  BY <1>3, <1>4, Envelopes DEF Inv, Disks
<1>7. DecoyBooks' /\ RealBooks' /\ Fresh' /\ (deleting => Copied)'
  BY <1>1, <1>2, <1>3, <1>4, <1>5 DEF Inv, DecoyBooks, RealBooks, Fresh, Sound
<1>8. \A x \in Rec : x.pc = "delete" /\ x.wit = tab[t].wit => Stage(x)'
  BY <1>1, <1>4, <1>5 DEF Stage, Copying
<1> QED
  BY <1>1, <1>3, <1>5, <1>6, <1>7, <1>8, MutationGoto DEF Held

LEMMA DeleteSafe ==
    ASSUME Inv, NEW t \in Tab, Delete(t)
    PROVE  Inv'
<1>1. tab[t].pc \in Held /\ Copied /\ tab[t].wit = journal.env
  BY DEF Delete, At, Held, Inv, Stage
<1>2. UNCHANGED <<real, armed, journal, removal, lease, arms, crashes, lost>>
  BY DEF Delete, marks, counts
<1>3. ~Pending' /\ Promoting' /\ Copied' /\ ~Pending /\ Promoting
  BY <1>1, <1>2 DEF Pending, Promoting, Copied
<1>4. PICK pc \in {"clearJournal", "finish"} :
        /\ Goto(t, pc)
        /\ IF pc = "clearJournal"
           THEN decoy' = Empty /\ fence' = None /\ deleting' = FALSE
           ELSE deleting' = TRUE /\ UNCHANGED <<decoy, fence>>
  BY DEF Delete
<1>5. Disks' /\ arms <= arms'
  <2>1. Empty \in [meta : 0..arms \cup {None},
                   records : Content \cup {None}, rest : Content \cup {None}]
    BY DEF Empty
  <2>2. /\ decoy' \in [meta : 0..arms \cup {None},
                       records : Content \cup {None}, rest : Content \cup {None}]
        /\ fence' \in Env \cup {None} /\ deleting' \in BOOLEAN
    BY <1>4, <2>1 DEF Inv, Disks
  <2> QED
    BY <1>2, <2>2, Envelopes DEF Inv, Disks
<1>6. DecoyBooks' /\ RealBooks' /\ Fresh' /\ (deleting => Copied)'
  BY <1>2, <1>3, <1>4 DEF Inv, DecoyBooks, RealBooks, Fresh, Sound
<1>7. \A x \in Rec : x.pc = pc /\ x.wit = tab[t].wit => Stage(x)'
  BY <1>1, <1>2, <1>3, <1>4 DEF Stage, Copying
<1> QED
  BY <1>1, <1>2, <1>3, <1>4, <1>5, <1>6, <1>7, MutationGoto DEF Held

LEMMA ClearJournalSafe ==
    ASSUME Inv, NEW t \in Tab, ClearJournal(t)
    PROVE  Inv'
<1>1. /\ tab[t].pc \in Held /\ Copied /\ tab[t].wit = journal.env
      /\ decoy = Empty /\ ~deleting
  BY DEF ClearJournal, At, Held, Inv, Stage
<1>2. UNCHANGED <<real, armed, decoy, fence, deleting, removal, lease, arms, crashes, lost>>
      /\ Goto(t, "finish") /\ journal' = NoJournal
  BY <1>1 DEF ClearJournal, disk, counts, Copied
<1>3. /\ journal' \in [phase : {"none", "pending", "copied"}, env : Env]
      /\ journal'.phase = "none"
  BY <1>2, Distinct DEF NoJournal
<1>4. ~Pending' /\ ~Promoting' /\ ~Copied' /\ ~Pending
  BY <1>1, <1>3 DEF Pending, Promoting, Copied
<1>5. Disks' /\ arms <= arms'
  BY <1>2, <1>3, Envelopes DEF Inv, Disks
<1>6. Sound(real) /\ decoy'.meta = None
  BY <1>1, <1>2, <1>4 DEF Inv, RealBooks, Empty
<1>7. DecoyBooks' /\ RealBooks' /\ Fresh' /\ (deleting => Copied)'
  BY <1>1, <1>2, <1>4, <1>6, Distinct DEF Inv, DecoyBooks, RealBooks, Fresh, Sound
<1>8. \A x \in Rec : x.pc = "finish" => Stage(x)'
  BY <1>4 DEF Stage, Copying
<1> QED
  BY <1>1, <1>2, <1>5, <1>6, <1>7, <1>8, MutationGoto DEF Held

LEMMA FinishSafe ==
    ASSUME Inv, NEW t \in Tab, Finish(t)
    PROVE  Inv'
<1>1. tab[t].pc \in Held /\ ~Pending
  BY DEF Finish, At, Held, Inv, Stage
<1>2. UNCHANGED <<disk, marks, counts>>
  BY DEF Finish
<1>3. CASE Return(t) \/ Throw(t)
  BY <1>2, <1>3, LeaveSafe
<1>4. CASE /\ Release(t)
           /\ tab' = [tab EXCEPT ![t] =
                  IF RuntimeFree(t)
                  THEN [Away EXCEPT !.pc = "open", !.env = real.meta]
                  ELSE [Away EXCEPT !.pc = IF Promoting THEN "boot" ELSE "locked"]]
  <2>1. Sound(real) /\ real.meta \in Env /\ real.meta <= arms
    BY <1>1, Distinct DEF Inv, RealBooks, Disks, Sound
  <2>2. PICK x \in Rec : /\ tab' = [tab EXCEPT ![t] = x]
                         /\ x.pc \in {"open", "boot", "locked"}
                         /\ x.env \in {0, real.meta}
    <3>1. CASE RuntimeFree(t)
      <4> DEFINE y == [Away EXCEPT !.pc = "open", !.env = real.meta]
      <4>1. tab' = [tab EXCEPT ![t] = y]
        BY <1>4, <3>1
      <4>2. y \in Rec /\ y.pc = "open" /\ y.env = real.meta
        BY <2>1, Distinct DEF Away, Rec, Ops, Unheld
      <4> QED
        BY <4>1, <4>2
    <3>2. CASE ~RuntimeFree(t)
      <4> DEFINE y == [Away EXCEPT !.pc = IF Promoting THEN "boot" ELSE "locked"]
      <4>1. tab' = [tab EXCEPT ![t] = y]
        BY <1>4, <3>2
      <4>2. y \in Rec /\ y.pc \in {"boot", "locked"} /\ y.env = 0
        BY Distinct DEF Away, Rec, Ops, Unheld
      <4> QED
        BY <4>1, <4>2
    <3> QED
      BY <3>1, <3>2
  <2>3. x.pc \in Unheld /\ x.pc # "wait"
    BY <2>2 DEF Unheld
  <2>4. Stage(x) /\ x.pc \notin Held
    BY <2>3, Outside, Pcs
  <2>5. x.env <= arms
    BY <2>1, <2>2, Envelopes
  <2>6. ~Copied => x.env # decoy.meta
    BY <1>1, <2>2, Distinct DEF Inv, Apart, Fresh, DecoyBooks, Empty, Copied,
       Promoting, Pending, Disks
  <2>7. lease' \in Tab \cup {None} /\ \A u \in Tab \ {t} : tab[u].pc \in Held => lease' = u
    BY <1>4 DEF Release, Inv, Tabs, LeaseBooks
  <2> QED
    BY <1>2, <2>2, <2>4, <2>5, <2>6, <2>7, Quietly
<1> QED
  BY <1>3, <1>4 DEF Finish

-----------------------------------------------------------------------------
(* What the open account and the environment do.                           *)

\* Nobody writes to the canonical account while a promotion replaces it: what
\* it copies is an envelope that no tab shows.
LEMMA NobodyWrites ==
    ASSUME Inv, NEW t \in Tab, Write(t), NEW u \in Tab
    PROVE  tab[u].pc \notin {"copyMeta", "copyRecords", "copyRest", "assert", "mark"}
<1>1. /\ real.records # None /\ real.rest # None
      /\ real.records.env = tab[t].env
  BY DEF Write, Writable
<1>2. CASE tab[u].pc = "copyMeta"
  BY <1>1, <1>2 DEF Inv, Stage, Empty
<1>3. CASE tab[u].pc = "copyRecords"
  BY <1>1, <1>3 DEF Inv, Stage, Empty
<1>4. CASE tab[u].pc = "copyRest"
  <2>1. real = [decoy EXCEPT !.rest = None]
    BY <1>4 DEF Inv, Stage
  <2>2. real.rest = None
    BY <2>1 DEF Inv, Disks
  <2> QED
    BY <1>1, <2>2
<1>5. CASE tab[u].pc \in {"assert", "mark"}
  <2>1. real = decoy
    BY <1>5 DEF Inv, Stage
  <2>2. Sound(decoy) /\ ~Copied
    BY <1>5, Source DEF Copying
  <2> QED
    BY <1>1, <2>1, <2>2 DEF Inv, Apart, Sound
<1> QED
  BY <1>2, <1>3, <1>4, <1>5

\* A write keeps what is written whole.
LEMMA WrittenKeeps ==
    ASSUME NEW db, NEW M, NEW e, Writable(db, e), db.rest = db.records,
           db \in [meta : M, records : Content \cup {None}, rest : Content \cup {None}]
    PROVE  /\ Written(db) \in [meta : M, records : Content \cup {None},
                               rest : Content \cup {None}]
           /\ Written(db).meta = db.meta
           /\ Written(db).records = [db.records EXCEPT !.ver = @ + 1]
           /\ Written(db).records # None
           /\ Written(db).rest = Written(db).records
           /\ Sound(db) => Sound(Written(db))
<1>1. db.records \in Content /\ db.rest \in Content /\ db.rest # None
      /\ db.records.ver < MaxWrite /\ db.rest.env = db.records.env
  BY DEF Writable
<1>2. [db.records EXCEPT !.ver = @ + 1] \in Content
  <2>1. db.records.ver + 1 \in 0..MaxWrite
    BY <1>1, DuressAssumption DEF Content
  <2> QED
    BY <1>1, <2>1 DEF Content
<1>3. /\ Written(db).meta = db.meta
      /\ Written(db).records = [db.records EXCEPT !.ver = @ + 1]
      /\ Written(db).rest = [db.rest EXCEPT !.ver = @ + 1]
  BY DEF Written
<1>4. [db.records EXCEPT !.ver = @ + 1].env = db.records.env
  BY <1>1 DEF Content
<1>5. Written(db).rest = Written(db).records /\ Written(db).records # None
  BY <1>2, <1>3, Distinct
<1>6. Written(db) \in [meta : M, records : Content \cup {None}, rest : Content \cup {None}]
  BY <1>2, <1>3, <1>5 DEF Written
<1>7. Sound(db) => Sound(Written(db))
  BY <1>2, <1>3, <1>4, <1>5 DEF Sound
<1> QED
  BY <1>3, <1>5, <1>6, <1>7

LEMMA WriteSafe ==
    ASSUME Inv, NEW t \in Tab, Write(t)
    PROVE  Inv'
<1>1. Writable(real, tab[t].env) /\ real' = Written(real)
      /\ UNCHANGED <<armed, decoy, fence, deleting, journal, removal, lease, tab, arms, crashes, lost>>
  BY DEF Write, marks, counts
<1>2. real.rest = real.records
  BY <1>1 DEF Writable, Inv, RealBooks
<1>3. real \in [meta : 0..arms \cup {None, Garbage},
                records : Content \cup {None}, rest : Content \cup {None}]
  BY DEF Inv, Disks
<1>4. /\ real' \in [meta : 0..arms \cup {None, Garbage},
                    records : Content \cup {None}, rest : Content \cup {None}]
      /\ real'.meta = real.meta /\ real'.rest = real'.records
      /\ Sound(real) => Sound(real')
  BY <1>1, <1>2, <1>3, WrittenKeeps
<1>5. Pending' = Pending /\ Promoting' = Promoting /\ Copied' = Copied
  BY <1>1 DEF Pending, Promoting, Copied
<1>6. Disks' /\ Tabs' /\ LeaseBooks' /\ (deleting => Copied)'
  BY <1>1, <1>4, <1>5 DEF Inv, Disks, Tabs, LeaseBooks
<1>7. DecoyBooks' /\ RealBooks'
  BY <1>1, <1>4, <1>5 DEF Inv, DecoyBooks, RealBooks, Sound
<1>8. Apart'
  BY <1>1, <1>4, <1>5 DEF Inv, Apart, Fresh
<1>9. ASSUME NEW u \in Tab PROVE Stage(tab[u])'
  <2>1. Stage(tab[u])
    BY DEF Inv
  <2>2. tab[u].pc \notin {"copyMeta", "copyRecords", "copyRest", "assert", "mark"}
    BY NobodyWrites
  <2> QED
    BY <1>1, <1>5, <2>1, <2>2 DEF Stage
<1> QED
  BY <1>6, <1>7, <1>8, <1>9 DEF Inv

LEMMA FillSafe ==
    ASSUME Inv, NEW t \in Tab, Fill(t)
    PROVE  Inv'
<1>1. Writable(decoy, tab[t].wit) /\ decoy' = Written(decoy) /\ fence = None
      /\ UNCHANGED <<real, armed, fence, deleting, journal, removal, lease, tab, arms, crashes, lost>>
  BY DEF Fill, marks, counts
<1>2. Sound(decoy) /\ decoy.meta # 0
  BY <1>1 DEF Writable, Inv, DecoyBooks, Empty
<1>3. decoy \in [meta : 0..arms \cup {None},
                 records : Content \cup {None}, rest : Content \cup {None}]
  BY DEF Inv, Disks
<1>4. /\ decoy' \in [meta : 0..arms \cup {None},
                     records : Content \cup {None}, rest : Content \cup {None}]
      /\ decoy'.meta = decoy.meta /\ Sound(decoy')
  BY <1>1, <1>2, <1>3, WrittenKeeps DEF Sound
<1>5. Pending' = Pending /\ Promoting' = Promoting /\ Copied' = Copied
  BY <1>1 DEF Pending, Promoting, Copied
<1>6. Disks' /\ Tabs' /\ LeaseBooks' /\ (deleting => Copied)'
  BY <1>1, <1>4, <1>5 DEF Inv, Disks, Tabs, LeaseBooks
<1>7. DecoyBooks' /\ RealBooks'
  BY <1>1, <1>2, <1>4, <1>5 DEF Inv, DecoyBooks, RealBooks, Sound
<1>8. Apart'
  BY <1>1, <1>4, <1>5 DEF Inv, Apart, Fresh
<1>9. ASSUME NEW u \in Tab PROVE Stage(tab[u])'
  <2>1. Stage(tab[u]) /\ tab[u].wit # None
    BY Distinct DEF Inv, Tabs, Rec
  <2>2. tab[u].pc \notin Copying
    BY <1>1, <2>1 DEF Stage
  <2>3. decoy # Empty
    BY <1>1 DEF Writable, Empty
  <2> QED
    BY <1>1, <1>5, <2>1, <2>2, <2>3 DEF Stage, Copying
<1> QED
  BY <1>6, <1>7, <1>8, <1>9 DEF Inv

LEMMA CrashSafe ==
    ASSUME Inv, NEW t \in Tab, Crash(t)
    PROVE  Inv'
<1>1. UNCHANGED <<real, armed, decoy, fence, journal, removal, lease, arms, lost>>
      /\ crashes' = crashes + 1 /\ crashes < MaxCrash
      /\ deleting' \in {deleting, FALSE} /\ tab' = [tab EXCEPT ![t] = Away]
  BY DEF Crash, marks
<1>2. /\ tab \in [Tab -> Rec] /\ tab'[t] = Away
      /\ \A u \in Tab \ {t} : tab'[u] = tab[u]
  BY <1>1 DEF Inv, Tabs
<1>3. Away \in Rec /\ Away.pc = "off" /\ Away.env = 0
  BY Distinct DEF Away, Rec, Ops, Unheld
<1>4. crashes' \in 0..MaxCrash
  BY <1>1, DuressAssumption DEF Inv, Disks
<1>5. deleting' \in BOOLEAN /\ (deleting' => deleting)
  <2>1. CASE deleting' = deleting
    BY <2>1 DEF Inv, Disks
  <2>2. CASE deleting' = FALSE
    BY <2>2
  <2> QED
    BY <1>1, <2>1, <2>2
<1>6. Pending' = Pending /\ Promoting' = Promoting /\ Copied' = Copied
  BY <1>1 DEF Pending, Promoting, Copied
<1>7. Disks' /\ (deleting => Copied)'
  BY <1>1, <1>4, <1>5, <1>6 DEF Inv, Disks
<1>8. Tabs'
  BY <1>1, <1>2, <1>3 DEF Inv, Tabs
<1>9. LeaseBooks'
  BY <1>1, <1>2, <1>3 DEF Inv, LeaseBooks, Held
<1>10. DecoyBooks' /\ RealBooks'
  BY <1>1, <1>6 DEF Inv, DecoyBooks, RealBooks, Sound
<1>11. Apart'
  <2>1. 0 <= arms /\ (~Copied => decoy.meta # 0)
    BY Envelopes, Distinct DEF Inv, DecoyBooks, Empty
  <2> QED
    BY <1>1, <1>2, <1>3, <1>6, <2>1 DEF Inv, Apart, Fresh
<1>12. ASSUME NEW u \in Tab PROVE Stage(tab[u])'
  <2>1. CASE u = t
    BY <1>2, <1>3, <2>1 DEF Stage, Copying
  <2>2. CASE u # t
    <3>1. Stage(tab[u]) /\ tab'[u] = tab[u]
      BY <1>2, <2>2 DEF Inv
    <3> QED
      BY <1>1, <1>5, <1>6, <3>1 DEF Stage
  <2> QED
    BY <2>1, <2>2
<1> QED
  BY <1>7, <1>8, <1>9, <1>10, <1>11, <1>12 DEF Inv

LEMMA QueuedDeleteSafe ==
    ASSUME Inv, QueuedDelete
    PROVE  Inv'
<1>1. UNCHANGED <<real, armed, journal, removal, lease, tab, arms, crashes, lost>>
      /\ decoy' = Empty /\ fence' = None /\ deleting' = FALSE /\ Copied
  BY DEF QueuedDelete, marks, counts, Inv
<1>2. Pending' = Pending /\ Promoting' = Promoting /\ Copied' = Copied
      /\ ~Pending /\ Promoting
  BY <1>1 DEF Pending, Promoting, Copied
<1>3. Disks' /\ Tabs' /\ LeaseBooks' /\ (deleting => Copied)'
  BY <1>1 DEF Inv, Disks, Tabs, LeaseBooks, Empty
<1>4. DecoyBooks' /\ RealBooks' /\ Apart'
  BY <1>1, <1>2 DEF Inv, DecoyBooks, RealBooks, Sound, Apart, Fresh
<1>5. ASSUME NEW u \in Tab PROVE Stage(tab[u])'
  <2>1. Stage(tab[u])
    BY DEF Inv
  <2> QED
    BY <1>1, <1>2, <2>1 DEF Stage, Copying
<1> QED
  BY <1>3, <1>4, <1>5 DEF Inv

-----------------------------------------------------------------------------
(* The theorems.                                                           *)

LEMMA InitInv ==
    ASSUME Init PROVE Inv
<1>1. 0 \in 0..MaxArm /\ 0 \in 0..MaxCrash /\ 0 \in 0..MaxLost /\ 0 \in 0..MaxWrite
  BY DuressAssumption
<1>2. [env |-> 0, ver |-> 0] \in Content
  BY <1>1 DEF Content, Env
<1>3. Sound(real) /\ real.meta = 0 /\ real.rest = real.records
      /\ real = [meta |-> 0, records |-> [env |-> 0, ver |-> 0],
                 rest |-> [env |-> 0, ver |-> 0]]
  BY <1>2, Distinct DEF Init, Whole, Sound
<1>4. Away \in Rec /\ Away.pc = "off" /\ Away.env = 0
  BY Distinct DEF Away, Rec, Ops, Unheld
<1>5. /\ journal.phase = "none"
      /\ journal \in [phase : {"none", "pending", "copied"}, env : Env]
  BY Distinct DEF Init, NoJournal
<1>6. ~Pending /\ ~Promoting /\ ~Copied
  BY <1>5 DEF Pending, Promoting, Copied
<1>7. decoy = Empty /\ decoy.meta = None
  BY DEF Init, Empty
<1>8. Disks
  <2>1. real \in [meta : 0..arms \cup {None, Garbage},
                  records : Content \cup {None}, rest : Content \cup {None}]
    BY <1>2, <1>3 DEF Init
  <2>2. decoy \in [meta : 0..arms \cup {None},
                   records : Content \cup {None}, rest : Content \cup {None}]
    BY <1>7 DEF Empty
  <2> QED
    BY <1>1, <1>5, <2>1, <2>2 DEF Init, Disks
<1>9. Tabs /\ LeaseBooks
  BY <1>4 DEF Init, Tabs, LeaseBooks, Held
<1>10. DecoyBooks /\ RealBooks /\ (deleting => Copied)
  BY <1>3, <1>6, <1>7 DEF Init, DecoyBooks, RealBooks
<1>11. Apart
  BY <1>3, <1>4, <1>7, Distinct DEF Init, Apart, Fresh
<1>12. \A t \in Tab : Stage(tab[t])
  BY <1>4 DEF Init, Stage, Copying
<1> QED
  BY <1>8, <1>9, <1>10, <1>11, <1>12 DEF Inv

LEMMA StepInv ==
    ASSUME Timely = TRUE, Prompt = TRUE, Inv, [Next]_vars
    PROVE  Inv'
<1>1. CASE UNCHANGED vars
  BY <1>1 DEF vars, disk, marks, counts, Inv, Disks, Tabs, DecoyBooks, RealBooks,
              Sound, Apart, Fresh, LeaseBooks, Stage, Pending, Promoting, Copied
<1>2. ASSUME NEW t \in Tab, Mutation(t) PROVE Inv'
  BY <1>2, RemovalSafe, RemoveSafe, NeutralizeSafe, DisarmSafe, UnmarkSafe, ArmSafe,
     ProvisionSafe, FlagSafe, FireSafe, BindSafe, PromoteSafe, FenceSafe, WipeSafe,
     ClearSafe, CopySafe, AssertSafe, MarkSafe, DeleteSafe, ClearJournalSafe,
     FinishSafe DEF Mutation
<1>3. CASE Next
  BY <1>2, <1>3, BootSteps, UnlockSafe, OpenSteps, WriteSafe, FillSafe, AcquireSafe,
     GiveUpSafe, CrashSafe, LapseSafe, QueuedDeleteSafe DEF Next
<1> QED
  BY <1>1, <1>3

\* The inductive invariant: the stage of every mutation, and what it says
\* about the two databases and the two journals.
THEOREM DuressInvariant ==
    ASSUME Timely = TRUE, Prompt = TRUE
    PROVE  Spec => []Inv
<1>1. Init => Inv
  BY InitInv
<1>2. Inv /\ [Next]_vars => Inv'
  BY StepInv
<1> QED
  BY <1>1, <1>2, PTL DEF Spec

\* Type correctness.
THEOREM TypeCorrect ==
    ASSUME Timely = TRUE, Prompt = TRUE
    PROVE  Spec => []TypeOK
<1>1. Inv => TypeOK
  <2> SUFFICES ASSUME Inv PROVE TypeOK
    OBVIOUS
  <2>1. 0..arms \subseteq Env
    BY Envelopes, DuressAssumption DEF Inv, Disks, Env
  <2>2. {"none"} \cup DOMAIN FirstStep = Ops
    BY Pcs DEF Ops
  <2>3. tab \in [Tab -> [pc : Unheld \cup Held, op : {"none"} \cup DOMAIN FirstStep,
                        env : Env, wit : Env]]
    BY <2>2 DEF Inv, Tabs, Rec
  <2>4. /\ real \in [meta : Env \cup {None, Garbage},
                     records : Content \cup {None}, rest : Content \cup {None}]
        /\ decoy \in [meta : Env \cup {None},
                      records : Content \cup {None}, rest : Content \cup {None}]
    BY <2>1 DEF Inv, Disks
  <2> QED
    BY <2>3, <2>4 DEF Inv, Disks, Tabs, TypeOK
<1> QED
  BY <1>1, DuressInvariant, PTL

\* Wherever the device dies, the next boot can go on (handling of both journals
\* at boot): the property Recoverable, for any number of tabs and deaths.
THEOREM BootCanGoOn ==
    ASSUME Timely = TRUE, Prompt = TRUE
    PROVE  Spec => []Recoverable
<1>1. Inv => Recoverable
  <2> SUFFICES ASSUME Inv PROVE Recoverable
    OBVIOUS
  <2>1. CASE Pending
    <3>1. journal.env \in Env
      BY DEF Inv, Disks
    <3>2. Sound(decoy) /\ decoy.meta = journal.env
      BY <2>1, <3>1, Distinct DEF Inv, DecoyBooks, Empty
    <3> QED
      BY <2>1, <3>2, SoundIsWhole DEF Recoverable, Inv, Disks
  <2>2. CASE ~Pending
    BY <2>2, SoundIsWhole DEF Recoverable, Inv, Disks, RealBooks
  <2> QED
    BY <2>1, <2>2
<1> QED
  BY <1>1, DuressInvariant, PTL

-----------------------------------------------------------------------------
(* The device implements one account (OneAccount).                         *)

Acct  == IF Pending THEN journal.env ELSE real.meta
Ver   == IF Pending THEN VerOf(decoy) ELSE VerOf(real)
Cover == IF Promoting \/ decoy.meta = None THEN None ELSE decoy.records

LEMMA ShortOne ==
    /\ One!Init <=> (Acct = 0 /\ Ver = 0 /\ Cover = None)
    /\ One!Write <=> Ver < MaxWrite /\ Ver' = Ver + 1 /\ UNCHANGED <<Acct, Cover>>
    /\ One!Arm <=> \E e \in 1..MaxArm :
                     /\ e > Acct
                     /\ Cover # None => e > Cover.env
                     /\ Cover' = [env |-> e, ver |-> 0]
                     /\ UNCHANGED <<Acct, Ver>>
    /\ One!Fill <=> /\ Cover # None
                    /\ Cover.ver < MaxWrite
                    /\ Cover' = [Cover EXCEPT !.ver = @ + 1]
                    /\ UNCHANGED <<Acct, Ver>>
    /\ One!Disarm <=> Cover' = None /\ UNCHANGED <<Acct, Ver>>
    /\ One!Promote <=> /\ Cover # None
                       /\ Acct' = Cover.env
                       /\ Ver' = Cover.ver
                       /\ Cover' = None
    /\ One!vars = <<Acct, Ver, Cover>>
BY DEF One!Init, One!Write, One!Arm, One!Fill, One!Disarm, One!Promote, One!vars,
       Acct, Ver, Cover

OneStep == One!Next \/ UNCHANGED <<Acct, Ver, Cover>>

\* The steps that neither database nor the journal of a promotion takes part
\* in, or only the database that the journal says is not the account.
LEMMA OneStutters ==
    ASSUME \/ UNCHANGED <<real, decoy, journal>>
           \/ Pending /\ UNCHANGED <<decoy, journal>>
           \/ Promoting /\ ~Pending /\ UNCHANGED <<real, journal>>
    PROVE  OneStep
BY DEF OneStep, Acct, Ver, Cover, VerOf, Pending, Promoting

\* The decoy that is ready, as a cover.
LEMMA CoverIs ==
    ASSUME Inv, ~Promoting, decoy.meta # None
    PROVE  /\ Cover = decoy.records /\ Cover \in Content /\ Cover # None
           /\ Cover.env = decoy.meta /\ Cover.env <= arms
           /\ VerOf(decoy) = Cover.ver
<1>1. Sound(decoy)
  BY DEF Inv, DecoyBooks, Empty
<1>2. Cover = decoy.records /\ Cover \in Content /\ Cover # None /\ Cover.env = decoy.meta
  BY <1>1, Distinct DEF Cover, Sound
<1>3. decoy.meta <= arms
  BY Envelopes DEF Inv, Disks
<1> QED
  BY <1>2, <1>3 DEF VerOf

LEMMA OneNeutralize ==
    ASSUME ~Promoting, UNCHANGED <<real, journal>>, decoy' = Empty
    PROVE  OneStep
<1>1. UNCHANGED <<Acct, Ver>> /\ Cover' = None
  BY DEF Acct, Ver, Cover, Pending, Promoting, VerOf, Empty
<1>2. One!Disarm
  BY <1>1, ShortOne
<1> QED
  BY <1>2 DEF OneStep, One!Next

LEMMA OneProvision ==
    ASSUME Inv, NEW t \in Tab, Provision(t)
    PROVE  OneStep
<1>1. /\ ~Promoting /\ ~Pending /\ Sound(real) /\ real.meta \in 0..arms
  BY Calm DEF Provision, At, Early
<1>2. UNCHANGED <<real, journal>>
  BY DEF Provision, marks
<1>3. CASE UNCHANGED decoy
  BY <1>2, <1>3, OneStutters
<1>4. CASE arms < MaxArm /\ decoy' = Whole(arms + 1, 0)
  <2>1. arms + 1 \in 1..MaxArm /\ arms \in Nat /\ arms + 1 \in Nat
    BY <1>4, Envelopes, DuressAssumption
  <2>2. ~Promoting' /\ ~Pending'
    BY <1>1, <1>2 DEF Promoting, Pending
  <2>3. UNCHANGED <<Acct, Ver>> /\ Acct = real.meta
    BY <1>1, <1>2, <2>2 DEF Acct, Ver, VerOf
  <2>4. decoy'.meta = arms + 1 /\ decoy'.records = [env |-> arms + 1, ver |-> 0]
    BY <1>4 DEF Whole
  <2>5. Cover' = [env |-> arms + 1, ver |-> 0]
    <3>1. decoy'.meta # None
      BY <2>1, <2>4, DuressAssumption
    <3> QED
      BY <2>2, <2>4, <3>1 DEF Cover
  <2>6. Cover # None => Cover.env \in Nat /\ Cover.env <= arms
    <3>1. CASE decoy.meta = None
      BY <3>1 DEF Cover
    <3>2. CASE decoy.meta # None
      BY <1>1, <3>2, CoverIs, Distinct DEF Content
    <3> QED
      BY <3>1, <3>2
  <2>7. arms + 1 > Acct /\ (Cover # None => arms + 1 > Cover.env)
    BY <1>1, <2>1, <2>3, <2>6
  <2>8. One!Arm
    BY <2>1, <2>3, <2>5, <2>7, ShortOne
  <2> QED
    BY <2>8 DEF OneStep, One!Next
<1> QED
  BY <1>3, <1>4 DEF Provision

LEMMA OneBind ==
    ASSUME Inv, NEW t \in Tab, Bind(t)
    PROVE  OneStep
<1>1. ~Promoting /\ ~Pending
  BY Calm DEF Bind, At, Early
<1>2. UNCHANGED <<real, decoy>>
  BY DEF Bind, disk
<1>3. CASE UNCHANGED journal
  BY <1>2, <1>3, OneStutters
<1>4. CASE decoy.meta = tab[t].wit /\ journal' = [phase |-> "pending", env |-> tab[t].wit]
  <2>1. Pending' /\ Promoting' /\ journal'.env = decoy.meta
    BY <1>4 DEF Pending, Promoting
  <2>2. decoy.meta # None
    BY <1>4, Distinct DEF Inv, Tabs, Rec
  <2>3. Cover # None /\ Cover.env = decoy.meta /\ Cover.ver = VerOf(decoy)
    BY <1>1, <2>2, CoverIs
  <2>4. Acct' = decoy.meta /\ Ver' = VerOf(decoy) /\ Cover' = None
    BY <1>2, <2>1 DEF Acct, Ver, Cover, VerOf
  <2>5. One!Promote
    BY <2>3, <2>4, ShortOne
  <2> QED
    BY <2>5 DEF OneStep, One!Next
<1> QED
  BY <1>3, <1>4 DEF Bind

LEMMA OneWrite ==
    ASSUME Inv, NEW t \in Tab, Write(t)
    PROVE  OneStep
<1>1. UNCHANGED <<decoy, journal>> /\ real' = Written(real)
      /\ real.records # None /\ real.records.ver < MaxWrite /\ real.rest # None
  BY DEF Write, Writable, marks
<1>2. CASE Pending
  BY <1>1, <1>2, OneStutters
<1>3. CASE ~Pending
  <2>1. /\ real'.meta = real.meta
        /\ real'.records = [real.records EXCEPT !.ver = @ + 1] /\ real'.records # None
    <3>1. Writable(real, tab[t].env) /\ real.rest = real.records
      BY <1>3 DEF Write, Inv, RealBooks, Sound
    <3> QED
      BY <1>1, <3>1, WrittenKeeps DEF Inv, Disks
  <2>2. real.records \in Content
    BY <1>3 DEF Inv, RealBooks, Sound
  <2>3. VerOf(real) = real.records.ver /\ VerOf(real)' = real.records.ver + 1
    BY <1>1, <2>1, <2>2 DEF VerOf, Content
  <2>4. ~Pending' /\ Promoting' = Promoting
    BY <1>1, <1>3 DEF Pending, Promoting
  <2>5. UNCHANGED <<Acct, Cover>>
    BY <1>1, <1>3, <2>1, <2>4 DEF Acct, Cover
  <2>6. Ver < MaxWrite /\ Ver' = Ver + 1
    BY <1>1, <1>3, <2>3, <2>4 DEF Ver
  <2>7. One!Write
    BY <2>5, <2>6, ShortOne
  <2> QED
    BY <2>7 DEF OneStep, One!Next
<1> QED
  BY <1>2, <1>3

LEMMA OneFill ==
    ASSUME Inv, NEW t \in Tab, Fill(t)
    PROVE  OneStep
<1>1. UNCHANGED <<real, journal>> /\ decoy' = Written(decoy)
      /\ Writable(decoy, tab[t].wit) /\ decoy.records # None
      /\ decoy.records.ver < MaxWrite
  BY DEF Fill, Writable, marks
<1>2. Sound(decoy)
  BY <1>1 DEF Inv, DecoyBooks, Empty
<1>3. /\ decoy'.meta = decoy.meta
      /\ decoy'.records = [decoy.records EXCEPT !.ver = @ + 1] /\ decoy'.records # None
  BY <1>1, <1>2, WrittenKeeps DEF Inv, Disks, Sound
<1>4. VerOf(decoy) = decoy.records.ver /\ VerOf(decoy)' = decoy.records.ver + 1
  BY <1>1, <1>2, <1>3 DEF VerOf, Sound, Content
<1>5. Pending' = Pending /\ Promoting' = Promoting
  BY <1>1 DEF Pending, Promoting
<1>6. CASE Pending
  <2>1. Promoting
    BY <1>6 DEF Pending, Promoting
  <2>2. UNCHANGED <<Acct, Cover>> /\ Ver < MaxWrite /\ Ver' = Ver + 1
    BY <1>1, <1>4, <1>5, <1>6, <2>1 DEF Acct, Ver, Cover
  <2>3. One!Write
    BY <2>2, ShortOne
  <2> QED
    BY <2>3 DEF OneStep, One!Next
<1>7. CASE Promoting /\ ~Pending
  BY <1>1, <1>7, OneStutters
<1>8. CASE ~Promoting
  <2>1. decoy.meta # None
    BY <1>2, Distinct DEF Sound
  <2>2. ~Pending
    BY <1>8 DEF Pending, Promoting
  <2>3. UNCHANGED <<Acct, Ver>>
    BY <1>1, <1>5, <2>2 DEF Acct, Ver, VerOf
  <2>4. Cover = decoy.records /\ Cover' = decoy'.records
    BY <1>3, <1>5, <1>8, <2>1 DEF Cover
  <2>5. One!Fill
    BY <1>1, <1>3, <2>3, <2>4, ShortOne
  <2> QED
    BY <2>5 DEF OneStep, One!Next
<1> QED
  BY <1>6, <1>7, <1>8

LEMMA OneMark ==
    ASSUME Inv, NEW t \in Tab, Mark(t)
    PROVE  OneStep
<1>1. /\ Pending /\ Promoting /\ tab[t].wit = journal.env /\ decoy.meta = tab[t].wit
  BY Source DEF Mark, At, Copying
<1>2. real = decoy
  BY DEF Mark, At, Inv, Stage
<1>3. UNCHANGED <<real, decoy>> /\ journal' = [journal EXCEPT !.phase = "copied"]
  BY <1>1 DEF Mark, disk
<1>4. ~Pending' /\ Promoting'
  BY <1>3 DEF Pending, Promoting, Inv, Disks
<1> QED
  BY <1>1, <1>2, <1>3, <1>4 DEF OneStep, Acct, Ver, Cover, VerOf

LEMMA OneClearJournal ==
    ASSUME Inv, NEW t \in Tab, ClearJournal(t)
    PROVE  OneStep
<1>1. Copied /\ decoy = Empty
  BY DEF ClearJournal, At, Inv, Stage
<1>2. UNCHANGED <<real, decoy>> /\ journal' \in {journal, NoJournal}
  BY DEF ClearJournal, disk
<1>3. ~Pending /\ ~Pending' /\ Promoting
  BY <1>1, <1>2 DEF Pending, Promoting, Copied, NoJournal
<1>4. Cover = None /\ Cover' = None
  BY <1>1, <1>2, <1>3 DEF Cover, Empty
<1> QED
  BY <1>2, <1>3, <1>4 DEF OneStep, Acct, Ver, VerOf

LEMMA OneMutation ==
    ASSUME Inv, NEW t \in Tab, Mutation(t)
    PROVE  OneStep
<1>1. CASE Removal(t) \/ Remove(t) \/ Disarm(t) \/ Unmark(t) \/ Arm(t) \/ Fire(t)
           \/ Promote(t) \/ Fence(t) \/ AssertSource(t) \/ Finish(t)
  <2>1. UNCHANGED <<real, decoy, journal>>
    BY <1>1 DEF Removal, Remove, Disarm, Unmark, Arm, Fire, Promote, Fence,
       AssertSource, Finish, disk, marks
  <2> QED
    BY <2>1, OneStutters
<1>2. CASE Neutralize(t)
  <2>1. ~Promoting
    BY <1>2, Calm DEF Neutralize, At, Early
  <2> QED
    BY <1>2, <2>1, OneNeutralize DEF Neutralize, marks
<1>3. CASE Flag(t)
  <2>1. ~Promoting
    BY <1>3, Calm DEF Flag, At, Early
  <2>2. UNCHANGED <<real, journal>> /\ (decoy' = Empty \/ UNCHANGED decoy)
    BY <1>3 DEF Flag, marks
  <2> QED
    BY <2>1, <2>2, OneNeutralize, OneStutters
<1>4. CASE Wipe(t) \/ Clear(t) \/ Copy(t)
  <2>1. Pending
    BY <1>4, Source DEF Wipe, Clear, Copy, CopyBatch, At, Copying
  <2>2. UNCHANGED <<decoy, journal>>
    BY <1>4 DEF Wipe, Clear, Copy, CopyBatch, marks
  <2> QED
    BY <2>1, <2>2, OneStutters
<1>5. CASE Delete(t)
  <2>1. Promoting /\ ~Pending
    BY <1>5 DEF Delete, At, Inv, Stage, Copied, Promoting, Pending
  <2> QED
    BY <1>5, <2>1, OneStutters DEF Delete, marks
<1> QED
  BY <1>1, <1>2, <1>3, <1>4, <1>5, OneProvision, OneBind, OneMark, OneClearJournal
     DEF Mutation

LEMMA OneNext ==
    ASSUME Inv, [Next]_vars
    PROVE  OneStep
<1>1. CASE UNCHANGED vars
  BY <1>1, OneStutters DEF vars, disk, marks
<1>2. CASE QueuedDelete
  <2>1. Promoting /\ ~Pending /\ UNCHANGED <<real, journal>>
    BY <1>2 DEF QueuedDelete, Inv, Copied, Promoting, Pending, marks
  <2> QED
    BY <2>1, OneStutters
<1>3. CASE LeaseLapses
  BY <1>3, OneStutters DEF LeaseLapses, disk, marks
<1>4. ASSUME NEW t \in Tab,
             \/ Reopen(t) \/ Boot(t) \/ Unlock(t) \/ TypeDuress(t) \/ Lock(t)
             \/ Lockdown(t) \/ StartArm(t) \/ StartRemove(t) \/ EnterDecoy(t)
             \/ ExitDecoy(t) \/ Acquire(t) \/ GiveUp(t) \/ Crash(t)
      PROVE  OneStep
  <2>1. UNCHANGED <<real, decoy, journal>>
    BY <1>4 DEF Reopen, Boot, BootRemoval, BootPromotion, Unlock, TypeDuress, Lock,
       Lockdown, StartArm, StartRemove, EnterDecoy, ExitDecoy, Acquire, GiveUp, Crash,
       disk, marks
  <2> QED
    BY <2>1, OneStutters
<1> QED
  BY <1>1, <1>2, <1>3, <1>4, OneWrite, OneFill, OneMutation DEF Next

\* The two databases and the journals implement the one account whose cover
\* replaces it in one step (the journal of openDecoyAndWipeReal is that step):
\* the refinement the run checks, for any number of tabs, armings and deaths.
THEOREM OneAccountTheorem ==
    ASSUME Timely = TRUE, Prompt = TRUE
    PROVE  Spec => ImplementsOneAccount
<1>1. Init => One!Init
  <2> SUFFICES ASSUME Init PROVE One!Init
    OBVIOUS
  <2>1. journal.phase = "none" /\ real.meta = 0 /\ real.records = [env |-> 0, ver |-> 0]
        /\ decoy.meta = None
    BY DEF Init, NoJournal, Whole, Empty
  <2>2. ~Pending /\ ~Promoting /\ real.records # None
    BY <2>1, InitInv, Distinct DEF Pending, Promoting, Inv, RealBooks, Sound
  <2>3. Acct = 0 /\ Ver = 0 /\ Cover = None
    BY <2>1, <2>2 DEF Acct, Ver, Cover, VerOf
  <2> QED
    BY <2>3, ShortOne
<1>2. Inv /\ [Next]_vars => [One!Next]_(One!vars)
  <2> SUFFICES ASSUME Inv, [Next]_vars PROVE [One!Next]_(One!vars)
    OBVIOUS
  <2>1. One!Next \/ UNCHANGED <<Acct, Ver, Cover>>
    BY OneNext DEF OneStep
  <2>2. UNCHANGED <<Acct, Ver, Cover>> => UNCHANGED One!vars
    BY DEF One!vars, Acct, Ver, Cover
  <2> QED
    BY <2>1, <2>2
<1> QED
  BY <1>1, <1>2, DuressInvariant, PTL DEF Spec, ImplementsOneAccount, One!Spec

=============================================================================
