------------------------- MODULE AccountStore_proofs -------------------------
(***************************************************************************)
(* What AccountStore promises for any number of tabs, restores, writes and *)
(* generations and for any length of the lease.  Inv is inductive: the     *)
(* books below say what a tab's memory can differ from the database in.    *)
(*                                                                         *)
(* And what BlobQuota promises for any sizes, owners, requests and passes  *)
(* beside the alarm's: BlobInv.                                            *)
(***************************************************************************)
EXTENDS AccountStore, BlobQuota, FiniteSetTheorems, WellFoundedInduction, TLAPS

\* A tab that has opened the database observed a generation that existed, and
\* has in memory the account it observed until its own restore replaces it.
GenBooks ==
    \A t \in Tab :
        /\ loaded[t] <= observed[t] /\ observed[t] <= gen
        /\ observed[t] # 0 => loaded[t] # 0
        /\ loaded[t] # observed[t] => restore[t].pc = "done"
        /\ observed[t] = 0 => ~blocked[t] /\ restore[t].pc = "idle"

\* A write is under way only in a tab that runs no import.
WriteBooks ==
    \A t \in Tab : write[t] # NoWrite =>
        /\ write[t].id # 0
        /\ observed[t] # 0
        /\ write[t].gen = loaded[t]
        /\ restore[t].pc = "idle"

\* The token is the running restore's, and no two tabs have the same.
RestoreBooks ==
    /\ \A t \in Tab :
        IF restore[t].pc \in {"idle", "done"}
          THEN token[t] = 0
          ELSE token[t] = restore[t].id /\ token[t] \in 1 .. restores
    /\ \A t, u \in Tab : token[t] = token[u] /\ token[t] # 0 => t = u

\* The identity is staged first, so while it is there nothing staged is missing.
StageBooks ==
    \A t \in Tab :
        restore[t].pc = "staging" /\ <<restore[t].id, Identity>> \in stage =>
            \A k \in 1 .. restore[t].staged : <<restore[t].id, k>> \in stage

\* A restore whose lease never ran out still holds it, unless the account was
\* cleared meanwhile, and no tab has written since it began.
LeaseBooks ==
    \A t \in Tab : restore[t].pc = "staging" /\ restore[t].id \notin lapsed =>
        \/ observed[t] # gen
        \/ /\ lock.token = restore[t].id
           /\ now < lock.expiresAt
           /\ {r \in records : r.kind = "write"} \subseteq restore[t].base

Inv ==
    /\ TypeOK /\ GenBooks /\ WriteBooks /\ RestoreBooks /\ StageBooks /\ LeaseBooks
    /\ OneGeneration /\ RestoreWhole /\ LatchIsPermanentOnlyIfStale

-----------------------------------------------------------------------------
\* The bounds, one by one.
LEMMA Sizes ==
    /\ Pieces \in Nat /\ Pieces > 0 /\ Lease \in Nat /\ Lease > 0
    /\ MaxGen \in Nat /\ MaxGen > 0 /\ MaxTime \in Nat
    /\ MaxRestores \in Nat /\ MaxWrites \in Nat
BY SizesAssumption

\* The initial state: no tab has opened the database.
LEMMA InitInv == Init => Inv
<1> SUFFICES ASSUME Init PROVE Inv
  OBVIOUS
<1> USE Sizes DEF Init, NoLock, NoWrite, NoRestore
<1>1. TypeOK
  <2>1. lock \in [token : 0 .. MaxRestores, expiresAt : 0 .. MaxTime + Lease]
    OBVIOUS
  <2>2. restore \in [Tab -> RestoreRun]
    BY DEF RestoreRun
  <2>3. write \in [Tab -> [id : 0 .. MaxWrites, gen : 0 .. MaxGen]]
    OBVIOUS
  <2>4. net \in [Tab -> SUBSET Message]
    OBVIOUS
  <2>5. /\ gen \in 0 .. MaxGen /\ now \in 0 .. MaxTime
        /\ restores \in 0 .. MaxRestores /\ writes \in 0 .. MaxWrites
    OBVIOUS
  <2>6. fence \in BOOLEAN /\ records = {} /\ stage = {} /\ lapsed = {} /\ leaving = {}
    OBVIOUS
  <2>7. /\ observed \in [Tab -> 0 .. MaxGen] /\ loaded \in [Tab -> 0 .. MaxGen]
        /\ blocked \in [Tab -> BOOLEAN] /\ token \in [Tab -> 0 .. MaxRestores]
    OBVIOUS
  <2> QED
    BY <2>1, <2>2, <2>3, <2>4, <2>5, <2>6, <2>7 DEF TypeOK
<1>2. GenBooks /\ WriteBooks /\ RestoreBooks
  BY DEF GenBooks, WriteBooks, RestoreBooks
<1>3. StageBooks /\ LeaseBooks
  BY DEF StageBooks, LeaseBooks
<1>4. OneGeneration /\ RestoreWhole /\ LatchIsPermanentOnlyIfStale
  BY DEF OneGeneration, RestoreWhole, LatchIsPermanentOnlyIfStale
<1> QED
  BY <1>1, <1>2, <1>3, <1>4 DEF Inv

\* Opening the database adopts its generation.
LEMMA OpenDbInv ==
    ASSUME NEW t0 \in Tab, Inv, OpenDb(t0) PROVE Inv'
<1> USE Sizes DEF OpenDb, flow, clocks
<1>1. TypeOK'
  BY DEF Inv, TypeOK, Written, Restored, RestoreRun, Message, NoLock,
       NoWrite, NoRestore
<1>2. GenBooks'
  BY DEF Inv, GenBooks, TypeOK
<1>3. WriteBooks'
  BY DEF Inv, WriteBooks
<1>4. RestoreBooks'
  BY DEF Inv, RestoreBooks
<1>5. StageBooks'
  BY DEF Inv, StageBooks
<1>6. LeaseBooks'
  BY DEF Inv, LeaseBooks, TypeOK, RestoreBooks, NoRestore, GenBooks,
       WriteBooks
<1>7. OneGeneration'
  BY DEF Inv, OneGeneration, TypeOK, Written, Restored
<1>8. RestoreWhole'
  BY DEF Inv, RestoreWhole
<1>9. LatchIsPermanentOnlyIfStale'
  BY DEF Inv, LatchIsPermanentOnlyIfStale, TypeOK, GenBooks, Superseded,
       NoRestore
<1> QED
  BY <1>1, <1>2, <1>3, <1>4, <1>5, <1>6, <1>7, <1>8, <1>9 DEF Inv

\* A write past the latch check belongs to a tab that runs no import.
LEMMA IssueWriteInv ==
    ASSUME NEW t0 \in Tab, Inv, IssueWrite(t0) PROVE Inv'
<1> USE Sizes DEF IssueWrite, durable, ram, CanIssue
<1>1. TypeOK'
  BY DEF Inv, TypeOK
<1>2. GenBooks'
  BY DEF Inv, GenBooks
<1>3. WriteBooks'
  BY DEF Inv, WriteBooks, TypeOK
<1>4. RestoreBooks'
  BY DEF Inv, RestoreBooks
<1>5. StageBooks'
  BY DEF Inv, StageBooks
<1>6. LeaseBooks'
  BY DEF Inv, LeaseBooks
<1>7. OneGeneration'
  BY DEF Inv, OneGeneration
<1>8. RestoreWhole'
  BY DEF Inv, RestoreWhole
<1>9. LatchIsPermanentOnlyIfStale'
  BY DEF Inv, LatchIsPermanentOnlyIfStale, TypeOK, GenBooks, Superseded,
       NoRestore
<1> QED
  BY <1>1, <1>2, <1>3, <1>4, <1>5, <1>6, <1>7, <1>8, <1>9 DEF Inv

\* A refused transaction changes at most the latch and ends what its tab had under way.
LEMMA RefusedInv ==
    ASSUME NEW t0 \in Tab, Inv, Refuse(t0), observed[t0] # 0,
           write' = write \/ write' = [write EXCEPT ![t0] = NoWrite],
           restore' = restore \/ (restore[t0].pc = "staging" /\ Goto(t0, "failed")),
           UNCHANGED <<durable, observed, token, loaded, leaving, net, clocks>>
    PROVE Inv'
<1> USE Sizes
<1>0. /\ blocked' = [blocked EXCEPT ![t0] = @ \/ Superseded(t0)]
      /\ \/ restore' = restore
         \/ restore[t0].pc = "staging" /\ restore' = [restore EXCEPT ![t0].pc = "failed"]
      /\ \A t \in Tab : /\ restore'[t].id = restore[t].id
                        /\ restore'[t].staged = restore[t].staged
                        /\ restore'[t].base = restore[t].base
                        /\ \/ restore'[t].pc = restore[t].pc
                           \/ restore[t].pc = "staging" /\ restore'[t].pc = "failed"
      /\ UNCHANGED <<gen, lock, fence, stage, records, now, restores, writes, lapsed>>
  <2>1. \A t \in Tab : restore[t] \in RestoreRun
    BY DEF Inv, TypeOK
  <2>2. CASE restore' = restore
    BY <2>2 DEF Refuse, durable, clocks
  <2>3. CASE restore[t0].pc = "staging" /\ Goto(t0, "failed")
    <3>1. restore' = [restore EXCEPT ![t0].pc = "failed"] /\ restore \in [Tab -> RestoreRun]
      BY <2>3 DEF Goto, Inv, TypeOK
    <3>2. \A t \in Tab : /\ restore'[t].id = restore[t].id
                         /\ restore'[t].staged = restore[t].staged
                         /\ restore'[t].base = restore[t].base
                         /\ \/ restore'[t].pc = restore[t].pc
                            \/ restore[t].pc = "staging" /\ restore'[t].pc = "failed"
      BY <2>1, <2>3, <3>1 DEF RestoreRun
    <3> QED
      BY <2>3, <3>1, <3>2 DEF Refuse, durable, clocks
  <2> QED
    BY <2>2, <2>3
<1>1. TypeOK'
  <2>1. /\ gen' \in 0 .. MaxGen /\ fence' \in BOOLEAN
        /\ lock' \in [token : 0 .. MaxRestores, expiresAt : 0 .. MaxTime + Lease]
        /\ now' \in 0 .. MaxTime /\ restores' \in 0 .. MaxRestores
        /\ writes' \in 0 .. MaxWrites /\ lapsed' \subseteq 1 .. MaxRestores
    BY <1>0 DEF Superseded, Inv, TypeOK, NoLock
  <2>2. stage' \subseteq (1 .. MaxRestores) \X (1 .. Pieces)
    BY <1>0 DEF Superseded, Inv, TypeOK
  <2>3. records' \subseteq Written \cup Restored
    BY <1>0 DEF Superseded, Inv, TypeOK
  <2>4. /\ observed' \in [Tab -> 0 .. MaxGen] /\ loaded' \in [Tab -> 0 .. MaxGen]
        /\ blocked' \in [Tab -> BOOLEAN] /\ token' \in [Tab -> 0 .. MaxRestores]
    BY <1>0 DEF Superseded, Inv, TypeOK
  <2>5. /\ write' \in [Tab -> [id : 0 .. MaxWrites, gen : 0 .. MaxGen]]
        /\ leaving' \subseteq Tab
    BY <1>0 DEF Superseded, Inv, TypeOK, NoWrite
  <2>6. net' \in [Tab -> SUBSET Message]
    BY <1>0 DEF Superseded, Inv, TypeOK, Message
  <2>7. restore' \in [Tab -> RestoreRun]
    BY <1>0 DEF Superseded, Inv, TypeOK, RestoreRun
  <2> QED
    BY <2>1, <2>2, <2>3, <2>4, <2>5, <2>6, <2>7 DEF TypeOK
<1>2. GenBooks'
  BY <1>0 DEF Inv, GenBooks, TypeOK
<1>3. WriteBooks'
  BY <1>0 DEF Inv, WriteBooks, TypeOK, NoWrite
<1>4. RestoreBooks'
  BY <1>0 DEF Inv, RestoreBooks
<1>5. StageBooks'
  BY <1>0 DEF Inv, StageBooks
<1>6. LeaseBooks'
  BY <1>0 DEF Inv, LeaseBooks
<1>7. OneGeneration'
  BY <1>0 DEF Inv, OneGeneration
<1>8. RestoreWhole'
  BY <1>0 DEF Inv, RestoreWhole
<1>9. LatchIsPermanentOnlyIfStale'
  BY <1>0 DEF Inv, LatchIsPermanentOnlyIfStale, TypeOK, Superseded, GenBooks
<1> QED
  BY <1>1, <1>2, <1>3, <1>4, <1>5, <1>6, <1>7, <1>8, <1>9 DEF Inv

\* A write that lands was composed from the live account, under nobody's lease.
LEMMA WriteTxInv ==
    ASSUME NEW t0 \in Tab, Inv, WriteTx(t0), MayMutate(t0) PROVE Inv'
<1> USE Sizes
<1>0. /\ records' = records \cup
             {[kind |-> "write", id |-> write[t0].id, of |-> write[t0].gen]}
      /\ write[t0] # NoWrite /\ write' = [write EXCEPT ![t0] = NoWrite]
      /\ observed[t0] = gen /\ restore[t0].pc = "idle" /\ loaded[t0] = gen /\ gen # 0
      /\ write[t0].gen = gen /\ write[t0].id # 0
      /\ lock = NoLock \/ (now < lock.expiresAt => lock.token = 0)
      /\ UNCHANGED <<gen, lock, fence, stage, observed, blocked, token, loaded>>
      /\ UNCHANGED <<restore, leaving, net, now, restores, writes, lapsed>>
  <2>1. /\ observed[t0] = gen /\ restore[t0].pc = "idle" /\ loaded[t0] = gen /\ gen # 0
        /\ write[t0].gen = gen /\ write[t0].id # 0 /\ token[t0] = 0
    BY DEF WriteTx, MayMutate, Superseded, Inv, GenBooks, WriteBooks, RestoreBooks
  <2>2. lock = NoLock \/ (now < lock.expiresAt => lock.token = 0)
    BY <2>1 DEF MayMutate, RestoreLockBlocks, Inv, TypeOK
  <2> QED
    BY <2>1, <2>2 DEF WriteTx, clocks
<1>1. TypeOK'
  <2>1. /\ gen' \in 0 .. MaxGen /\ fence' \in BOOLEAN
        /\ lock' \in [token : 0 .. MaxRestores, expiresAt : 0 .. MaxTime + Lease]
        /\ now' \in 0 .. MaxTime /\ restores' \in 0 .. MaxRestores
        /\ writes' \in 0 .. MaxWrites /\ lapsed' \subseteq 1 .. MaxRestores
    BY <1>0 DEF Inv, TypeOK, NoLock
  <2>2. stage' \subseteq (1 .. MaxRestores) \X (1 .. Pieces)
    BY <1>0 DEF Inv, TypeOK
  <2>3. records' \subseteq Written \cup Restored
    <3>1. write[t0].id \in 1 .. MaxWrites /\ write[t0].gen \in 1 .. MaxGen
      BY <1>0 DEF Inv, TypeOK
    <3> QED
      BY <1>0, <3>1 DEF Inv, TypeOK, Written
  <2>4. /\ observed' \in [Tab -> 0 .. MaxGen] /\ loaded' \in [Tab -> 0 .. MaxGen]
        /\ blocked' \in [Tab -> BOOLEAN] /\ token' \in [Tab -> 0 .. MaxRestores]
    BY <1>0 DEF Inv, TypeOK
  <2>5. /\ write' \in [Tab -> [id : 0 .. MaxWrites, gen : 0 .. MaxGen]]
        /\ leaving' \subseteq Tab
    BY <1>0 DEF Inv, TypeOK, NoWrite
  <2>6. net' \in [Tab -> SUBSET Message]
    BY <1>0 DEF Inv, TypeOK, Message
  <2>7. restore' \in [Tab -> RestoreRun]
    BY <1>0 DEF Inv, TypeOK, RestoreRun
  <2> QED
    BY <2>1, <2>2, <2>3, <2>4, <2>5, <2>6, <2>7 DEF TypeOK
<1>2. GenBooks'
  BY <1>0 DEF Inv, GenBooks
<1>3. WriteBooks'
  BY <1>0 DEF Inv, WriteBooks, TypeOK
<1>4. RestoreBooks'
  BY <1>0 DEF Inv, RestoreBooks
<1>5. StageBooks'
  BY <1>0 DEF Inv, StageBooks
<1>6. LeaseBooks'
  <2> SUFFICES ASSUME NEW t \in Tab, restore'[t].pc = "staging",
                      restore'[t].id \notin lapsed', observed'[t] = gen'
               PROVE  /\ lock'.token = restore'[t].id /\ now' < lock'.expiresAt
                      /\ {r \in records' : r.kind = "write"} \subseteq restore'[t].base
    BY DEF LeaseBooks
  <2>1. lock.token = restore[t].id /\ now < lock.expiresAt
    BY <1>0 DEF Inv, LeaseBooks
  <2>2. restore[t].id # 0 /\ t # t0
    BY <1>0 DEF Inv, RestoreBooks, TypeOK
  <2> QED
    BY <1>0, <2>1, <2>2 DEF NoLock
<1>7. OneGeneration'
  BY <1>0 DEF Inv, OneGeneration
<1>8. RestoreWhole'
  BY <1>0 DEF Inv, RestoreWhole
<1>9. LatchIsPermanentOnlyIfStale'
  BY <1>0 DEF Inv, LatchIsPermanentOnlyIfStale, Superseded
<1> QED
  BY <1>1, <1>2, <1>3, <1>4, <1>5, <1>6, <1>7, <1>8, <1>9 DEF Inv

\* A restore begins on an empty stage, with a token nobody else has.
LEMMA BeginInv ==
    ASSUME NEW t0 \in Tab, Inv, BeginAccountRestore(t0), MayMutate(t0) PROVE Inv'
<1> USE Sizes
<1>0. /\ stage' = {} /\ restores' = restores + 1 /\ restores < MaxRestores
      /\ lock' = [token |-> restores + 1, expiresAt |-> now + Lease]
      /\ token' = [token EXCEPT ![t0] = restores + 1]
      /\ blocked' = [blocked EXCEPT ![t0] = TRUE]
      /\ restore' = [restore EXCEPT ![t0] =
           [pc |-> "staging", id |-> restores + 1, staged |-> 0, base |-> records]]
      /\ observed[t0] # 0 /\ write[t0] = NoWrite /\ restore[t0].pc = "idle"
      /\ token[t0] = 0
      /\ lock = NoLock \/ (now < lock.expiresAt => lock.token = 0)
      /\ UNCHANGED <<gen, fence, records, observed, loaded>>
      /\ UNCHANGED <<write, leaving, net, now, writes, lapsed>>
  <2>1. token[t0] = 0
    BY DEF BeginAccountRestore, CanIssue, Inv, RestoreBooks
  <2>2. lock = NoLock \/ (now < lock.expiresAt => lock.token = 0)
    BY <2>1 DEF MayMutate, RestoreLockBlocks, Inv, TypeOK
  <2> QED
    BY <2>1, <2>2 DEF BeginAccountRestore, CanIssue, FreshLock
<1>1. TypeOK'
  <2>1. /\ gen' \in 0 .. MaxGen /\ fence' \in BOOLEAN
        /\ lock' \in [token : 0 .. MaxRestores, expiresAt : 0 .. MaxTime + Lease]
        /\ now' \in 0 .. MaxTime /\ restores' \in 0 .. MaxRestores
        /\ writes' \in 0 .. MaxWrites /\ lapsed' \subseteq 1 .. MaxRestores
    BY <1>0 DEF Inv, TypeOK, NoLock
  <2>2. stage' \subseteq (1 .. MaxRestores) \X (1 .. Pieces)
    BY <1>0 DEF Inv, TypeOK
  <2>3. records' \subseteq Written \cup Restored
    BY <1>0 DEF Inv, TypeOK
  <2>4. /\ observed' \in [Tab -> 0 .. MaxGen] /\ loaded' \in [Tab -> 0 .. MaxGen]
        /\ blocked' \in [Tab -> BOOLEAN] /\ token' \in [Tab -> 0 .. MaxRestores]
    BY <1>0 DEF Inv, TypeOK
  <2>5. /\ write' \in [Tab -> [id : 0 .. MaxWrites, gen : 0 .. MaxGen]]
        /\ leaving' \subseteq Tab
    BY <1>0 DEF Inv, TypeOK, NoWrite
  <2>6. net' \in [Tab -> SUBSET Message]
    BY <1>0 DEF Inv, TypeOK, Message
  <2>7. restore' \in [Tab -> RestoreRun]
    <3>1. [pc |-> "staging", id |-> restores + 1, staged |-> 0, base |-> records]
            \in RestoreRun
      BY <1>0 DEF Inv, TypeOK, RestoreRun
    <3> QED
      BY <1>0, <3>1 DEF Inv, TypeOK
  <2> QED
    BY <2>1, <2>2, <2>3, <2>4, <2>5, <2>6, <2>7 DEF TypeOK
<1>2. GenBooks'
  BY <1>0 DEF Inv, GenBooks, TypeOK
<1>3. WriteBooks'
  BY <1>0 DEF Inv, WriteBooks, TypeOK
<1>4. RestoreBooks'
  <2>1. \A t \in Tab : token[t] \in 0 .. restores
    BY DEF Inv, RestoreBooks, TypeOK
  <2>2. \A t \in Tab \ {t0} : token'[t] = token[t] /\ restore'[t] = restore[t]
    BY <1>0 DEF Inv, TypeOK
  <2>3. /\ token'[t0] = restores + 1 /\ restore'[t0].pc = "staging"
        /\ restore'[t0].id = restores + 1
    BY <1>0 DEF Inv, TypeOK
  <2>4. restores \in Nat /\ restores' = restores + 1
    BY <1>0 DEF Inv, TypeOK
  <2> QED
    BY <2>1, <2>2, <2>3, <2>4 DEF Inv, RestoreBooks
<1>5. StageBooks'
  BY <1>0 DEF Inv, StageBooks, TypeOK
<1>6. LeaseBooks'
  <2> SUFFICES ASSUME NEW t \in Tab, restore'[t].pc = "staging",
                      restore'[t].id \notin lapsed', observed'[t] = gen'
               PROVE  /\ lock'.token = restore'[t].id /\ now' < lock'.expiresAt
                      /\ {r \in records' : r.kind = "write"} \subseteq restore'[t].base
    BY DEF LeaseBooks
  <2>1. CASE t = t0
    BY <1>0, <2>1 DEF Inv, TypeOK
  <2>2. CASE t # t0
    <3>1. lock.token = restore[t].id /\ now < lock.expiresAt
      BY <1>0, <2>2 DEF Inv, LeaseBooks, TypeOK
    <3>2. restore[t].id # 0
      BY <1>0, <2>2 DEF Inv, RestoreBooks, TypeOK
    <3> QED
      BY <1>0, <3>1, <3>2 DEF NoLock
  <2> QED
    BY <2>1, <2>2
<1>7. OneGeneration'
  BY <1>0 DEF Inv, OneGeneration
<1>8. RestoreWhole'
  BY <1>0 DEF Inv, RestoreWhole
<1>9. LatchIsPermanentOnlyIfStale'
  <2> SUFFICES ASSUME NEW t \in Tab, blocked'[t]
               PROVE  \/ token'[t] # 0 \/ restore'[t].pc = "done" \/ t \in leaving'
                      \/ Superseded(t)'
    BY DEF LatchIsPermanentOnlyIfStale
  <2>1. CASE t = t0
    BY <1>0, <2>1 DEF Inv, TypeOK
  <2>2. CASE t # t0
    BY <1>0, <2>2 DEF Inv, TypeOK, LatchIsPermanentOnlyIfStale, Superseded
  <2> QED
    BY <2>1, <2>2
<1> QED
  BY <1>1, <1>2, <1>3, <1>4, <1>5, <1>6, <1>7, <1>8, <1>9 DEF Inv

\* Staging one more record keeps what was staged.
LEMMA StageInv ==
    ASSUME NEW t0 \in Tab, Inv, StageRestoreRecord(t0), MayMutate(t0) PROVE Inv'
<1> USE Sizes
<1>0. /\ restore[t0].pc = "staging" /\ restore[t0].staged < Pieces
      /\ stage' = stage \cup {<<restore[t0].id, restore[t0].staged + 1>>}
      /\ lock' = [token |-> token[t0], expiresAt |-> now + Lease]
      /\ restore' = [restore EXCEPT ![t0].staged = @ + 1]
      /\ token[t0] = restore[t0].id /\ token[t0] \in 1 .. restores
      /\ lock = NoLock \/ (now < lock.expiresAt => lock.token = token[t0])
      /\ UNCHANGED <<gen, fence, records, observed, blocked, token, loaded>>
      /\ UNCHANGED <<write, leaving, net, now, restores, writes, lapsed>>
  <2>1. token[t0] = restore[t0].id /\ token[t0] \in 1 .. restores
    BY DEF StageRestoreRecord, Inv, RestoreBooks
  <2>2. lock = NoLock \/ (now < lock.expiresAt => lock.token = token[t0])
    BY DEF MayMutate, RestoreLockBlocks, Inv, TypeOK
  <2> QED
    BY <2>1, <2>2 DEF StageRestoreRecord, FreshLock, More, clocks
<1>a. /\ \A t \in Tab : /\ restore'[t].pc = restore[t].pc
                        /\ restore'[t].id = restore[t].id
                        /\ restore'[t].base = restore[t].base
                        /\ t # t0 => restore'[t].staged = restore[t].staged
      /\ restore'[t0].staged = restore[t0].staged + 1
      /\ \A t \in Tab : restore[t].staged \in Nat
  BY <1>0 DEF Inv, TypeOK, RestoreRun
<1>b. \A t \in Tab \ {t0} : restore[t].pc = "staging" => restore[t].id # restore[t0].id
  BY <1>0 DEF Inv, RestoreBooks
<1>1. TypeOK'
  <2>1. /\ gen' \in 0 .. MaxGen /\ fence' \in BOOLEAN
        /\ lock' \in [token : 0 .. MaxRestores, expiresAt : 0 .. MaxTime + Lease]
        /\ now' \in 0 .. MaxTime /\ restores' \in 0 .. MaxRestores
        /\ writes' \in 0 .. MaxWrites /\ lapsed' \subseteq 1 .. MaxRestores
    BY <1>0 DEF Inv, TypeOK, NoLock
  <2>2. stage' \subseteq (1 .. MaxRestores) \X (1 .. Pieces)
    <3>1. /\ restore[t0].id \in 1 .. MaxRestores
          /\ restore[t0].staged + 1 \in 1 .. Pieces
      BY <1>0, <1>a DEF Inv, TypeOK
    <3> QED
      BY <1>0, <3>1 DEF Inv, TypeOK
  <2>3. records' \subseteq Written \cup Restored
    BY <1>0 DEF Inv, TypeOK
  <2>4. /\ observed' \in [Tab -> 0 .. MaxGen] /\ loaded' \in [Tab -> 0 .. MaxGen]
        /\ blocked' \in [Tab -> BOOLEAN] /\ token' \in [Tab -> 0 .. MaxRestores]
    BY <1>0 DEF Inv, TypeOK
  <2>5. /\ write' \in [Tab -> [id : 0 .. MaxWrites, gen : 0 .. MaxGen]]
        /\ leaving' \subseteq Tab
    BY <1>0 DEF Inv, TypeOK, NoWrite
  <2>6. net' \in [Tab -> SUBSET Message]
    BY <1>0 DEF Inv, TypeOK, Message
  <2>7. restore' \in [Tab -> RestoreRun]
    <3>1. restore[t0].staged + 1 \in 0 .. Pieces
      BY <1>0, <1>a DEF Inv, TypeOK
    <3>2. [restore[t0] EXCEPT !.staged = @ + 1] \in RestoreRun
      BY <3>1 DEF Inv, TypeOK, RestoreRun
    <3> QED
      BY <1>0, <3>2 DEF Inv, TypeOK
  <2> QED
    BY <2>1, <2>2, <2>3, <2>4, <2>5, <2>6, <2>7 DEF TypeOK
<1>2. GenBooks'
  BY <1>0, <1>a DEF Inv, GenBooks
<1>3. WriteBooks'
  BY <1>0, <1>a DEF Inv, WriteBooks
<1>4. RestoreBooks'
  BY <1>0, <1>a DEF Inv, RestoreBooks
<1>5. StageBooks'
  <2> SUFFICES ASSUME NEW t \in Tab, restore[t].pc = "staging",
                      <<restore[t].id, Identity>> \in stage',
                      NEW k \in 1 .. restore'[t].staged
               PROVE  <<restore[t].id, k>> \in stage'
    BY <1>a DEF StageBooks
  <2>1. CASE t # t0
    BY <1>0, <1>a, <1>b, <2>1 DEF Inv, StageBooks
  <2>2. CASE t = t0 /\ k = restore[t].staged + 1
    BY <1>0, <2>2
  <2>3. CASE t = t0 /\ k # restore[t].staged + 1
    <3>1. k \in 1 .. restore[t].staged
      BY <1>a, <2>3
    <3>2. <<restore[t].id, Identity>> \in stage
      BY <1>0, <1>a, <2>3, <3>1 DEF Identity
    <3> QED
      BY <1>0, <3>1, <3>2 DEF Inv, StageBooks
  <2> QED
    BY <2>1, <2>2, <2>3
<1>6. LeaseBooks'
  <2> SUFFICES ASSUME NEW t \in Tab, restore'[t].pc = "staging",
                      restore'[t].id \notin lapsed', observed'[t] = gen'
               PROVE  /\ lock'.token = restore'[t].id /\ now' < lock'.expiresAt
                      /\ {r \in records' : r.kind = "write"} \subseteq restore'[t].base
    BY DEF LeaseBooks
  <2>1. /\ lock.token = restore[t].id /\ now < lock.expiresAt
        /\ {r \in records : r.kind = "write"} \subseteq restore[t].base
    BY <1>0, <1>a DEF Inv, LeaseBooks
  <2>2. t = t0
    BY <1>0, <1>a, <1>b, <2>1 DEF NoLock, Inv, RestoreBooks
  <2> QED
    BY <1>0, <1>a, <2>1, <2>2 DEF Inv, TypeOK
<1>7. OneGeneration'
  BY <1>0 DEF Inv, OneGeneration
<1>8. RestoreWhole'
  BY <1>0 DEF Inv, RestoreWhole
<1>9. LatchIsPermanentOnlyIfStale'
  BY <1>0, <1>a DEF Inv, LatchIsPermanentOnlyIfStale, Superseded
<1> QED
  BY <1>1, <1>2, <1>3, <1>4, <1>5, <1>6, <1>7, <1>8, <1>9 DEF Inv

\* A commit replaces all records by the whole stage.
LEMMA CommitInv ==
    ASSUME NEW t0 \in Tab, Inv,
           CommitRestoreStage(t0), MayMutate(t0), StageComplete(t0)
    PROVE  Inv'
<1> USE Sizes
<1>0. /\ restore[t0].pc = "staging" /\ gen < MaxGen /\ gen' = gen + 1
      /\ records' = {[kind |-> "piece", id |-> restore[t0].id, of |-> s[2]] :
                       s \in StageOf(restore[t0].id)}
      /\ stage' = stage \ StageOf(restore[t0].id)
      /\ lock' = NoLock
      /\ observed' = [observed EXCEPT ![t0] = gen + 1]
      /\ token' = [token EXCEPT ![t0] = 0]
      /\ restore' = [restore EXCEPT ![t0].pc = "done"]
      /\ net' = [u \in Tab |-> IF u = t0 THEN net[u]
                   ELSE net[u] \cup {[type |-> "generation", gen |-> gen + 1]}]
      /\ UNCHANGED <<fence, blocked, loaded, write, leaving>>
      /\ UNCHANGED <<now, restores, writes, lapsed>>
  BY DEF CommitRestoreStage, Broadcast, Goto, clocks
<1>a. /\ restore'[t0].pc = "done" /\ observed'[t0] = gen + 1 /\ token'[t0] = 0
      /\ \A t \in Tab \ {t0} : /\ restore'[t] = restore[t] /\ token'[t] = token[t]
                               /\ observed'[t] = observed[t]
      /\ gen \in Nat /\ observed \in [Tab -> Nat] /\ loaded \in [Tab -> Nat]
      /\ observed[t0] = gen /\ loaded[t0] = gen /\ gen # 0
  BY <1>0 DEF Inv, TypeOK, MayMutate, Superseded, GenBooks
<1>b. \A t \in Tab \ {t0} : restore[t].pc = "staging" => restore[t].id # restore[t0].id
  BY <1>0 DEF Inv, RestoreBooks
<1>1. TypeOK'
  <2>1. /\ gen' \in 0 .. MaxGen /\ fence' \in BOOLEAN
        /\ lock' \in [token : 0 .. MaxRestores, expiresAt : 0 .. MaxTime + Lease]
        /\ now' \in 0 .. MaxTime /\ restores' \in 0 .. MaxRestores
        /\ writes' \in 0 .. MaxWrites /\ lapsed' \subseteq 1 .. MaxRestores
    BY <1>0 DEF Inv, TypeOK, NoLock
  <2>2. stage' \subseteq (1 .. MaxRestores) \X (1 .. Pieces)
    BY <1>0 DEF Inv, TypeOK, StageOf
  <2>3. records' \subseteq Written \cup Restored
    <3>1. \A s \in StageOf(restore[t0].id) :
            s[2] \in 1 .. Pieces /\ restore[t0].id \in 1 .. MaxRestores
      BY DEF StageOf, Inv, TypeOK
    <3> QED
      BY <1>0, <3>1 DEF Restored
  <2>4. /\ observed' \in [Tab -> 0 .. MaxGen] /\ loaded' \in [Tab -> 0 .. MaxGen]
        /\ blocked' \in [Tab -> BOOLEAN] /\ token' \in [Tab -> 0 .. MaxRestores]
    BY <1>0 DEF Inv, TypeOK
  <2>5. /\ write' \in [Tab -> [id : 0 .. MaxWrites, gen : 0 .. MaxGen]]
        /\ leaving' \subseteq Tab
    BY <1>0 DEF Inv, TypeOK, NoWrite
  <2>6. net' \in [Tab -> SUBSET Message]
    <3>1. [type |-> "generation", gen |-> gen + 1] \in Message
      BY <1>0, <1>a DEF Inv, TypeOK, Message
    <3> QED
      BY <1>0, <3>1 DEF Inv, TypeOK
  <2>7. restore' \in [Tab -> RestoreRun]
    BY <1>0 DEF Inv, TypeOK, RestoreRun
  <2> QED
    BY <2>1, <2>2, <2>3, <2>4, <2>5, <2>6, <2>7 DEF TypeOK
<1>2. GenBooks'
  BY <1>0, <1>a DEF Inv, GenBooks
<1>3. WriteBooks'
  BY <1>0, <1>a DEF Inv, WriteBooks
<1>4. RestoreBooks'
  BY <1>0, <1>a DEF Inv, RestoreBooks
<1>5. StageBooks'
  <2> SUFFICES ASSUME NEW t \in Tab \ {t0}, restore[t].pc = "staging",
                      <<restore[t].id, Identity>> \in stage',
                      NEW k \in 1 .. restore[t].staged
               PROVE  <<restore[t].id, k>> \in stage'
    BY <1>a DEF StageBooks
  <2>1. <<restore[t].id, k>> \in stage
    BY <1>0 DEF Inv, StageBooks
  <2> QED
    BY <1>0, <1>b, <2>1 DEF StageOf
<1>6. LeaseBooks'
  <2> SUFFICES ASSUME NEW t \in Tab, restore'[t].pc = "staging",
                      restore'[t].id \notin lapsed', observed'[t] = gen'
               PROVE  /\ lock'.token = restore'[t].id /\ now' < lock'.expiresAt
                      /\ {r \in records' : r.kind = "write"} \subseteq restore'[t].base
    BY DEF LeaseBooks
  <2>1. t # t0 /\ observed[t] = gen + 1
    BY <1>0, <1>a
  <2> QED
    BY <1>a, <2>1 DEF Inv, GenBooks
<1>7. OneGeneration'
  BY <1>0 DEF Inv, OneGeneration
<1>8. RestoreWhole'
  <2> SUFFICES ASSUME NEW k \in 1 .. Pieces
               PROVE  [kind |-> "piece", id |-> restore[t0].id, of |-> k] \in records'
    BY <1>0 DEF RestoreWhole
  <2>1. restore[t0].staged = Pieces
    <3>1. ~(restore[t0].staged < Pieces)
      BY DEF CommitRestoreStage, More
    <3>2. restore[t0].staged \in 0 .. Pieces
      BY DEF Inv, TypeOK, RestoreRun
    <3> QED
      BY <3>1, <3>2
  <2>2. <<restore[t0].id, k>> \in stage
    BY <1>0, <2>1 DEF StageComplete, Inv, StageBooks
  <2>3. <<restore[t0].id, k>> \in StageOf(restore[t0].id)
    BY <2>2 DEF StageOf
  <2> QED
    BY <1>0, <2>3
<1>9. LatchIsPermanentOnlyIfStale'
  <2> SUFFICES ASSUME NEW t \in Tab \ {t0}, blocked[t]
               PROVE  token[t] # 0 \/ restore[t].pc = "done" \/ t \in leaving
                      \/ observed[t] # gen + 1
    BY <1>0, <1>a DEF LatchIsPermanentOnlyIfStale, Superseded
  <2> QED
    BY <1>a DEF Inv, GenBooks
<1> QED
  BY <1>1, <1>2, <1>3, <1>4, <1>5, <1>6, <1>7, <1>8, <1>9 DEF Inv

\* An import that gives up still owns its token.
LEMMA AbortInv ==
    ASSUME NEW t0 \in Tab, Inv, AbortImport(t0) PROVE Inv'
<1> USE Sizes DEF AbortImport, durable, ram, clocks, Goto
<1>1. TypeOK'
  <2>1. restore' \in [Tab -> RestoreRun]
    BY DEF Inv, TypeOK, RestoreRun
  <2> QED
    BY <2>1 DEF Inv, TypeOK
<1>2. GenBooks'
  BY DEF Inv, GenBooks
<1>3. WriteBooks'
  BY DEF Inv, WriteBooks
<1>4. RestoreBooks'
  BY DEF Inv, RestoreBooks
<1>5. StageBooks'
  BY DEF Inv, StageBooks
<1>6. LeaseBooks'
  BY DEF Inv, LeaseBooks
<1>7. OneGeneration'
  BY DEF Inv, OneGeneration
<1>8. RestoreWhole'
  BY DEF Inv, RestoreWhole
<1>9. LatchIsPermanentOnlyIfStale'
  BY DEF Inv, LatchIsPermanentOnlyIfStale, TypeOK, GenBooks, Superseded,
       NoRestore
<1> QED
  BY <1>1, <1>2, <1>3, <1>4, <1>5, <1>6, <1>7, <1>8, <1>9 DEF Inv

\* Discarding a stage touches no other restore's.
LEMMA DiscardInv ==
    ASSUME NEW t0 \in Tab, Inv, DiscardRestoreStage(t0) PROVE Inv'
<1> USE Sizes DEF DiscardRestoreStage, ram, clocks, Goto, StageOf
<1>1. TypeOK'
  <2>1. restore' \in [Tab -> RestoreRun]
    BY DEF Inv, TypeOK, RestoreRun
  <2>2. stage' \subseteq stage
    OBVIOUS
  <2> QED
    BY <2>1, <2>2 DEF Inv, TypeOK
<1>2. GenBooks'
  BY DEF Inv, GenBooks
<1>3. WriteBooks'
  BY DEF Inv, WriteBooks
<1>4. RestoreBooks'
  BY DEF Inv, RestoreBooks
<1>5. StageBooks'
  BY DEF Inv, StageBooks
<1>6. LeaseBooks'
  BY DEF Inv, LeaseBooks
<1>7. OneGeneration'
  BY DEF Inv, OneGeneration
<1>8. RestoreWhole'
  BY DEF Inv, RestoreWhole
<1>9. LatchIsPermanentOnlyIfStale'
  BY DEF Inv, LatchIsPermanentOnlyIfStale, TypeOK, GenBooks, Superseded,
       NoRestore
<1> QED
  BY <1>1, <1>2, <1>3, <1>4, <1>5, <1>6, <1>7, <1>8, <1>9 DEF Inv

\* A cancelled restore releases a lease only if it is its own.
LEMMA CancelInv ==
    ASSUME NEW t0 \in Tab, Inv, CancelAccountRestore(t0) PROVE Inv'
<1> USE Sizes DEF CancelAccountRestore, clocks, Broadcast
<1>1. TypeOK'
  BY DEF Inv, TypeOK, Written, Restored, RestoreRun, Message, NoLock,
       NoWrite, NoRestore
<1>2. GenBooks'
  BY DEF Inv, GenBooks
<1>3. WriteBooks'
  BY DEF Inv, WriteBooks
<1>4. RestoreBooks'
  BY DEF Inv, RestoreBooks, TypeOK, NoRestore
<1>5. StageBooks'
  BY DEF Inv, StageBooks, TypeOK, RestoreBooks, NoRestore
<1>6. LeaseBooks'
  <2> SUFFICES ASSUME NEW t \in Tab, restore'[t].pc = "staging",
                      restore'[t].id \notin lapsed', observed'[t] = gen'
               PROVE  /\ lock'.token = restore'[t].id /\ now' < lock'.expiresAt
                      /\ {r \in records' : r.kind = "write"} \subseteq restore'[t].base
    BY DEF LeaseBooks
  <2>1. t # t0 /\ restore'[t] = restore[t]
    BY DEF Inv, TypeOK, NoRestore
  <2>2. /\ lock.token = restore[t].id /\ now < lock.expiresAt
        /\ {r \in records : r.kind = "write"} \subseteq restore[t].base
    BY <2>1 DEF Inv, LeaseBooks
  <2>3. lock.token # token[t0]
    BY <2>1, <2>2 DEF Inv, RestoreBooks
  <2> QED
    BY <2>1, <2>2, <2>3
<1>7. OneGeneration'
  BY DEF Inv, OneGeneration
<1>8. RestoreWhole'
  BY DEF Inv, RestoreWhole
<1>9. LatchIsPermanentOnlyIfStale'
  BY DEF Inv, LatchIsPermanentOnlyIfStale, TypeOK, GenBooks, Superseded,
       NoRestore
<1> QED
  BY <1>1, <1>2, <1>3, <1>4, <1>5, <1>6, <1>7, <1>8, <1>9 DEF Inv

\* A cancel message unlatches no tab that runs a restore.
LEMMA ReceiveCancelInv ==
    ASSUME NEW t0 \in Tab, Inv, ReceiveCancel(t0) PROVE Inv'
<1> USE Sizes DEF ReceiveCancel, durable, clocks
<1>1. TypeOK'
  BY DEF Inv, TypeOK
<1>2. GenBooks'
  BY DEF Inv, GenBooks, TypeOK
<1>3. WriteBooks'
  BY DEF Inv, WriteBooks
<1>4. RestoreBooks'
  BY DEF Inv, RestoreBooks
<1>5. StageBooks'
  BY DEF Inv, StageBooks
<1>6. LeaseBooks'
  BY DEF Inv, LeaseBooks
<1>7. OneGeneration'
  BY DEF Inv, OneGeneration
<1>8. RestoreWhole'
  BY DEF Inv, RestoreWhole
<1>9. LatchIsPermanentOnlyIfStale'
  BY DEF Inv, LatchIsPermanentOnlyIfStale, TypeOK, GenBooks, Superseded,
       NoRestore
<1> QED
  BY <1>1, <1>2, <1>3, <1>4, <1>5, <1>6, <1>7, <1>8, <1>9 DEF Inv

\* A generation message latches a tab that is then reloaded.
LEMMA ReceiveGenerationInv ==
    ASSUME NEW t0 \in Tab, Inv, ReceiveGeneration(t0) PROVE Inv'
<1> USE Sizes DEF ReceiveGeneration, durable, clocks
<1>1. TypeOK'
  <2>1. net' \in [Tab -> SUBSET Message] /\ leaving' \subseteq Tab
    BY DEF Inv, TypeOK
  <2>2. blocked' \in [Tab -> BOOLEAN]
    BY DEF Inv, TypeOK
  <2> QED
    BY <2>1, <2>2 DEF Inv, TypeOK
<1>2. GenBooks'
  BY DEF Inv, GenBooks, TypeOK
<1>3. WriteBooks'
  BY DEF Inv, WriteBooks
<1>4. RestoreBooks'
  BY DEF Inv, RestoreBooks
<1>5. StageBooks'
  BY DEF Inv, StageBooks
<1>6. LeaseBooks'
  BY DEF Inv, LeaseBooks
<1>7. OneGeneration'
  BY DEF Inv, OneGeneration
<1>8. RestoreWhole'
  BY DEF Inv, RestoreWhole
<1>9. LatchIsPermanentOnlyIfStale'
  BY DEF Inv, LatchIsPermanentOnlyIfStale, TypeOK, GenBooks, Superseded,
       NoRestore
<1> QED
  BY <1>1, <1>2, <1>3, <1>4, <1>5, <1>6, <1>7, <1>8, <1>9 DEF Inv

\* A new page has nothing in memory.
LEMMA ReloadInv ==
    ASSUME NEW t0 \in Tab, Inv, Reload(t0) PROVE Inv'
<1> USE Sizes DEF Reload, durable, clocks
<1>1. TypeOK'
  BY DEF Inv, TypeOK, Written, Restored, RestoreRun, Message, NoLock,
       NoWrite, NoRestore
<1>2. GenBooks'
  <2>1. /\ observed'[t0] = 0 /\ loaded'[t0] = 0 /\ ~blocked'[t0]
        /\ restore'[t0].pc = "idle"
    BY DEF Inv, TypeOK, NoRestore
  <2>2. \A t \in Tab \ {t0} : /\ observed'[t] = observed[t] /\ loaded'[t] = loaded[t]
                              /\ blocked'[t] = blocked[t] /\ restore'[t] = restore[t]
    BY DEF Inv, TypeOK
  <2>3. gen' = gen /\ gen \in Nat
    BY DEF Inv, TypeOK
  <2> QED
    BY <2>1, <2>2, <2>3 DEF Inv, GenBooks
<1>3. WriteBooks'
  BY DEF Inv, WriteBooks, TypeOK
<1>4. RestoreBooks'
  BY DEF Inv, RestoreBooks, TypeOK, NoRestore
<1>5. StageBooks'
  BY DEF Inv, StageBooks, TypeOK, RestoreBooks, NoRestore
<1>6. LeaseBooks'
  BY DEF Inv, LeaseBooks, TypeOK, RestoreBooks, NoRestore
<1>7. OneGeneration'
  BY DEF Inv, OneGeneration
<1>8. RestoreWhole'
  BY DEF Inv, RestoreWhole
<1>9. LatchIsPermanentOnlyIfStale'
  BY DEF Inv, LatchIsPermanentOnlyIfStale, TypeOK, GenBooks, Superseded,
       NoRestore
<1> QED
  BY <1>1, <1>2, <1>3, <1>4, <1>5, <1>6, <1>7, <1>8, <1>9 DEF Inv

\* The fence stops writers and changes no record.
LEMMA FenceInv ==
    ASSUME Inv, FenceVaultDbWrites PROVE Inv'
<1> USE Sizes DEF FenceVaultDbWrites, ram, flow, clocks
<1>1. TypeOK'
  BY DEF Inv, TypeOK
<1>2. GenBooks'
  BY DEF Inv, GenBooks
<1>3. WriteBooks'
  BY DEF Inv, WriteBooks
<1>4. RestoreBooks'
  BY DEF Inv, RestoreBooks
<1>5. StageBooks'
  BY DEF Inv, StageBooks
<1>6. LeaseBooks'
  BY DEF Inv, LeaseBooks
<1>7. OneGeneration'
  BY DEF Inv, OneGeneration
<1>8. RestoreWhole'
  BY DEF Inv, RestoreWhole
<1>9. LatchIsPermanentOnlyIfStale'
  BY DEF Inv, LatchIsPermanentOnlyIfStale, TypeOK, GenBooks, Superseded,
       NoRestore
<1> QED
  BY <1>1, <1>2, <1>3, <1>4, <1>5, <1>6, <1>7, <1>8, <1>9 DEF Inv

\* A cleared database is of a generation nobody has observed.
LEMMA NeutralizeInv ==
    ASSUME Inv, NeutralizeVaultDb PROVE Inv'
<1> USE Sizes DEF NeutralizeVaultDb, ram, flow, clocks
<1>1. TypeOK'
  <2>1. gen' \in 0 .. MaxGen /\ fence' \in BOOLEAN
    <3>1. gen \in 1 .. MaxGen - 1 /\ gen' = gen + 1
      OBVIOUS
    <3>2. gen' \in 0 .. MaxGen
      BY <3>1, Sizes
    <3>3. fence' \in BOOLEAN
      OBVIOUS
    <3> QED
      BY <3>2, <3>3
  <2>2. lock' \in [token : 0 .. MaxRestores, expiresAt : 0 .. MaxTime + Lease]
    BY DEF Inv, TypeOK, NoLock
  <2> QED
    BY <2>1, <2>2 DEF Inv, TypeOK
<1>2. GenBooks'
  BY DEF Inv, GenBooks, TypeOK
<1>3. WriteBooks'
  BY DEF Inv, WriteBooks
<1>4. RestoreBooks'
  BY DEF Inv, RestoreBooks
<1>5. StageBooks'
  BY DEF Inv, StageBooks
<1>6. LeaseBooks'
  BY DEF Inv, LeaseBooks, TypeOK, RestoreBooks, NoRestore, GenBooks,
       WriteBooks
<1>7. OneGeneration'
  BY DEF Inv, OneGeneration
<1>8. RestoreWhole'
  BY DEF Inv, RestoreWhole
<1>9. LatchIsPermanentOnlyIfStale'
  BY DEF Inv, LatchIsPermanentOnlyIfStale, TypeOK, GenBooks, Superseded,
       NoRestore
<1> QED
  BY <1>1, <1>2, <1>3, <1>4, <1>5, <1>6, <1>7, <1>8, <1>9 DEF Inv

\* A lease that runs out is recorded as lapsed.
LEMMA TickInv ==
    ASSUME Inv, Tick PROVE Inv'
<1> USE Sizes DEF Tick, durable, ram, flow
<1>1. TypeOK'
  <2>1. lapsed' \subseteq 1 .. MaxRestores
    <3>1. lock.token \in 0 .. MaxRestores /\ MaxRestores \in Nat
      BY DEF Inv, TypeOK
    <3>2. {lock.token} \ {0} \subseteq 1 .. MaxRestores
      BY <3>1
    <3>3. lapsed' \subseteq lapsed \cup ({lock.token} \ {0})
      OBVIOUS
    <3> QED
      BY <3>2, <3>3 DEF Inv, TypeOK
  <2>2. now' \in 0 .. MaxTime
    BY DEF Inv, TypeOK
  <2> QED
    BY <2>1, <2>2 DEF Inv, TypeOK
<1>2. GenBooks'
  BY DEF Inv, GenBooks
<1>3. WriteBooks'
  BY DEF Inv, WriteBooks
<1>4. RestoreBooks'
  BY DEF Inv, RestoreBooks
<1>5. StageBooks'
  BY DEF Inv, StageBooks
<1>6. LeaseBooks'
  BY DEF Inv, LeaseBooks, TypeOK, RestoreBooks, NoRestore
<1>7. OneGeneration'
  BY DEF Inv, OneGeneration
<1>8. RestoreWhole'
  BY DEF Inv, RestoreWhole
<1>9. LatchIsPermanentOnlyIfStale'
  BY DEF Inv, LatchIsPermanentOnlyIfStale, TypeOK, GenBooks, Superseded,
       NoRestore
<1> QED
  BY <1>1, <1>2, <1>3, <1>4, <1>5, <1>6, <1>7, <1>8, <1>9 DEF Inv

\* Stuttering.
LEMMA StutterInv ==
    ASSUME Inv, UNCHANGED vars PROVE Inv'
<1> USE Sizes DEF vars, durable, ram, flow, clocks
<1>1. TypeOK'
  BY DEF Inv, TypeOK
<1>2. GenBooks'
  BY DEF Inv, GenBooks
<1>3. WriteBooks'
  BY DEF Inv, WriteBooks
<1>4. RestoreBooks'
  BY DEF Inv, RestoreBooks
<1>5. StageBooks'
  BY DEF Inv, StageBooks
<1>6. LeaseBooks'
  BY DEF Inv, LeaseBooks
<1>7. OneGeneration'
  BY DEF Inv, OneGeneration
<1>8. RestoreWhole'
  BY DEF Inv, RestoreWhole
<1>9. LatchIsPermanentOnlyIfStale'
  BY DEF Inv, LatchIsPermanentOnlyIfStale, TypeOK, GenBooks, Superseded,
       NoRestore
<1> QED
  BY <1>1, <1>2, <1>3, <1>4, <1>5, <1>6, <1>7, <1>8, <1>9 DEF Inv

-----------------------------------------------------------------------------
\* The books of the tabs hold in every reachable state.
THEOREM AccountInvariant == Spec => []Inv
<1>1. Inv /\ [Next]_vars => Inv'
  <2> SUFFICES ASSUME Inv, [Next]_vars PROVE Inv'
    OBVIOUS
  <2>1. CASE \E t \in Tab : WriteTx(t)
    <3> PICK t \in Tab : WriteTx(t)
      BY <2>1
    <3>1. CASE ~MayMutate(t)
      <4> observed[t] # 0
        BY DEF WriteTx, Inv, WriteBooks
      <4> QED
        BY <3>1, RefusedInv DEF WriteTx, durable
    <3> QED
      BY <3>1, WriteTxInv
  <2>2. CASE \E t \in Tab : BeginAccountRestore(t)
    <3> PICK t \in Tab : BeginAccountRestore(t)
      BY <2>2
    <3>1. CASE ~MayMutate(t)
      BY <3>1, RefusedInv DEF BeginAccountRestore, durable, clocks
    <3> QED
      BY <3>1, BeginInv
  <2>3. CASE \E t \in Tab : StageRestoreRecord(t)
    <3> PICK t \in Tab : StageRestoreRecord(t)
      BY <2>3
    <3>1. CASE ~MayMutate(t)
      <4> observed[t] # 0
        BY DEF StageRestoreRecord, Inv, GenBooks
      <4> QED
        BY <3>1, RefusedInv DEF StageRestoreRecord, durable
    <3> QED
      BY <3>1, StageInv
  <2>4. CASE \E t \in Tab : CommitRestoreStage(t)
    <3> PICK t \in Tab : CommitRestoreStage(t)
      BY <2>4
    <3>1. CASE ~(MayMutate(t) /\ StageComplete(t))
      <4> observed[t] # 0
        BY DEF CommitRestoreStage, Inv, GenBooks
      <4> QED
        BY <3>1, RefusedInv DEF CommitRestoreStage, durable
    <3> QED
      BY <3>1, CommitInv
  <2>5. CASE \E t \in Tab : \/ OpenDb(t) \/ Reload(t) \/ IssueWrite(t) \/ AbortImport(t)
                            \/ DiscardRestoreStage(t) \/ CancelAccountRestore(t)
                            \/ ReceiveCancel(t) \/ ReceiveGeneration(t)
    BY <2>5, OpenDbInv, ReloadInv, IssueWriteInv, AbortInv, DiscardInv, CancelInv,
       ReceiveCancelInv, ReceiveGenerationInv
  <2>6. CASE FenceVaultDbWrites \/ NeutralizeVaultDb \/ Tick \/ UNCHANGED vars
    BY <2>6, FenceInv, NeutralizeInv, TickInv, StutterInv
  <2> QED
    BY <2>1, <2>2, <2>3, <2>4, <2>5, <2>6 DEF Next
<1> QED
  BY InitInv, <1>1, PTL DEF Spec

\* Variables keep their types: lease, stage and records of any number of restores.
THEOREM TypeCorrect == Spec => []TypeOK
<1>1. Inv => TypeOK
  BY DEF Inv
<1> QED
  BY AccountInvariant, <1>1, PTL

\* A tab that slept through a restore or a wipe, and the one that ran it, never
\* write old state into the new account (assertCurrentGeneration).
THEOREM StaleTabsDoNotWrite == Spec => []OneGeneration
<1>1. Inv => OneGeneration
  BY DEF Inv
<1> QED
  BY AccountInvariant, <1>1, PTL

\* A commit installs the whole backup, although its stage may have been cleared
\* under it (commitRestoreStage asks for the record staged first).
THEOREM RestoreAllOrNothing == Spec => []RestoreWhole
<1>1. Inv => RestoreWhole
  BY DEF Inv
<1> QED
  BY AccountInvariant, <1>1, PTL

\* The live records are those of one account, and all of a restored one.
THEOREM OneWholeAccount == Spec => []RecordsAgree
<1>1. OneGeneration /\ RestoreWhole => RecordsAgree
  BY DEF RecordsAgree
<1> QED
  BY StaleTabsDoNotWrite, RestoreAllOrNothing, <1>1, PTL

\* A restore that died or was cancelled leaves no other tab latched.
THEOREM NobodyBricked == Spec => []LatchIsPermanentOnlyIfStale
<1>1. Inv => LatchIsPermanentOnlyIfStale
  BY DEF Inv
<1> QED
  BY AccountInvariant, <1>1, PTL

-----------------------------------------------------------------------------
\* Only a commit ends a restore that loses writes, and it held the lease.
LEMMA CommitLosesNothing ==
    ASSUME Inv, Next, NEW t \in Tab, restore[t].id \notin lapsed PROVE LosesNoWrite(t)
<1> SUFFICES ASSUME restore[t].pc = "staging", restore'[t].pc = "done"
             PROVE  {r \in records : r.kind = "write"} \subseteq restore[t].base
  BY DEF LosesNoWrite
<1>1. CASE \E u \in Tab : CommitRestoreStage(u)
  <2>1. PICK u \in Tab : CommitRestoreStage(u)
    BY <1>1
  <2>2. u = t /\ observed[t] = gen
    <3>1. restore[u].pc = "staging" /\ \A v \in Tab \ {u} : restore'[v] = restore[v]
      BY <2>1 DEF CommitRestoreStage, Goto, Inv, TypeOK
    <3>2. u = t
      BY <3>1
    <3>3. restore'[t].pc # "failed"
      OBVIOUS
    <3>4. MayMutate(t)
      BY <2>1, <3>2, <3>3 DEF CommitRestoreStage, Goto, Inv, TypeOK, RestoreRun
    <3> QED
      BY <3>2, <3>4 DEF MayMutate, Superseded
  <2> QED
    BY <2>2 DEF Inv, LeaseBooks
<1>2. CASE \E u \in Tab : OpenDb(u) \/ Reload(u) \/ IssueWrite(u) \/ WriteTx(u)
  BY <1>2 DEF OpenDb, Reload, IssueWrite, WriteTx, flow, NoRestore, Inv, TypeOK
<1>3. CASE \E u \in Tab : BeginAccountRestore(u) \/ StageRestoreRecord(u)
  <2> PICK u \in Tab : BeginAccountRestore(u) \/ StageRestoreRecord(u)
    BY <1>3
  <2>1. restore'[t].pc \in {restore[t].pc, "staging", "failed"}
    <3>1. CASE BeginAccountRestore(u)
      BY <3>1 DEF BeginAccountRestore, Inv, TypeOK
    <3>2. CASE StageRestoreRecord(u)
      <4>1. \/ UNCHANGED restore
            \/ restore' = [restore EXCEPT ![u].staged = @ + 1]
            \/ restore' = [restore EXCEPT ![u].pc = "failed"]
        BY <3>2 DEF StageRestoreRecord, Goto
      <4>2. restore \in [Tab -> RestoreRun]
        BY DEF Inv, TypeOK
      <4> QED
        BY <4>1, <4>2 DEF RestoreRun
    <3> QED
      BY <3>1, <3>2
  <2> QED
    BY <2>1
<1>4. CASE \E u \in Tab : AbortImport(u) \/ DiscardRestoreStage(u) \/ CancelAccountRestore(u)
  <2> PICK u \in Tab : AbortImport(u) \/ DiscardRestoreStage(u) \/ CancelAccountRestore(u)
    BY <1>4
  <2>1. restore'[t].pc \in {restore[t].pc, "failed", "discarded", "idle"}
    <3>1. CASE AbortImport(u) \/ DiscardRestoreStage(u)
      BY <3>1 DEF AbortImport, DiscardRestoreStage, Goto, Inv, TypeOK, RestoreRun
    <3>2. CASE CancelAccountRestore(u)
      BY <3>2 DEF CancelAccountRestore, NoRestore, Inv, TypeOK
    <3> QED
      BY <3>1, <3>2
  <2> QED
    BY <2>1
<1>5. CASE \E u \in Tab : ReceiveCancel(u) \/ ReceiveGeneration(u)
  BY <1>5 DEF ReceiveCancel, ReceiveGeneration
<1>6. CASE FenceVaultDbWrites \/ NeutralizeVaultDb \/ Tick
  BY <1>6 DEF FenceVaultDbWrites, NeutralizeVaultDb, Tick, flow
<1> QED
  BY <1>1, <1>2, <1>3, <1>4, <1>5, <1>6 DEF Next

\* A restore loses no write of any tab as long as its lease has not run out.
THEOREM LeaseKeepsWritersOut == Spec => LeaseExcludesWriters
<1>1. Inv /\ [Next]_vars =>
        [\A t \in Tab : restore[t].id \notin lapsed => LosesNoWrite(t)]_vars
  BY CommitLosesNothing
<1> QED
  BY AccountInvariant, <1>1, PTL DEF Spec, LeaseExcludesWriters

\* No transaction that is refused by the fence changes a record, whoever began it.
THEOREM FencedSnapshot == Spec => FencedRecordsStand
<1>1. [Next]_vars => [fence /\ fence' => records' = records]_vars
  <2> SUFFICES ASSUME Next, fence, fence' PROVE records' = records
    OBVIOUS
  <2>1. CASE \E t \in Tab : WriteTx(t) \/ CommitRestoreStage(t)
    BY <2>1 DEF WriteTx, CommitRestoreStage, MayMutate, Superseded
  <2>2. CASE \E t \in Tab : BeginAccountRestore(t) \/ StageRestoreRecord(t)
    BY <2>2 DEF BeginAccountRestore, StageRestoreRecord
  <2>3. CASE \E t \in Tab : OpenDb(t) \/ Reload(t) \/ IssueWrite(t) \/ AbortImport(t)
    BY <2>3 DEF OpenDb, Reload, IssueWrite, AbortImport, durable
  <2>4. CASE \E t \in Tab : \/ DiscardRestoreStage(t) \/ CancelAccountRestore(t)
                            \/ ReceiveCancel(t) \/ ReceiveGeneration(t)
    BY <2>4 DEF DiscardRestoreStage, CancelAccountRestore, ReceiveCancel,
       ReceiveGeneration, durable
  <2>5. CASE FenceVaultDbWrites \/ NeutralizeVaultDb \/ Tick
    BY <2>5 DEF FenceVaultDbWrites, NeutralizeVaultDb, Tick, durable
  <2> QED
    BY <2>1, <2>2, <2>3, <2>4, <2>5 DEF Next
<1> QED
  BY <1>1, PTL DEF Spec, FencedRecordsStand

-----------------------------------------------------------------------------
(* Sums of bytes.  A fold is defined by recursion over subsets; what holds of *)
(* every finite set is shown by the least cardinality of a counterexample.    *)

LEMMA Least ==
    ASSUME NEW T, T \subseteq Nat, T # {}
    PROVE  \E n \in T : \A m \in T : n <= m
<1>1. PICK n \in T : \A m \in T : ~ (<<m, n>> \in OpToRel(<,Nat))
  BY NatLessThanWellFounded, WFMin
<1>2. \A m \in T : ~ (m < n)
  BY <1>1 DEF OpToRel
<1> QED
  BY <1>2

LEMMA Sizing ==
    ASSUME NEW S, S \subseteq Object
    PROVE  /\ IsFiniteSet(S) /\ Cardinality(S) \in Nat
           /\ Cardinality(S) = 0 <=> S = {}
           /\ \A x \in S : Cardinality(S \ {x}) = Cardinality(S) - 1
<1>1. IsFiniteSet(S)
  BY BlobAssumption, FS_Subset
<1> QED
  BY <1>1, FS_CardinalityType, FS_EmptySet, FS_RemoveElement

\* A set of finite sets of objects that is not empty has one of the least size.
LEMMA Smallest ==
    ASSUME NEW T, T \subseteq SUBSET Object, T # {}
    PROVE  \E s \in T : \A t \in T : Cardinality(s) <= Cardinality(t)
<1> DEFINE N == {Cardinality(s) : s \in T}
<1>1. N \subseteq Nat /\ N # {}
  BY Sizing
<1>2. \E n \in N : \A m \in N : n <= m
  <2> HIDE DEF N
  <2> QED
    BY <1>1, Least
<1> QED
  BY <1>2

Pick(s) == CHOOSE x \in s : TRUE
Folds(f, S) ==
    f = [s \in SUBSET S |->
            IF s = {} THEN 0 ELSE Bytes[Pick(s)] + f[s \ {Pick(s)}]]

LEMMA SumIsFold ==
    ASSUME NEW S
    PROVE  Sum(S) = (CHOOSE f : Folds(f, S))[S]
BY DEF Sum, MapThenSumSet, MapThenFoldSet, Folds, Pick

\* The functions that fold sets of up to n objects: one for each n.
Upto(S, n) == {s \in SUBSET S : Cardinality(s) <= n}
FoldsUpto(f, S, n) ==
    f = [s \in Upto(S, n) |->
            IF s = {} THEN 0 ELSE Bytes[Pick(s)] + f[s \ {Pick(s)}]]

LEMMA FoldsOneMore ==
    ASSUME NEW S, S \subseteq Object, NEW n \in Nat, NEW g, FoldsUpto(g, S, n)
    PROVE  \E f : FoldsUpto(f, S, n + 1)
<1> DEFINE f == [s \in Upto(S, n + 1) |->
                    IF s = {} THEN 0 ELSE Bytes[Pick(s)] + g[s \ {Pick(s)}]]
<1>1. \A s \in Upto(S, n) : s \in Upto(S, n + 1)
  <2> SUFFICES ASSUME NEW s \in Upto(S, n) PROVE s \in Upto(S, n + 1)
    OBVIOUS
  <2>1. Cardinality(s) \in Nat /\ Cardinality(s) <= n
    BY Sizing DEF Upto
  <2> QED
    BY <2>1 DEF Upto
<1>2. \A s \in Upto(S, n) : f[s] = g[s]
  BY <1>1 DEF FoldsUpto
<1>3. ASSUME NEW s \in Upto(S, n + 1), s # {}
      PROVE  s \ {Pick(s)} \in Upto(S, n)
  <2>1. Pick(s) \in s /\ s \subseteq Object
    BY <1>3 DEF Pick, Upto
  <2>2. Cardinality(s) \in Nat /\ Cardinality(s \ {Pick(s)}) = Cardinality(s) - 1
    BY <2>1, Sizing
  <2>3. Cardinality(s) <= n + 1
    BY DEF Upto
  <2> QED
    BY <2>2, <2>3 DEF Upto
<1>4. \A s \in Upto(S, n + 1) : s # {} => f[s \ {Pick(s)}] = g[s \ {Pick(s)}]
  BY <1>2, <1>3
<1>5. FoldsUpto(f, S, n + 1)
  BY <1>4 DEF FoldsUpto
<1> QED
  BY <1>5

LEMMA FoldsUptoAny ==
    ASSUME NEW S, S \subseteq Object, NEW n \in Nat
    PROVE  \E f : FoldsUpto(f, S, n)
<1> DEFINE T == {m \in Nat : ~ \E f : FoldsUpto(f, S, m)}
<1>1. SUFFICES ASSUME T # {} PROVE FALSE
  OBVIOUS
<1>2. PICK m \in T : \A k \in T : m <= k
  BY <1>1, Least
<1>3. CASE m = 0
  <2> DEFINE f == [s \in Upto(S, 0) |-> 0]
  <2>1. \A s \in Upto(S, 0) : s = {}
    BY Sizing DEF Upto
  <2>2. FoldsUpto(f, S, 0)
    BY <2>1 DEF FoldsUpto
  <2> QED
    BY <1>2, <1>3, <2>2
<1>4. CASE m # 0
  <2>1. m - 1 \in Nat /\ m - 1 \notin T /\ (m - 1) + 1 = m
    BY <1>2, <1>4
  <2>2. PICK g : FoldsUpto(g, S, m - 1)
    BY <2>1
  <2>3. \E f : FoldsUpto(f, S, (m - 1) + 1)
    BY <2>1, <2>2, FoldsOneMore
  <2> QED
    BY <1>2, <2>1, <2>3
<1> QED
  BY <1>3, <1>4

LEMMA FoldExists ==
    ASSUME NEW S, S \subseteq Object
    PROVE  Folds(CHOOSE f : Folds(f, S), S)
<1>1. Upto(S, Cardinality(S)) = SUBSET S
  <2> SUFFICES ASSUME NEW s \in SUBSET S PROVE Cardinality(s) <= Cardinality(S)
    BY DEF Upto
  <2> QED
    BY Sizing, FS_Subset
<1>2. \E f : FoldsUpto(f, S, Cardinality(S))
  BY FoldsUptoAny, Sizing
<1>3. \E f : Folds(f, S)
  BY <1>1, <1>2 DEF FoldsUpto, Folds
<1> QED
  BY <1>3

\* Two folds agree wherever both are defined.
LEMMA FoldsAgree ==
    ASSUME NEW A, A \subseteq Object, NEW B, B \subseteq A,
           NEW f, Folds(f, A), NEW g, Folds(g, B)
    PROVE  f[B] = g[B]
<1> DEFINE T == {s \in SUBSET B : f[s] # g[s]}
<1>1. SUFFICES ASSUME T # {} PROVE FALSE
  OBVIOUS
<1>2. PICK s \in T : \A t \in T : Cardinality(s) <= Cardinality(t)
  BY <1>1, Smallest
<1>3. /\ s \in SUBSET A /\ s \in SUBSET B
      /\ f[s] = IF s = {} THEN 0 ELSE Bytes[Pick(s)] + f[s \ {Pick(s)}]
      /\ g[s] = IF s = {} THEN 0 ELSE Bytes[Pick(s)] + g[s \ {Pick(s)}]
  BY DEF Folds
<1>4. s # {}
  BY <1>3
<1>5. Pick(s) \in s
  BY <1>4 DEF Pick
<1>6. s \ {Pick(s)} \notin T
  BY <1>2, <1>3, <1>5, Sizing
<1> QED
  BY <1>3, <1>6

LEMMA SumEmpty == Sum({}) = 0
BY FoldExists, SumIsFold DEF Folds

LEMMA SumStep ==
    ASSUME NEW S, S \subseteq Object, S # {}
    PROVE  /\ Pick(S) \in S
           /\ Sum(S) = Bytes[Pick(S)] + Sum(S \ {Pick(S)})
<1> DEFINE R == S \ {Pick(S)}
           f == CHOOSE h : Folds(h, S)
           g == CHOOSE h : Folds(h, R)
<1>1. Pick(S) \in S
  BY DEF Pick
<1>2. Folds(f, S) /\ Folds(g, R)
  BY FoldExists
<1>3. f[S] = Bytes[Pick(S)] + f[R]
  BY <1>2 DEF Folds
<1>4. f[R] = g[R]
  <2> HIDE DEF f, g
  <2> QED
    BY <1>2, FoldsAgree
<1> QED
  BY <1>1, <1>3, <1>4, SumIsFold

LEMMA SumNat == ASSUME NEW S, S \subseteq Object PROVE Sum(S) \in Nat
<1> DEFINE T == {s \in SUBSET Object : Sum(s) \notin Nat}
<1>1. SUFFICES ASSUME T # {} PROVE FALSE
  OBVIOUS
<1>2. PICK s \in T : \A t \in T : Cardinality(s) <= Cardinality(t)
  BY <1>1, Smallest
<1>3. s # {}
  BY SumEmpty
<1>4. Pick(s) \in s /\ Sum(s) = Bytes[Pick(s)] + Sum(s \ {Pick(s)})
  BY <1>3, SumStep
<1>5. s \ {Pick(s)} \notin T
  BY <1>2, <1>4, Sizing
<1> QED
  BY <1>4, <1>5, BlobAssumption

\* An object more: the choice of the fold does not matter.
LEMMA SumAdd ==
    ASSUME NEW S, S \subseteq Object, NEW k \in Object, k \notin S
    PROVE  Sum(S \cup {k}) = Sum(S) + Bytes[k]
<1> DEFINE Adds(s) == \A j \in Object \ s : Sum(s \cup {j}) = Sum(s) + Bytes[j]
           T == {s \in SUBSET Object : ~Adds(s)}
<1>1. SUFFICES ASSUME T # {} PROVE FALSE
  OBVIOUS
<1>2. PICK s \in T : \A t \in T : Cardinality(s) <= Cardinality(t)
  <2>1. T \subseteq SUBSET Object
    OBVIOUS
  <2> HIDE DEF T
  <2> QED
    BY <1>1, <2>1, Smallest
<1>3. PICK j \in Object \ s : Sum(s \cup {j}) # Sum(s) + Bytes[j]
  BY <1>2
<1> DEFINE u == s \cup {j}
           x == Pick(u)
<1>4. x \in u /\ Sum(u) = Bytes[x] + Sum(u \ {x})
  BY SumStep
<1>5. CASE x = j
  <2>1. u \ {x} = s
    BY <1>5
  <2>2. Sum(u) = Bytes[j] + Sum(s)
    BY <1>4, <1>5, <2>1
  <2>3. Sum(s) \in Nat /\ Bytes[j] \in Nat
    BY SumNat, BlobAssumption
  <2> HIDE DEF x
  <2> QED
    BY <1>3, <2>2, <2>3
<1>6. CASE x # j
  <2> DEFINE v == s \ {x}
  <2>1. x \in s /\ u \ {x} = v \cup {j} /\ s = v \cup {x} /\ v \in SUBSET Object
    BY <1>4, <1>6
  <2>2. Adds(v)
    <3>1. Cardinality(v) = Cardinality(s) - 1 /\ Cardinality(s) \in Nat
      BY <2>1, Sizing
    <3>2. v \notin T
      <4> HIDE DEF T, v
      <4> QED
        BY <1>2, <3>1
    <3> QED
      BY <2>1, <3>2
  <2>3. Sum(v \cup {j}) = Sum(v) + Bytes[j] /\ Sum(v \cup {x}) = Sum(v) + Bytes[x]
    <3> HIDE DEF x, u
    <3> QED
      BY <1>3, <2>1, <2>2
  <2>4. Sum(v) \in Nat /\ Bytes[x] \in Nat /\ Bytes[j] \in Nat
    BY <2>1, SumNat, BlobAssumption
  <2> HIDE DEF v, x, u
  <2>5. Sum(s) = Sum(v) + Bytes[x] /\ Sum(u) = Bytes[x] + (Sum(v) + Bytes[j])
    BY <1>4, <2>1, <2>3
  <2> QED
    BY <1>3, <2>4, <2>5 DEF u
<1> QED
  BY <1>5, <1>6

\* A set that has more objects has no fewer bytes,
LEMMA SumGrows ==
    ASSUME NEW B, B \subseteq Object, NEW A, A \subseteq B
    PROVE  Sum(A) <= Sum(B)
<1> DEFINE T == {s \in SUBSET Object : A \subseteq s /\ ~(Sum(A) <= Sum(s))}
<1>1. SUFFICES ASSUME T # {} PROVE FALSE
  OBVIOUS
<1>2. PICK s \in T : \A t \in T : Cardinality(s) <= Cardinality(t)
  BY <1>1, Smallest
<1>3. Sum(A) \in Nat /\ Sum(s) \in Nat
  BY SumNat
<1>4. s # A
  BY <1>3
<1>5. PICK x \in s : x \notin A
  BY <1>4
<1>6. s \ {x} \notin T
  BY <1>2, <1>5, Sizing
<1>7. Sum(A) <= Sum(s \ {x}) /\ Sum(s \ {x}) \in Nat
  BY <1>5, <1>6, SumNat
<1>8. Sum(s) = Sum(s \ {x}) + Bytes[x] /\ Bytes[x] \in Nat
  <2>1. s = (s \ {x}) \cup {x}
    BY <1>5
  <2> QED
    BY <2>1, SumAdd, BlobAssumption
<1> QED
  BY <1>3, <1>7, <1>8

\* and two sets together no more than both.
LEMMA SumUnion ==
    ASSUME NEW A, A \subseteq Object, NEW B, B \subseteq Object
    PROVE  Sum(A \cup B) <= Sum(A) + Sum(B)
<1> DEFINE T == {s \in SUBSET Object : ~(Sum(A \cup s) <= Sum(A) + Sum(s))}
<1>1. SUFFICES ASSUME T # {} PROVE FALSE
  OBVIOUS
<1>2. PICK s \in T : \A t \in T : Cardinality(s) <= Cardinality(t)
  BY <1>1, Smallest
<1>3. Sum(A) \in Nat /\ Sum(s) \in Nat /\ Sum(A \cup s) \in Nat
  BY SumNat
<1>4. s # {}
  <2> SUFFICES ASSUME s = {} PROVE FALSE
    OBVIOUS
  <2>1. A \cup s = A /\ Sum(s) = 0
    BY SumEmpty
  <2> QED
    BY <1>2, <1>3, <2>1
<1>5. PICK x \in s : TRUE
  BY <1>4
<1> DEFINE v == s \ {x}
<1>6. v \notin T
  BY <1>2, <1>5, Sizing
<1>7. Sum(A \cup v) <= Sum(A) + Sum(v) /\ Sum(v) \in Nat /\ Sum(A \cup v) \in Nat
  BY <1>6, SumNat
<1>8. Sum(s) = Sum(v) + Bytes[x] /\ Bytes[x] \in Nat
  <2>1. s = v \cup {x}
    BY <1>5
  <2> QED
    BY <2>1, SumAdd, BlobAssumption
<1>9. Sum(A \cup s) <= Sum(A \cup v) + Bytes[x]
  <2>1. CASE x \in A
    <3>1. A \cup s = A \cup v
      BY <1>5, <2>1
    <3>2. Sum(A \cup s) = Sum(A \cup v)
      BY <3>1
    <3> HIDE DEF v
    <3> QED
      BY <1>7, <1>8, <3>2
  <2>2. CASE x \notin A
    <3>1. A \cup s = (A \cup v) \cup {x} /\ x \notin A \cup v
      BY <1>5, <2>2
    <3>2. Sum(A \cup s) = Sum(A \cup v) + Bytes[x]
      <4> HIDE DEF v
      <4> QED
        BY <1>5, <3>1, SumAdd
    <3> QED
      BY <1>3, <1>7, <3>2
  <2> QED
    BY <2>1, <2>2
<1> HIDE DEF v
<1> QED
  BY <1>2, <1>3, <1>7, <1>8, <1>9

-----------------------------------------------------------------------------
(* The bucket of an account (BlobQuota).                                     *)

\* Where a request may be.
Place == [create   |-> {"reserve", "wait", "undo"},
          part     |-> {"upload", "claim"},
          abort    |-> {"abort", "defer", "release"},
          complete |-> {"r2", "head", "commit", "again", "delete", "release",
                        "restore", "deferclean"}]
Call     == {"create", "part", "abort", "complete"}
Request  == {q \in [op : Call, key : Key, pc : UNION {Place[o] : o \in Call},
                    n : Nat, hit : BOOLEAN] : q.pc \in Place[q.op]}
RowsType == [Key -> Row \cup {None}]

\* The variables' types.
StoreTypes ==
    /\ rows \in RowsType /\ parts \subseteq Key
    /\ \A k \in Key : rows[k] = None => k \notin parts
    /\ ledger \in [Key -> Nat] /\ total \in Nat
    /\ fresh \in BOOLEAN /\ scanLock \in BOOLEAN
    /\ scan \in Scan \cup {None} /\ (scan # None => scanLock)
    /\ mpu \in [Key -> {"none", "open", "done"}]
    /\ stored \subseteq tokens /\ late \subseteq tokens
    /\ tokens \subseteq Key /\ acked \subseteq Key
    /\ bucket \subseteq Object /\ aged \subseteq Object
    /\ hours \in Nat
CleanType == [Pass -> [Key -> Settling \cup {Idle}]]
ReqType   == [Req -> Request \cup {Idle}]
BlobTypes == StoreTypes /\ clean \in CleanType /\ req \in ReqType

\* R2 has the upload no more, and there is no object and never will be.
Ended(k) == mpu[k] = "done" /\ k \notin bucket

\* An upload has one life: it is opened, perhaps reserved, and done; an upload
\* that a client knows is reserved as long as R2 has it open, and an object is
\* reserved or in the ledger.
UploadOK(k) ==
    /\ rows[k] # None \/ k \in tokens \/ ledger[k] # 0 => mpu[k] # "none"
    /\ rows[k] # None => ledger[k] = 0
    /\ In(k, "completing") \/ In(k, "completion_cleanup") => rows[k].op # 0
    /\ k \in tokens /\ mpu[k] = "open" => rows[k] # None
    /\ k \in bucket => /\ mpu[k] = "done" /\ k \in tokens
                       /\ rows[k] # None \/ ledger[k] # 0
Uploads == \A k \in Key : UploadOK(k)

\* What a request knows of its upload when it comes to the next call.
Creating(q) == q # Idle /\ q.op = "create"
RequestOK(q) ==
    q # Idle =>
        /\ mpu[q.key] # "none"
        /\ q.op = "create" <=> q.key \notin tokens
        /\ q.op = "create" /\ q.pc # "undo" => rows[q.key] = None /\ ledger[q.key] = 0
        /\ q.pc \in {"commit", "again", "delete"} => mpu[q.key] = "done"
        /\ q.pc = "release" => Ended(q.key)
Requests ==
    /\ \A r \in Req : RequestOK(req[r])
    /\ \A r, s \in Req :
          Creating(req[r]) /\ Creating(req[s]) /\ req[r].key = req[s].key => r = s

\* And what a cleanup pass knows.
PassOK(c, k) ==
    c # Idle =>
        /\ mpu[k] # "none"
        /\ c.pc \in {"delete", "rehead", "reheaded"} => mpu[k] = "done"
        /\ c.pc = "headed" /\ c.hit => mpu[k] = "done"
        /\ c.pc = "reheaded" /\ ~c.hit => Ended(k)
        /\ c.pc = "finish" => Ended(k)
Passes == \A p \in Pass, k \in Key : PassOK(clean[p][k], k)

\* A scan that no row has left is right about what it has gone past, or has
\* seen too much.
Scans ==
    scan # None /\ ~scan.dirty =>
        \/ bucket \ scan.left \subseteq scan.seen \cup Reserved
        \/ scan.left = {} /\ Overfull(scan.seen)

\* What is neither reserved nor counted is not there, unless the count alone
\* is over the budget; what is there or may come is within the limits, or was
\* there before them.
Ever    == fresh \/ hours > 0
Held(a) == {k \in Key : Owner[k] = a /\ (rows[k] # None \/ ledger[k] # 0)}
Accounts ==
    /\ Ever => Sum(bucket \ Reserved) <= total \/ total > Budget
    /\ ~Ever => Reserved = {} /\ tokens = {}
    /\ \/ Sum(bucket \cup Reserved) <= Budget
       \/ Sum(bucket \cup Reserved) <= Sum(Legacy)
    /\ \A a \in Actor : Sum(Held(a)) <= ActorBudget

\* The inductive invariant.
BlobInv == /\ BlobTypes /\ Uploads /\ Requests /\ Passes /\ Scans /\ Accounts

-----------------------------------------------------------------------------
(* Facts about states.                                                       *)

LEMMA BlobFacts ==
    ASSUME BlobTypes
    PROVE  /\ Key \subseteq Object /\ Reserved \subseteq Key
           /\ None \notin Row /\ None \notin Scan
           /\ Idle \notin Request /\ Idle \notin Settling /\ Idle.pc = "idle"
           /\ \A k \in Key : rows[k] # None => rows[k] \in Row
           /\ \A k \in Key : k \in Reserved <=> rows[k] # None
           /\ \A k \in Key : Bytes[k] \in Nat
<1>1. Key \subseteq Object /\ Reserved \subseteq Key
  BY DEF Object, Reserved
<1>2. None \notin Row /\ None \notin Scan
  BY BlobAssumption
<1>3. Idle.pc = "idle"
  BY DEF Idle
<1>4. Idle \notin Request
  <2>1. \A q \in Request : q.pc # "idle"
    BY DEF Request, Place, Call
  <2> QED
    BY <1>3, <2>1
<1>5. Idle \notin Settling
  BY <1>3 DEF Settling
<1>6. \A k \in Key : Bytes[k] \in Nat
  BY <1>1, BlobAssumption
<1> QED
  BY <1>1, <1>2, <1>3, <1>4, <1>5, <1>6 DEF BlobTypes, StoreTypes, CleanType, ReqType, RowsType, Reserved

LEMMA RequestFacts ==
    ASSUME NEW q \in Request
    PROVE  /\ q.op \in Call /\ q.key \in Key /\ q.n \in Nat /\ q.hit \in BOOLEAN
           /\ q.pc \in Place[q.op] /\ q # Idle
           /\ \A pc \in Place[q.op] : [q EXCEPT !.pc = pc] \in Request
<1>1. q \in [op : Call, key : Key, pc : UNION {Place[o] : o \in Call},
             n : Nat, hit : BOOLEAN] /\ q.pc \in Place[q.op]
  BY DEF Request
<1>2. q.pc # "idle"
  BY <1>1 DEF Place, Call
<1>3. q # Idle
  BY <1>2 DEF Idle
<1>4. ASSUME NEW pc \in Place[q.op]
      PROVE  [q EXCEPT !.pc = pc] \in Request
  <2>1. pc \in UNION {Place[o] : o \in Call}
    BY <1>1
  <2> QED
    BY <1>1, <2>1 DEF Request
<1> QED
  BY <1>1, <1>3, <1>4

\* A request that stands at a place is one.
LEMMA Standing ==
    ASSUME BlobTypes, NEW r \in Req, req[r].pc # "idle"
    PROVE  req[r] \in Request /\ req[r].key \in Key /\ req[r] # Idle
<1>1. req[r] \in Request \cup {Idle} /\ req[r] # Idle
  BY DEF BlobTypes, StoreTypes, CleanType, ReqType, Idle
<1> QED
  BY <1>1, RequestFacts

-----------------------------------------------------------------------------
(* Kinds of steps: what a row, an upload or an object may become.            *)

\* What R2 has done is done.
Onward ==
    \A k \in Key : /\ mpu[k] # "none" => mpu'[k] # "none"
                   /\ mpu[k] = "done" => mpu'[k] = "done"
                   /\ Ended(k) => Ended(k)'

\* An upload that is neither reserved nor counted stays so.
Untouched ==
    \A k \in Key : rows[k] = None /\ ledger[k] = 0 => rows'[k] = None /\ ledger'[k] = 0

\* What the steps below have in common.
Kept == Uploads' /\ Scans' /\ Accounts' /\ Onward /\ Untouched /\ tokens' = tokens

\* Rows change, and none comes or goes.
RowsStay ==
    /\ rows' \in RowsType
    /\ \A k \in Key :
         /\ rows'[k] = None <=> rows[k] = None
         /\ rows'[k] # None /\ rows'[k].state \in {"completing", "completion_cleanup"}
                => rows'[k].op # 0

LEMMA PassStays ==
    ASSUME BlobInv, Onward
    PROVE  \A c \in Settling \cup {Idle}, k \in Key : PassOK(c, k) => PassOK(c, k)'
BY DEF Onward, PassOK

LEMMA SameReserved == ASSUME BlobTypes, RowsStay PROVE Reserved' = Reserved
BY DEF RowsStay, Reserved

\* A scan either stays as it is or is told.
LEMMA ScanStays ==
    ASSUME BlobTypes, scan' = scan \/ Bump
    PROVE  /\ scan' \in Scan \cup {None} /\ (scan' # None <=> scan # None)
           /\ scan # None /\ ~scan'.dirty => scan' = scan
           /\ Bump /\ scan # None => scan'.dirty
<1>1. CASE scan = None
  BY <1>1 DEF BlobTypes, StoreTypes, CleanType, ReqType, Bump
<1>2. CASE scan # None
  <2>1. scan \in Scan /\ None \notin Scan
    BY <1>2, BlobFacts DEF BlobTypes, StoreTypes, CleanType, ReqType
  <2>2. CASE scan' = scan
    <3>1. Bump => scan'.dirty
      BY <1>2, <2>1, <2>2 DEF Bump, Scan
    <3> QED
      BY <1>2, <2>1, <2>2, <3>1
  <2>3. CASE Bump
    <3>1. scan' = [scan EXCEPT !.dirty = TRUE]
      BY <1>2, <2>3 DEF Bump
    <3>2. scan' \in Scan /\ scan'.dirty = TRUE
      BY <2>1, <3>1 DEF Scan
    <3> QED
      BY <1>2, <2>1, <3>2
  <2> QED
    BY <2>2, <2>3
<1> QED
  BY <1>1, <1>2

\* The sums of what is left are no more than before.
LEMMA AccountsStay ==
    ASSUME BlobInv, bucket' \subseteq Object, Reserved' \subseteq Reserved,
           bucket' \ Reserved' \subseteq bucket \ Reserved,
           bucket' \cup Reserved' \subseteq bucket \cup Reserved,
           \A a \in Actor : Held(a)' \subseteq Held(a),
           total' = total, tokens' = tokens, Ever' = Ever
    PROVE  Accounts'
<1>1. /\ bucket \subseteq Object /\ Reserved \subseteq Object
      /\ \A a \in Actor : Held(a) \subseteq Object
  BY BlobFacts DEF BlobInv, BlobTypes, StoreTypes, CleanType, ReqType, Held
<1>2. Sum(bucket' \ Reserved') <= Sum(bucket \ Reserved)
  BY <1>1, SumGrows
<1>3. Sum(bucket' \cup Reserved') <= Sum(bucket \cup Reserved)
  BY <1>1, SumGrows
<1>4. \A a \in Actor : Sum(Held(a)') <= Sum(Held(a))
  BY <1>1, SumGrows
<1>5. /\ Sum(bucket' \ Reserved') \in Nat /\ Sum(bucket \ Reserved) \in Nat
      /\ Sum(bucket' \cup Reserved') \in Nat /\ Sum(bucket \cup Reserved) \in Nat
      /\ \A a \in Actor : Sum(Held(a)') \in Nat /\ Sum(Held(a)) \in Nat
  <2>1. \A a \in Actor : Held(a)' \subseteq Object
    BY <1>1
  <2> QED
    BY <1>1, <2>1, SumNat
<1>6. Sum(Legacy) \in Nat
  BY SumNat DEF Object
<1>7. Ever' => Sum(bucket \ Reserved)' <= total' \/ total' > Budget
  BY <1>2, <1>5 DEF BlobInv, Accounts, BlobTypes, StoreTypes, CleanType, ReqType
<1>8. ~Ever' => Reserved' = {} /\ tokens' = {}
  BY DEF BlobInv, Accounts
<1>9. \/ Sum(bucket \cup Reserved)' <= Budget
      \/ Sum(bucket \cup Reserved)' <= Sum(Legacy)
  BY <1>3, <1>5, <1>6, BlobAssumption DEF BlobInv, Accounts
<1>10. \A a \in Actor : Sum(Held(a))' <= ActorBudget
  BY <1>4, <1>5, BlobAssumption DEF BlobInv, Accounts
<1> QED
  BY <1>7, <1>8, <1>9, <1>10 DEF Accounts

\* Rows change, and none comes or goes.
LEMMA Renewed ==
    ASSUME BlobInv, RowsStay, scan' = scan \/ Bump \/ scan' = None \/ StartScan,
           UNCHANGED <<ledger, total, tokens, mpu, bucket>>, Ever' = Ever
    PROVE  Kept /\ Reserved' = Reserved
<1>1. Reserved' = Reserved
  BY SameReserved DEF BlobInv
<1>2. Uploads'
  BY BlobFacts DEF BlobInv, Uploads, UploadOK, RowsStay, In
<1>3. Scans'
  <2>1. CASE scan' = scan \/ Bump \/ scan' = None
    BY <1>1, <2>1, ScanStays DEF BlobInv, Scans
  <2>2. CASE StartScan
    <3>1. scan'.left = Object /\ bucket' \subseteq Object
      BY <2>2 DEF StartScan, BlobInv, BlobTypes, StoreTypes
    <3> QED
      BY <3>1 DEF Scans
  <2> QED
    BY <2>1, <2>2
<1>4. Accounts'
  <2>1. \A a \in Actor : Held(a)' = Held(a)
    BY DEF Held, RowsStay
  <2>2. bucket' \subseteq Object /\ Ever' = Ever
    BY DEF BlobInv, BlobTypes, StoreTypes, CleanType, ReqType, Ever
  <2> QED
    BY <1>1, <2>1, <2>2, AccountsStay
<1>5. Onward /\ Untouched
  BY DEF Onward, Ended, Untouched, RowsStay
<1> QED
  BY <1>1, <1>2, <1>3, <1>4, <1>5 DEF Kept

\* A row goes whose upload has ended.
LEMMA Dropped ==
    ASSUME BlobInv, NEW k \in Key, Drop(k), Ended(k),
           UNCHANGED <<ledger, total, tokens, mpu, bucket>>, Ever' = Ever
    PROVE  Kept
<1>1. /\ rows' = [rows EXCEPT ![k] = None] /\ rows \in RowsType /\ Bump
      /\ mpu[k] = "done" /\ k \notin bucket
  BY DEF Drop, BlobInv, BlobTypes, StoreTypes, CleanType, ReqType, Ended
<1>2. /\ rows'[k] = None /\ \A j \in Key : j # k => rows'[j] = rows[j]
      /\ Reserved' = Reserved \ {k}
  BY <1>1 DEF RowsType, Reserved
<1>3. Uploads'
  <2>1. \A j \in Key : j # k => UploadOK(j)'
    BY <1>2 DEF BlobInv, Uploads, UploadOK, In
  <2>2. UploadOK(k)'
    BY <1>1, <1>2 DEF BlobInv, Uploads, UploadOK, In
  <2> QED
    BY <2>1, <2>2 DEF Uploads
<1>4. Scans'
  BY <1>1, ScanStays DEF BlobInv, Scans
<1>5. Accounts'
  <2>1. \A a \in Actor : Held(a)' \subseteq Held(a)
    BY <1>2 DEF Held
  <2>2. bucket' \subseteq Object /\ Ever' = Ever
    BY DEF BlobInv, BlobTypes, StoreTypes, CleanType, ReqType, Ever
  <2> QED
    BY <1>1, <1>2, <2>1, <2>2, AccountsStay
<1>6. Onward /\ Untouched
  BY <1>2 DEF Onward, Ended, Untouched
<1> QED
  BY <1>3, <1>4, <1>5, <1>6 DEF Kept

\* A row goes and its object is counted.
LEMMA Promoted ==
    ASSUME BlobInv, NEW k \in Key, Promote(k), Promotable(k), mpu[k] = "done",
           In(k, "completing") \/ In(k, "completion_cleanup"),
           UNCHANGED <<tokens, mpu, bucket>>, Ever' = Ever
    PROVE  Kept
<1>1. /\ rows' = [rows EXCEPT ![k] = None] /\ rows \in RowsType /\ Bump
      /\ ledger' = [ledger EXCEPT ![k] = rows[k].op] /\ ledger \in [Key -> Nat]
      /\ total' = total + Bytes[k] /\ rows[k] # None /\ rows[k].op # 0
  BY DEF Promote, Drop, BlobInv, BlobTypes, StoreTypes, CleanType, ReqType, Uploads, UploadOK, In
<1>2. /\ rows'[k] = None /\ \A j \in Key : j # k => rows'[j] = rows[j]
      /\ ledger'[k] # 0 /\ \A j \in Key : j # k => ledger'[j] = ledger[j]
      /\ Reserved' = Reserved \ {k} /\ k \in Reserved
  BY <1>1 DEF RowsType, Reserved
<1>3. Uploads'
  <2>1. \A j \in Key : j # k => UploadOK(j)'
    BY <1>2 DEF BlobInv, Uploads, UploadOK, In
  <2>2. UploadOK(k)'
    BY <1>1, <1>2 DEF BlobInv, Uploads, UploadOK, In
  <2> QED
    BY <2>1, <2>2 DEF Uploads
<1>4. Scans'
  BY <1>1, ScanStays DEF BlobInv, Scans
<1>5. /\ bucket \subseteq Object /\ Reserved \subseteq Object /\ k \in Object
      /\ \A a \in Actor : Held(a) \subseteq Object
      /\ Ever' = Ever /\ total \in Nat /\ Bytes[k] \in Nat
  BY BlobFacts DEF BlobInv, BlobTypes, StoreTypes, CleanType, ReqType, Ever, Held
<1>6. Ever /\ \A a \in Actor : Held(a)' = Held(a)
  <2>1. Ever
    BY <1>2 DEF BlobInv, Accounts
  <2>2. \A j \in Key : rows'[j] # None \/ ledger'[j] # 0
                       <=> rows[j] # None \/ ledger[j] # 0
    BY <1>1, <1>2
  <2>3. \A a \in Actor : Held(a)' = Held(a)
    BY <2>2 DEF Held
  <2> QED
    BY <2>1, <2>3
<1>7. Sum(bucket' \ Reserved') <= total' \/ total' > Budget
  <2> DEFINE S == bucket \ Reserved
  <2>1. k \notin S /\ S \subseteq Object /\ bucket' \ Reserved' \subseteq S \cup {k}
    BY <1>2, <1>5
  <2>2. Sum(S \cup {k}) = Sum(S) + Bytes[k] /\ Sum(S) \in Nat
    <3> HIDE DEF S
    <3> QED
      BY <1>5, <2>1, SumAdd, SumNat
  <2>3. Sum(bucket' \ Reserved') <= Sum(S \cup {k})
    <3>1. S \cup {k} \subseteq Object
      BY <1>5, <2>1
    <3> QED
      BY <2>1, <3>1, SumGrows
  <2>4. Sum(S) <= total \/ total > Budget
    BY <1>6 DEF BlobInv, Accounts
  <2>5. Sum(bucket' \ Reserved') \in Nat
    <3>1. bucket' \ Reserved' \subseteq Object
      BY <1>5
    <3> QED
      BY <3>1, SumNat
  <2>6. total \in Nat /\ Budget \in Nat
    BY BlobAssumption DEF BlobInv, BlobTypes, StoreTypes
  <2> HIDE DEF S
  <2> QED
    BY <1>1, <1>5, <2>2, <2>3, <2>4, <2>5, <2>6
<1>8. Sum(bucket' \cup Reserved') <= Sum(bucket \cup Reserved)
  BY <1>2, <1>5, SumGrows
<1>9. /\ Sum(bucket' \cup Reserved') \in Nat /\ Sum(bucket \cup Reserved) \in Nat
      /\ Sum(Legacy) \in Nat
  <2>1. bucket' \cup Reserved' \subseteq Object /\ Legacy \subseteq Object
    BY <1>2, <1>5 DEF Object
  <2> QED
    BY <1>5, <2>1, SumNat
<1>10. Accounts'
  <2>1. \/ Sum(bucket \cup Reserved)' <= Budget
        \/ Sum(bucket \cup Reserved)' <= Sum(Legacy)
    BY <1>8, <1>9, BlobAssumption DEF BlobInv, Accounts
  <2>2. \A a \in Actor : Sum(Held(a))' <= ActorBudget
    BY <1>6 DEF BlobInv, Accounts
  <2> QED
    BY <1>5, <1>6, <1>7, <2>1, <2>2 DEF Accounts
<1>11. Onward /\ Untouched
  BY <1>1, <1>2 DEF Onward, Ended, Untouched
<1> QED
  BY <1>3, <1>4, <1>10, <1>11 DEF Kept

\* What an account and an actor may have in the bucket, before and after.
LEMMA Sums ==
    ASSUME BlobInv
    PROVE  /\ bucket \subseteq Object /\ Reserved \subseteq Object /\ Legacy \subseteq Object
           /\ total \in Nat /\ Sum(Legacy) \in Nat
           /\ Sum(bucket \ Reserved) \in Nat /\ Sum(bucket \cup Reserved) \in Nat
           /\ \A a \in Actor : Held(a) \subseteq Object /\ Sum(Held(a)) \in Nat
<1>1. /\ bucket \subseteq Object /\ Reserved \subseteq Object /\ Legacy \subseteq Object
      /\ total \in Nat /\ \A a \in Actor : Held(a) \subseteq Object
  BY BlobFacts DEF BlobInv, BlobTypes, StoreTypes, Held, Object
<1>2. bucket \ Reserved \subseteq Object /\ (bucket \cup Reserved) \subseteq Object
  BY <1>1
<1> QED
  BY <1>1, <1>2, SumNat

\* The row of an upload that nobody has seen is charged before it is there.
LEMMA AdmittedAccounts ==
    ASSUME BlobInv, NEW k \in Key, Fits(rows, k), Ever, Ever' = Ever,
           rows[k] = None, ledger[k] = 0, Reserved' = Reserved \cup {k},
           UNCHANGED <<ledger, total, bucket>>
    PROVE  Accounts'
<1> DEFINE A == bucket \ Reserved
           H(a) == {j \in Key : ledger[j] # 0 /\ Owner[j] = a}
           C(a) == {j \in Reserved : Owner[j] = a}
<1>1. /\ A \subseteq Object /\ Reserved \subseteq Object /\ k \in Object
      /\ Bytes[k] \in Nat /\ k \notin Reserved /\ Owner[k] \in Actor
      /\ \A a \in Actor : H(a) \subseteq Object /\ C(a) \subseteq Object
                          /\ k \notin H(a) /\ k \notin C(a)
  BY BlobFacts, Sums, BlobAssumption DEF BlobInv, Object
<1>2. /\ total + Sum(Reserved) + Bytes[k] <= Budget
      /\ Sum(H(Owner[k])) + Sum(C(Owner[k])) + Bytes[k] <= ActorBudget
  BY DEF Fits, Reserved
<1>3. Sum(A) <= total
  <2>1. total \in Nat /\ Sum(Reserved) \in Nat /\ Budget \in Nat
    BY <1>1, Sums, SumNat, BlobAssumption
  <2>2. Sum(A) <= total \/ total > Budget
    BY DEF BlobInv, Accounts
  <2> QED
    BY <1>1, <1>2, <2>1, <2>2
<1>4. /\ Sum(A) \in Nat /\ Sum(Reserved) \in Nat /\ total \in Nat
      /\ \A a \in Actor : Sum(H(a)) \in Nat /\ Sum(C(a)) \in Nat
  BY <1>1, Sums, SumNat
<1>5. Ever' /\ Sum(bucket \ Reserved)' <= total'
  <2>1. bucket' \ Reserved' \subseteq A
    OBVIOUS
  <2>2. Sum(bucket' \ Reserved') <= Sum(A) /\ Sum(bucket' \ Reserved') \in Nat
    <3>1. bucket' \ Reserved' \subseteq Object
      BY <1>1, <2>1
    <3> HIDE DEF A
    <3> QED
      BY <1>1, <2>1, <3>1, SumGrows, SumNat
  <2> HIDE DEF A
  <2> QED
    BY <1>3, <1>4, <2>2
<1>6. Sum(bucket \cup Reserved)' <= Budget
  <2>1. bucket' \cup Reserved' = (A \cup Reserved) \cup {k}
    OBVIOUS
  <2>2. k \in bucket => rows[k] # None \/ ledger[k] # 0
    BY DEF BlobInv, Uploads, UploadOK
  <2>3. (A \cup Reserved) \subseteq Object /\ k \notin A \cup Reserved
    BY <1>1, <2>2
  <2>4. Sum((A \cup Reserved) \cup {k}) = Sum(A \cup Reserved) + Bytes[k]
    <3> HIDE DEF A
    <3> QED
      BY <1>1, <2>3, SumAdd
  <2>5. Sum(A \cup Reserved) <= Sum(A) + Sum(Reserved) /\ Sum(A \cup Reserved) \in Nat
    <3> HIDE DEF A
    <3> QED
      BY <1>1, <2>3, SumUnion, SumNat
  <2>6. Sum(bucket' \cup Reserved') = Sum(A \cup Reserved) + Bytes[k]
    BY <2>1, <2>4
  <2>7. Sum(A \cup Reserved) + Bytes[k] <= Budget
    <3> HIDE DEF A
    <3> QED
      BY <1>1, <1>2, <1>3, <1>4, <2>5, BlobAssumption
  <2> QED
    BY <2>6, <2>7
<1>7. ASSUME NEW a \in Actor
      PROVE  Sum(Held(a))' <= ActorBudget
  <2>1. \A j \in Key : rows'[j] # None <=> rows[j] # None \/ j = k
    BY BlobFacts DEF Reserved
  <2>2. CASE a # Owner[k]
    <3>1. Held(a)' = Held(a)
      BY <2>1, <2>2 DEF Held
    <3> QED
      BY <3>1 DEF BlobInv, Accounts
  <2>3. CASE a = Owner[k]
    <3>1. Held(a)' = (H(a) \cup C(a)) \cup {k}
      BY <1>1, <2>1, <2>3, BlobFacts DEF Held, Reserved
    <3>2. (H(a) \cup C(a)) \subseteq Object /\ k \notin H(a) \cup C(a)
      BY <1>1
    <3>3. /\ Sum((H(a) \cup C(a)) \cup {k}) = Sum(H(a) \cup C(a)) + Bytes[k]
          /\ Sum(H(a) \cup C(a)) <= Sum(H(a)) + Sum(C(a))
          /\ Sum(H(a) \cup C(a)) \in Nat
      <4>1. H(a) \subseteq Object /\ C(a) \subseteq Object
        BY <1>1
      <4> HIDE DEF H, C
      <4> QED
        BY <1>1, <3>2, <4>1, SumAdd, SumUnion, SumNat
    <3>4. Sum(H(a)) + Sum(C(a)) + Bytes[k] <= ActorBudget
      BY <1>2, <2>3
    <3>5. Sum(H(a)) \in Nat /\ Sum(C(a)) \in Nat
      BY <1>4
    <3>6. Sum((H(a) \cup C(a)) \cup {k}) <= ActorBudget
      <4> HIDE DEF H, C
      <4> QED
        BY <1>1, <3>3, <3>4, <3>5, BlobAssumption
    <3>7. Sum(Held(a)') = Sum((H(a) \cup C(a)) \cup {k})
      BY <3>1
    <3> QED
      BY <3>6, <3>7
  <2> QED
    BY <2>2, <2>3
<1> QED
  BY <1>5, <1>6, <1>7 DEF Accounts

\* What a transaction of the quota starts from: the rows, or the rows marked.
Like(R) ==
    /\ R \in RowsType
    /\ \A k \in Key :
         /\ R[k] = None <=> rows[k] = None
         /\ R[k] # None => R[k].op = rows[k].op
         /\ R[k] # None /\ R[k].state \in {"completing", "completion_cleanup"}
                => R[k].op # 0

LEMMA MarkedLike ==
    ASSUME BlobInv
    PROVE  Like(Marked) /\ Like(rows)
<1>1. /\ rows \in RowsType /\ None \notin Row
      /\ \A k \in Key : rows[k] # None => rows[k] \in Row
  BY BlobFacts DEF BlobInv, BlobTypes, StoreTypes
<1>2. \A k \in Key : rows[k] # None /\ rows[k].state \in {"completing", "completion_cleanup"}
                         => rows[k].op # 0
  BY DEF BlobInv, Uploads, UploadOK, In
<1>3. ASSUME NEW k \in Key
      PROVE  /\ Overdue(rows[k]) \in Row \cup {None}
             /\ Overdue(rows[k]) = None <=> rows[k] = None
             /\ rows[k] # None => Overdue(rows[k]).op = rows[k].op
             /\ rows[k] # None
                  /\ Overdue(rows[k]).state \in {"completing", "completion_cleanup"}
                      => rows[k].op # 0
  <2>1. CASE Overdue(rows[k]) = rows[k]
    BY <1>1, <1>2, <2>1 DEF RowsType
  <2>2. CASE rows[k] # None /\ rows[k].state = "active"
               /\ Overdue(rows[k]) = [rows[k] EXCEPT !.state = "abort_pending"]
    <3>1. rows[k] \in Row
      BY <1>1, <2>2
    <3>2. [rows[k] EXCEPT !.state = "abort_pending"] \in Row
      BY <3>1 DEF Row, RowState
    <3>3. /\ [rows[k] EXCEPT !.state = "abort_pending"].op = rows[k].op
          /\ [rows[k] EXCEPT !.state = "abort_pending"].state = "abort_pending"
      BY <3>1 DEF Row
    <3> QED
      BY <1>1, <2>2, <3>2, <3>3
  <2>3. CASE rows[k] # None /\ rows[k].state = "completing"
               /\ Overdue(rows[k]) = [rows[k] EXCEPT !.state = "completion_cleanup"]
    <3>1. rows[k] \in Row
      BY <1>1, <2>3
    <3>2. [rows[k] EXCEPT !.state = "completion_cleanup"] \in Row
      BY <3>1 DEF Row, RowState
    <3>3. [rows[k] EXCEPT !.state = "completion_cleanup"].op = rows[k].op
      BY <3>1 DEF Row
    <3> QED
      BY <1>1, <1>2, <2>3, <3>2, <3>3
  <2> QED
    BY <2>1, <2>2, <2>3 DEF Overdue
<1>4. Like(Marked)
  BY <1>1, <1>3 DEF Like, Marked, RowsType
<1>5. Like(rows)
  BY <1>1, <1>2 DEF Like
<1> QED
  BY <1>4, <1>5

\* A row that is rewritten stays.
LEMMA PutStays ==
    ASSUME BlobInv, NEW R, Like(R), NEW k \in Key, R[k] # None,
           NEW s \in RowState, NEW n \in Nat,
           s \in {"completing", "completion_cleanup"} => n # 0,
           Put(R, k, s, n)
    PROVE  RowsStay
<1>1. [state |-> s, op |-> n, due |-> FALSE] \in Row /\ None \notin Row
  BY BlobFacts DEF Row, BlobInv
<1>2. /\ rows' \in RowsType
      /\ rows'[k] = [state |-> s, op |-> n, due |-> FALSE]
      /\ \A j \in Key : j # k => rows'[j] = R[j]
  BY <1>1 DEF Put, Like, RowsType
<1> QED
  BY <1>1, <1>2 DEF RowsStay, Like

LEMMA LikeStays ==
    ASSUME NEW R, Like(R), rows' = R
    PROVE  RowsStay
BY DEF Like, RowsStay

\* A row comes for an upload of which there is nothing.
LEMMA Admitted ==
    ASSUME BlobInv, NEW R, Like(R), NEW k \in Key, Put(R, k, "active", 0), Fits(R, k),
           rows[k] = None, ledger[k] = 0, mpu[k] # "none", Ever, Ever' = Ever,
           scan' = scan \/ Bump, tokens' \in {tokens, tokens \cup {k}},
           UNCHANGED <<ledger, total, mpu, bucket>>
    PROVE  Uploads' /\ Scans' /\ Accounts' /\ Onward /\ rows' \in RowsType
           /\ rows'[k] # None
           /\ \A j \in Key : j # k /\ rows[j] = None => rows'[j] = None
<1>1. [state |-> "active", op |-> 0, due |-> FALSE] \in Row /\ None \notin Row
  BY BlobFacts DEF Row, RowState, BlobInv
<1>2. /\ rows' \in RowsType
      /\ rows'[k] = [state |-> "active", op |-> 0, due |-> FALSE]
      /\ \A j \in Key : j # k => rows'[j] = R[j]
  BY <1>1 DEF Put, Like, RowsType
<1>3. \A j \in Key : /\ j # k => (rows'[j] = None <=> rows[j] = None)
                     /\ R[j] = None <=> rows[j] = None
  BY <1>2 DEF Like
<1>4. rows'[k] # None /\ Reserved' = Reserved \cup {k}
  BY <1>1, <1>2, <1>3 DEF Reserved
<1>5. Uploads'
  <2>1. ASSUME NEW j \in Key, j # k
        PROVE  UploadOK(j)'
    <3>1. j \in tokens' <=> j \in tokens
      BY <2>1
    <3>2. rows'[j] # None <=> rows[j] # None
      BY <1>3, <2>1
    <3>3. (In(j, "completing") \/ In(j, "completion_cleanup"))' => rows'[j].op # 0
      BY <1>2, <2>1 DEF Like, In
    <3> QED
      BY <3>1, <3>2, <3>3 DEF BlobInv, Uploads, UploadOK
  <2>2. UploadOK(k)'
    <3>1. k \notin bucket
      BY DEF BlobInv, Uploads, UploadOK
    <3> QED
      BY <1>2, <1>4, <3>1 DEF UploadOK, In
  <2> QED
    BY <2>1, <2>2 DEF Uploads
<1>6. Scans'
  BY <1>4, ScanStays DEF BlobInv, Scans
<1>7. Accounts'
  <2>1. Fits(rows, k)
    <3>1. {j \in Key : R[j] # None} = {j \in Key : rows[j] # None}
      BY <1>3
    <3> QED
      BY <3>1 DEF Fits
  <2> QED
    BY <1>4, <2>1, AdmittedAccounts
<1>8. Onward
  BY DEF Onward, Ended
<1> QED
  BY <1>2, <1>3, <1>4, <1>5, <1>6, <1>7, <1>8

\* R2 applies a completion, if the upload is open.
LEMMA Applied ==
    ASSUME BlobInv, NEW k \in Key, k \in tokens, Apply(k),
           UNCHANGED <<rows, ledger, total, scan, tokens>>, Ever' = Ever
    PROVE  Kept /\ bucket' \subseteq Object /\ mpu' \in [Key -> {"none", "open", "done"}]
           /\ (mpu[k] = "open" => mpu'[k] = "done")
<1>1. mpu \in [Key -> {"none", "open", "done"}] /\ bucket \subseteq Object /\ k \in Object
  BY DEF BlobInv, BlobTypes, StoreTypes, Object
<1>2. CASE mpu[k] # "open"
  <2>1. UNCHANGED <<bucket, mpu>>
    BY <1>2 DEF Apply
  <2>2. RowsStay
    BY MarkedLike, LikeStays
  <2> QED
    BY <1>1, <1>2, <2>1, <2>2, Renewed
<1>3. CASE mpu[k] = "open"
  <2>1. bucket' = bucket \cup {k} /\ mpu' = [mpu EXCEPT ![k] = "done"]
    BY <1>3 DEF Apply
  <2>2. rows[k] # None /\ k \in Reserved /\ Reserved' = Reserved
    BY <1>3 DEF BlobInv, Uploads, UploadOK, Reserved
  <2>3. mpu'[k] = "done" /\ \A j \in Key : j # k => mpu'[j] = mpu[j]
    BY <1>1, <2>1
  <2>4. Uploads'
    <3>1. \A j \in Key : j # k => UploadOK(j)'
      BY <2>1, <2>3 DEF BlobInv, Uploads, UploadOK, In
    <3>2. UploadOK(k)'
      BY <2>2, <2>3 DEF BlobInv, Uploads, UploadOK, In
    <3> QED
      BY <3>1, <3>2 DEF Uploads
  <2>5. Scans'
    BY <2>1, <2>2 DEF BlobInv, Scans
  <2>6. Accounts'
    <3>1. /\ bucket' \ Reserved' \subseteq bucket \ Reserved
          /\ bucket' \cup Reserved' \subseteq bucket \cup Reserved
          /\ bucket' \subseteq Object
      BY <1>1, <2>1, <2>2
    <3>2. \A a \in Actor : Held(a)' \subseteq Held(a)
      BY DEF Held
    <3> QED
      BY <2>2, <3>1, <3>2, AccountsStay
  <2>7. Onward /\ Untouched
    BY <1>3, <2>1, <2>3 DEF Onward, Ended, Untouched
  <2>8. bucket' \subseteq Object /\ mpu' \in [Key -> {"none", "open", "done"}]
    BY <1>1, <2>1
  <2> QED
    BY <2>3, <2>4, <2>5, <2>6, <2>7, <2>8 DEF Kept
<1> QED
  BY <1>2, <1>3

\* Objects go.
LEMMA Shrunk ==
    ASSUME BlobInv, bucket' \subseteq bucket,
           UNCHANGED <<rows, ledger, total, scan, tokens, mpu>>, Ever' = Ever
    PROVE  Kept /\ bucket' \subseteq Object
<1>1. Reserved' = Reserved /\ bucket \subseteq Object
  BY DEF Reserved, BlobInv, BlobTypes, StoreTypes
<1>2. Uploads'
  BY DEF BlobInv, Uploads, UploadOK, In
<1>3. Scans'
  BY <1>1 DEF BlobInv, Scans
<1>4. Accounts'
  <2>1. \A a \in Actor : Held(a)' \subseteq Held(a)
    BY DEF Held
  <2> QED
    BY <1>1, <2>1, AccountsStay
<1>5. Onward /\ Untouched
  BY DEF Onward, Ended, Untouched
<1> QED
  BY <1>1, <1>2, <1>3, <1>4, <1>5 DEF Kept

\* R2 opens an upload, or ends one without an object.
LEMMA Moved ==
    ASSUME BlobInv, NEW k \in Key, NEW m \in {"open", "done"},
           m = "open" => mpu[k] = "none",
           mpu' = [mpu EXCEPT ![k] = m],
           UNCHANGED <<rows, ledger, total, scan, tokens, bucket>>, Ever' = Ever
    PROVE  Kept /\ mpu' \in [Key -> {"none", "open", "done"}] /\ mpu'[k] = m
           /\ \A j \in Key : j # k => mpu'[j] = mpu[j]
<1>1. /\ mpu' \in [Key -> {"none", "open", "done"}] /\ mpu'[k] = m
      /\ \A j \in Key : j # k => mpu'[j] = mpu[j]
      /\ bucket \subseteq Object
  BY DEF BlobInv, BlobTypes, StoreTypes
<1>2. Reserved' = Reserved
  BY DEF Reserved
<1>3. Uploads'
  <2>1. \A j \in Key : j # k => UploadOK(j)'
    BY <1>1 DEF BlobInv, Uploads, UploadOK, In
  <2>2. UploadOK(k)'
    BY <1>1 DEF BlobInv, Uploads, UploadOK, In
  <2> QED
    BY <2>1, <2>2 DEF Uploads
<1>4. Scans'
  BY <1>2 DEF BlobInv, Scans
<1>5. Accounts'
  <2>1. \A a \in Actor : Held(a)' \subseteq Held(a)
    BY DEF Held
  <2> QED
    BY <1>1, <1>2, <2>1, AccountsStay
<1>6. Onward /\ Untouched
  BY <1>1 DEF Onward, Ended, Untouched
<1> QED
  BY <1>1, <1>3, <1>4, <1>5, <1>6 DEF Kept

-----------------------------------------------------------------------------
(* What the requests and the passes know stays true.                         *)

ReqKept  == Requests' /\ req' \in ReqType
PassKept == Passes' /\ clean' \in CleanType

\* Of a request that stands still.
LEMMA RequestStays ==
    ASSUME BlobInv, Kept, NEW r \in Req, req'[r] = req[r]
    PROVE  RequestOK(req[r])'
<1>1. RequestOK(req[r]) /\ (req[r] # Idle => req[r].key \in Key)
  BY RequestFacts DEF BlobInv, Requests, BlobTypes, ReqType
<1> QED
  BY <1>1 DEF Kept, Untouched, Onward, RequestOK

\* One request moves and does not begin to create.
LEMMA RequestMoves ==
    ASSUME BlobInv, Kept, NEW r \in Req, NEW q \in Request \cup {Idle},
           req' = [req EXCEPT ![r] = q], RequestOK(req[r])',
           Creating(q) => Creating(req[r]) /\ q.key = req[r].key
    PROVE  ReqKept
<1>1. req' \in ReqType /\ req'[r] = q /\ \A s \in Req : s # r => req'[s] = req[s]
  BY DEF BlobInv, BlobTypes, ReqType
<1>2. \A s \in Req : RequestOK(req[s])'
  BY <1>1, RequestStays
<1>3. \A s \in Req : Creating(req'[s]) => Creating(req[s]) /\ req'[s].key = req[s].key
  BY <1>1
<1>4. ASSUME NEW s \in Req, NEW t \in Req,
             Creating(req'[s]), Creating(req'[t]), req'[s].key = req'[t].key
      PROVE  s = t
  BY <1>3, <1>4 DEF BlobInv, Requests
<1>5. Requests'
  <2>1. \A s, t \in Req : (Creating(req[s]) /\ Creating(req[t])
                             /\ req[s].key = req[t].key)' => s = t
    BY <1>4 DEF Creating
  <2> QED
    BY <1>2, <2>1 DEF Requests
<1> QED
  BY <1>1, <1>5 DEF ReqKept

LEMMA SameReq ==
    ASSUME BlobInv, Kept, req' = req
    PROVE  ReqKept
<1>1. \A s \in Req : RequestOK(req[s])'
  BY RequestStays
<1>2. \A s, t \in Req : (Creating(req[s]) /\ Creating(req[t])
                           /\ req[s].key = req[t].key)' => s = t
  BY DEF Creating, BlobInv, Requests
<1> QED
  BY <1>1, <1>2 DEF ReqKept, Requests, BlobInv, BlobTypes

LEMMA Replied ==
    ASSUME BlobInv, Kept, NEW r \in Req, Reply(r)
    PROVE  ReqKept
<1>1. req'[r] = Idle
  BY DEF Reply, BlobInv, BlobTypes, ReqType
<1> QED
  BY <1>1, RequestMoves DEF Reply, RequestOK, Creating

\* A request goes on to the next call.
LEMMA Stepped ==
    ASSUME BlobInv, Kept, NEW r \in Req, req[r] \in Request,
           NEW pc \in Place[req[r].op], Step(r, pc),
           req[r].op = "create" /\ pc # "undo" => req[r].pc # "undo",
           pc \in {"commit", "again", "delete"} => mpu'[req[r].key] = "done",
           pc = "release" => Ended(req[r].key)'
    PROVE  ReqKept
<1> DEFINE q == [req[r] EXCEPT !.pc = pc]
<1>1. /\ q \in Request /\ req[r].key \in Key /\ req[r] # Idle
      /\ q.op = req[r].op /\ q.key = req[r].key /\ q.pc = pc
  BY RequestFacts DEF Request
<1>2. req' = [req EXCEPT ![r] = q]
  BY DEF Step
<1>3. req'[r] = q
  BY <1>2 DEF BlobInv, BlobTypes, ReqType
<1>4. RequestOK(req[r])
  BY DEF BlobInv, Requests
<1>5. RequestOK(req[r])'
  <2>1. mpu'[q.key] # "none" /\ (q.op = "create" <=> q.key \notin tokens')
    BY <1>1, <1>4 DEF RequestOK, Kept, Onward
  <2>2. q.op = "create" /\ q.pc # "undo" => rows'[q.key] = None /\ ledger'[q.key] = 0
    BY <1>1, <1>4 DEF RequestOK, Kept, Untouched
  <2>3. pc = "release" => mpu'[q.key] = "done" /\ q.key \notin bucket'
    <3> HIDE DEF q
    <3> QED
      BY <1>1, <1>3 DEF Ended
  <2> HIDE DEF q
  <2> QED
    BY <1>1, <1>3, <2>1, <2>2, <2>3 DEF RequestOK, Ended
<1>6. Creating(q) => Creating(req[r]) /\ q.key = req[r].key
  BY <1>1 DEF Creating
<1> QED
  BY <1>1, <1>2, <1>5, <1>6, RequestMoves

\* A request begins that uses an upload that its client knows.
LEMMA Begun ==
    ASSUME BlobInv, Kept, NEW r \in Req, NEW k \in tokens, NEW op \in {"part", "abort", "complete"},
           NEW pc \in Place[op], NEW n \in Nat,
           pc \notin {"commit", "again", "delete", "release"},
           req' = [req EXCEPT ![r] = Task(op, k, pc, n)]
    PROVE  ReqKept
<1> DEFINE q == Task(op, k, pc, n)
<1>1. k \in Key /\ mpu[k] # "none"
  BY DEF BlobInv, BlobTypes, StoreTypes, Uploads, UploadOK
<1>2. q \in Request /\ q # Idle /\ q.op = op /\ q.key = k /\ q.pc = pc
  <2>1. pc \in UNION {Place[o] : o \in Call} /\ op \in Call
    BY DEF Call
  <2>2. q \in Request
    BY <1>1, <2>1 DEF Task, Request
  <2> QED
    BY <2>2, RequestFacts DEF Task
<1>3. req'[r] = q
  BY DEF BlobInv, BlobTypes, ReqType
<1>4. RequestOK(req[r])'
  <2> HIDE DEF q
  <2> QED
    BY <1>1, <1>2, <1>3 DEF RequestOK, Kept, Onward
<1> QED
  BY <1>2, <1>4, RequestMoves DEF Creating

LEMMA PassesStay ==
    ASSUME BlobInv, Onward, clean' = clean
    PROVE  PassKept
<1>1. \A p \in Pass, k \in Key : clean[p][k] \in Settling \cup {Idle}
  BY DEF BlobInv, BlobTypes, CleanType
<1>2. \A p \in Pass, k \in Key : PassOK(clean[p][k], k)'
  BY <1>1, PassStays DEF BlobInv, Passes
<1> QED
  BY <1>2 DEF PassKept, Passes, BlobInv, BlobTypes

\* A pass goes on with one upload.
LEMMA PassMoves ==
    ASSUME BlobInv, Onward, NEW p \in Pass, NEW k \in Key, NEW c \in Settling \cup {Idle},
           clean' = [clean EXCEPT ![p][k] = c], PassOK(clean[p][k], k)'
    PROVE  PassKept
<1>1. /\ clean' \in CleanType /\ clean'[p][k] = c
      /\ \A q \in Pass, j \in Key : q # p \/ j # k => clean'[q][j] = clean[q][j]
  BY DEF BlobInv, BlobTypes, CleanType
<1>2. \A q \in Pass, j \in Key : clean[q][j] \in Settling \cup {Idle}
  BY DEF BlobInv, BlobTypes, CleanType
<1>3. ASSUME NEW q \in Pass, NEW j \in Key
      PROVE  PassOK(clean[q][j], j)'
  <2>1. CASE q = p /\ j = k
    BY <2>1
  <2>2. CASE q # p \/ j # k
    <3>1. clean'[q][j] = clean[q][j]
      BY <1>1, <2>2
    <3>2. PassOK(clean[q][j], j)
      BY DEF BlobInv, Passes
    <3> QED
      BY <3>1, <3>2 DEF PassOK, Onward
  <2> QED
    BY <2>1, <2>2
<1> QED
  BY <1>1, <1>3 DEF PassKept, Passes

-----------------------------------------------------------------------------
(* The steps.                                                                *)

LEMMA Together ==
    ASSUME StoreTypes', Uploads', Scans', Accounts', ReqKept, PassKept
    PROVE  BlobInv'
BY DEF BlobInv, BlobTypes, ReqKept, PassKept

LEMMA KeptTogether ==
    ASSUME BlobInv, Kept, StoreTypes', ReqKept, clean' = clean \/ PassKept
    PROVE  BlobInv'
<1>1. PassKept
  BY PassesStay DEF Kept
<1> QED
  BY <1>1, Together DEF Kept

\* Rows are rewritten.
LEMMA RowStep ==
    ASSUME BlobInv, RowsStay, scan' = scan \/ Bump \/ scan' = None,
           UNCHANGED <<parts, ledger, total, fresh, scanLock, r2, client, hours>>
    PROVE  Kept /\ StoreTypes'
<1>1. UNCHANGED <<mpu, stored, late, bucket, aged, tokens, acked>> /\ Ever' = Ever
  BY DEF r2, client, Ever
<1>2. Kept
  BY <1>1, Renewed
<1>3. scan' \in Scan \cup {None} /\ (scan' # None => scanLock')
  BY ScanStays DEF BlobInv, BlobTypes, StoreTypes
<1>4. \A k \in Key : rows'[k] = None => k \notin parts'
  BY DEF RowsStay, BlobInv, BlobTypes, StoreTypes
<1>5. StoreTypes'
  BY <1>1, <1>3, <1>4 DEF RowsStay, BlobInv, BlobTypes, StoreTypes
<1> QED
  BY <1>2, <1>5

LEMMA QuietStep ==
    ASSUME BlobInv, UNCHANGED <<table, recon, r2, client, hours>>
    PROVE  Kept /\ StoreTypes'
<1>1. RowsStay
  BY MarkedLike, LikeStays DEF table
<1> QED
  BY <1>1, RowStep DEF table, recon

\* A reservation is given up.
LEMMA DropStep ==
    ASSUME BlobInv, NEW k \in Key, Drop(k), Ended(k),
           UNCHANGED <<ledger, total, fresh, scanLock, r2, client, hours>>
    PROVE  Kept /\ StoreTypes'
<1>1. UNCHANGED <<mpu, stored, late, bucket, aged, tokens, acked>> /\ Ever' = Ever
  BY DEF r2, client, Ever
<1>2. Kept
  BY <1>1, Dropped
<1>3. /\ scan' \in Scan \cup {None} /\ (scan' # None => scanLock')
      /\ rows' = [rows EXCEPT ![k] = None] /\ parts' = parts \ {k}
  BY ScanStays DEF Drop, BlobInv, BlobTypes, StoreTypes
<1>4. /\ rows' \in RowsType
      /\ \A j \in Key : rows'[j] = None => j \notin parts'
  BY <1>3 DEF RowsType, BlobInv, BlobTypes, StoreTypes
<1>5. StoreTypes'
  BY <1>1, <1>3, <1>4 DEF BlobInv, BlobTypes, StoreTypes
<1> QED
  BY <1>2, <1>5

\* A reservation becomes a completed object.
LEMMA PromoteStep ==
    ASSUME BlobInv, NEW k \in Key, Promote(k), Promotable(k), mpu[k] = "done",
           In(k, "completing") \/ In(k, "completion_cleanup"), acked' \subseteq Key,
           UNCHANGED <<fresh, scanLock, r2, tokens, hours>>
    PROVE  Kept /\ StoreTypes'
<1>1. UNCHANGED <<mpu, stored, late, bucket, aged, tokens>> /\ Ever' = Ever
  BY DEF r2, Ever
<1>2. Kept
  BY <1>1, Promoted
<1>3. /\ scan' \in Scan \cup {None} /\ (scan' # None => scanLock')
      /\ rows' = [rows EXCEPT ![k] = None] /\ parts' = parts \ {k}
      /\ ledger' = [ledger EXCEPT ![k] = rows[k].op] /\ total' = total + Bytes[k]
  BY ScanStays DEF Promote, Drop, BlobInv, BlobTypes, StoreTypes
<1>4. rows[k] \in Row /\ Bytes[k] \in Nat
  BY BlobFacts DEF In, BlobInv
<1>5. /\ rows' \in RowsType
      /\ \A j \in Key : rows'[j] = None => j \notin parts'
      /\ ledger' \in [Key -> Nat] /\ total' \in Nat
  BY <1>3, <1>4 DEF RowsType, Row, BlobInv, BlobTypes, StoreTypes
<1>6. StoreTypes'
  BY <1>1, <1>3, <1>5 DEF BlobInv, BlobTypes, StoreTypes
<1> QED
  BY <1>2, <1>6

LEMMA MarkExpiredScan == ASSUME MarkExpired PROVE scan' = scan \/ Bump
BY DEF MarkExpired

-----------------------------------------------------------------------------
(* Reconciliation.                                                           *)

LEMMA ScanPageKeeps ==
    ASSUME BlobInv, ScanPage
    PROVE  BlobInv'
<1> DEFINE k == CHOOSE x \in scan.left : TRUE
           seen == scan.seen \cup ({k} \cap bucket)
<1>1. /\ scan # None /\ scan \in Scan /\ k \in scan.left
      /\ scan' = [scan EXCEPT !.left = IF Overfull(seen) THEN {} ELSE @ \ {k},
                              !.seen = seen]
      /\ UNCHANGED <<table, fresh, scanLock, clean, r2, req, client, hours>>
  BY DEF ScanPage, BlobInv, BlobTypes, StoreTypes, counts
<1>2. UNCHANGED <<rows, parts, ledger, total, fresh, scanLock, clean, req, hours,
                  mpu, stored, late, bucket, aged, tokens, acked>>
  BY <1>1 DEF table, r2, client
<1> HIDE DEF k
<1>3. /\ scan' \in Scan /\ scan'.dirty = scan.dirty
      /\ scan'.seen = scan.seen \cup ({k} \cap bucket)
      /\ \/ scan'.left = scan.left \ {k}
         \/ scan'.left = {} /\ Overfull(scan'.seen)
  <2>1. seen \in SUBSET Object
    BY <1>1, BlobFacts DEF BlobInv, BlobTypes, StoreTypes, Scan
  <2>2. scan'.left = (IF Overfull(seen) THEN {} ELSE scan.left \ {k}) /\ scan'.seen = seen
    BY <1>1 DEF Scan
  <2> QED
    BY <1>1, <2>1, <2>2 DEF Scan
<1>4. StoreTypes'
  BY <1>1, <1>2, <1>3 DEF BlobInv, BlobTypes, StoreTypes
<1>5. Reserved' = Reserved
  BY <1>2 DEF Reserved
<1>6. Scans'
  <2>1. CASE scan'.left = {} /\ Overfull(scan'.seen)
    BY <2>1 DEF Scans, Overfull
  <2>2. CASE scan'.left = scan.left \ {k} /\ scan.left # {}
    BY <1>1, <1>2, <1>3, <1>5, <2>2 DEF BlobInv, Scans
  <2> QED
    BY <1>1, <1>3, <2>1, <2>2
<1>7. Uploads' /\ Passes' /\ Requests'
  <2>1. Uploads'
    BY <1>2 DEF BlobInv, Uploads, UploadOK, In
  <2>2. Passes'
    BY <1>2 DEF BlobInv, Passes, PassOK, Ended
  <2>3. Requests'
    BY <1>2 DEF BlobInv, Requests, RequestOK, Creating, Ended
  <2> QED
    BY <2>1, <2>2, <2>3
<1>8. Accounts'
  <2>1. Ever' = Ever /\ \A a \in Actor : Held(a)' = Held(a)
    BY <1>2 DEF Ever, Held
  <2> QED
    BY <1>2, <1>5, <2>1, Sums, AccountsStay
<1> QED
  BY <1>2, <1>4, <1>6, <1>7, <1>8 DEF BlobInv, BlobTypes

\* A scan that ends well counts what it has seen.
LEMMA EndScanKeeps ==
    ASSUME BlobInv, EndScan
    PROVE  BlobInv'
<1>1. /\ scan # None /\ scan \in Scan /\ scan.left = {} /\ scan' = None /\ scanLock' = FALSE
      /\ UNCHANGED <<rows, parts, clean, req, hours, mpu, stored, late, bucket,
                     aged, tokens, acked>>
  BY DEF EndScan, BlobInv, BlobTypes, StoreTypes, r2, client, counts
<1>2. CASE ~ScanStands
  <2>1. UNCHANGED <<fresh, total, ledger>>
    BY <1>2 DEF EndScan
  <2>2. RowsStay /\ Ever' = Ever
    BY <1>1, <2>1, MarkedLike, LikeStays DEF Ever
  <2>3. Kept
    BY <1>1, <2>1, <2>2, Renewed
  <2>4. StoreTypes'
    BY <1>1, <2>1 DEF BlobInv, BlobTypes, StoreTypes
  <2> QED
    BY <1>1, <2>3, <2>4, SameReq, KeptTogether
<1>3. CASE ScanStands
  <2>1. /\ fresh' = TRUE /\ total' = Sum(scan.seen) /\ ~scan.dirty
        /\ ledger' = [k \in Key |->
              IF k \in aged \ scan.seen /\ ~Overfull(scan.seen) THEN 0 ELSE ledger[k]]
    BY <1>3 DEF EndScan, ScanStands
  <2>2. /\ bucket \subseteq scan.seen \cup Reserved \/ Overfull(scan.seen)
        /\ Reserved' = Reserved
    BY <1>1, <2>1 DEF BlobInv, Scans, Reserved
  <2>3. scan.seen \subseteq Object
    BY <1>1 DEF Scan
  <2>4. Sum(scan.seen) \in Nat
    BY <2>3, SumNat
  <2>5. StoreTypes'
    <3>1. ledger' \in [Key -> Nat]
      BY <2>1 DEF BlobInv, BlobTypes, StoreTypes
    <3> QED
      BY <1>1, <2>1, <2>4, <3>1 DEF BlobInv, BlobTypes, StoreTypes
  <2>6. \A k \in Key : /\ ledger[k] = 0 => ledger'[k] = 0
                       /\ k \in bucket /\ rows[k] = None => ledger'[k] = ledger[k]
    BY <2>1, <2>2, BlobFacts DEF BlobInv
  <2>7. Uploads'
    BY <1>1, <2>6 DEF BlobInv, Uploads, UploadOK, In
  <2>8. Scans'
    BY <1>1 DEF Scans
  <2>9. Accounts'
    <3>1. Ever'
      BY <2>1 DEF Ever
    <3>2. Sum(bucket' \ Reserved') <= total' \/ total' > Budget
      <4>1. CASE bucket' \ Reserved' \subseteq scan.seen
        BY <2>1, <2>3, <4>1, SumGrows
      <4>2. CASE Overfull(scan.seen)
        BY <2>1, <4>2 DEF Overfull
      <4> QED
        BY <1>1, <2>2, <4>1, <4>2
    <3>3. Sum(bucket' \cup Reserved') = Sum(bucket \cup Reserved)
      BY <1>1, <2>2
    <3>4. \/ Sum(bucket \cup Reserved)' <= Budget
          \/ Sum(bucket \cup Reserved)' <= Sum(Legacy)
      BY <3>3 DEF BlobInv, Accounts
    <3>5. ASSUME NEW a \in Actor
          PROVE  Sum(Held(a))' <= ActorBudget
      <4>1. Held(a)' \subseteq Held(a)
        BY <1>1, <2>6 DEF Held
      <4>2. Held(a)' \subseteq Object /\ Held(a) \subseteq Object
        BY <4>1, Sums
      <4>3. Sum(Held(a)') <= Sum(Held(a)) /\ Sum(Held(a)') \in Nat
        BY <4>1, <4>2, SumGrows, SumNat
      <4> QED
        BY <4>3, Sums, BlobAssumption DEF BlobInv, Accounts
    <3> QED
      BY <3>1, <3>2, <3>4, <3>5 DEF Accounts
  <2>10. Kept
    BY <1>1, <2>6, <2>7, <2>8, <2>9 DEF Kept, Onward, Ended, Untouched
  <2> QED
    BY <1>1, <2>5, <2>10, SameReq, KeptTogether
<1> QED
  BY <1>2, <1>3

LEMMA ScanFailsKeeps ==
    ASSUME BlobInv, ScanFails
    PROVE  BlobInv'
<1>1. /\ UNCHANGED <<rows, parts, ledger, total, fresh, clean, req, hours, mpu, stored,
                     late, bucket, aged, tokens, acked>>
      /\ scan' = None /\ scanLock' = FALSE
  BY DEF ScanFails, Fault, table, r2, client
<1>2. RowsStay /\ Ever' = Ever
  BY <1>1, MarkedLike, LikeStays DEF Ever
<1>3. Kept
  BY <1>1, <1>2, Renewed
<1>4. StoreTypes'
  BY <1>1 DEF BlobInv, BlobTypes, StoreTypes
<1> QED
  BY <1>1, <1>3, <1>4, SameReq, KeptTogether

LEMMA StaleKeeps ==
    ASSUME BlobInv, Stale \/ LockExpires
    PROVE  BlobInv'
<1>1. /\ UNCHANGED <<rows, parts, ledger, total, scan, clean, req, mpu, stored,
                     late, bucket, aged, tokens, acked>>
      /\ hours' = hours \/ hours' = hours + 1
      /\ fresh' = fresh \/ fresh' = FALSE
      /\ scanLock' = scanLock \/ (scan = None /\ scanLock' = FALSE)
  <2>1. CASE Stale
    BY <2>1 DEF Stale, table, r2, client
  <2>2. CASE LockExpires
    BY <2>2 DEF LockExpires, table, r2, client, counts
  <2> QED
    BY <2>1, <2>2
<1>2. Ever' = Ever
  <2>1. CASE Stale
    BY <2>1 DEF Stale, Ever, BlobInv, BlobTypes, StoreTypes
  <2>2. CASE LockExpires
    BY <2>2 DEF LockExpires, Ever, counts
  <2> QED
    BY <2>1, <2>2
<1>3. RowsStay
  BY <1>1, MarkedLike, LikeStays
<1>4. Kept
  BY <1>1, <1>2, <1>3, Renewed
<1>5. StoreTypes'
  <2>1. /\ hours \in Nat /\ fresh \in BOOLEAN
        /\ scanLock \in BOOLEAN /\ (scan # None => scanLock)
    BY DEF BlobInv, BlobTypes, StoreTypes
  <2>2. hours' \in Nat
    BY <1>1, <2>1
  <2>3. fresh' \in BOOLEAN
    BY <1>1, <2>1
  <2>4. scanLock' \in BOOLEAN
    BY <1>1, <2>1
  <2>5. scan # None => scanLock'
    BY <1>1, <2>1
  <2> QED
    BY <1>1, <2>2, <2>3, <2>4, <2>5 DEF BlobInv, BlobTypes, StoreTypes
<1> QED
  BY <1>1, <1>4, <1>5, SameReq, KeptTogether

-----------------------------------------------------------------------------
(* Cleanup.                                                                  *)

LEMMA Swept ==
    ASSUME BlobInv, NEW p \in Pass, Sweep(p), UNCHANGED <<mpu, bucket>>
    PROVE  RowsStay /\ (scan' = scan \/ Bump) /\ PassKept
<1>1. RowsStay
  BY MarkedLike, LikeStays DEF Sweep
<1>2. scan' = scan \/ Bump
  BY MarkExpiredScan DEF Sweep
<1> DEFINE Read(k) == [state |-> Marked[k].state, op |-> Marked[k].op, hit |-> FALSE,
                       pc |-> IF Marked[k].state = "abort_pending" THEN "abort" ELSE "head"]
           C(k) == IF ~Cleanable(Marked[k]) THEN Idle ELSE Read(k)
<1>3. clean' = [clean EXCEPT ![p] = [k \in Key |-> C(k)]]
  BY DEF Sweep
<1>4. \A k \in Key : C(k) \in Settling \cup {Idle}
  <2>1. ASSUME NEW k \in Key, Cleanable(Marked[k])
        PROVE  Read(k) \in Settling
    <3>1. /\ Marked[k] \in Row
          /\ Marked[k].state \in {"abort_pending", "completion_cleanup"}
      BY <2>1, MarkedLike DEF Cleanable, Like, RowsType
    <3>2. Marked[k].op \in Nat
      BY <3>1 DEF Row
    <3> QED
      BY <3>1, <3>2 DEF Settling
  <2> QED
    BY <2>1
<1>5. \A k \in Key : C(k) = Idle \/ (mpu[k] # "none" /\ C(k).pc \in {"abort", "head"})
  <2>1. ASSUME NEW k \in Key, Cleanable(Marked[k])
        PROVE  mpu[k] # "none"
    <3>1. rows[k] # None
      BY <2>1, MarkedLike DEF Cleanable, Like
    <3> QED
      BY <3>1 DEF BlobInv, Uploads, UploadOK
  <2>2. \A k \in Key : Read(k).pc \in {"abort", "head"}
    OBVIOUS
  <2> QED
    BY <2>1, <2>2
<1>6. /\ clean \in CleanType /\ clean' \in CleanType
      /\ \A k \in Key : clean'[p][k] = C(k)
      /\ \A q \in Pass, k \in Key : q # p => clean'[q][k] = clean[q][k]
  <2> HIDE DEF C
  <2> QED
    BY <1>3, <1>4 DEF BlobInv, BlobTypes, CleanType
<1>7. ASSUME NEW q \in Pass, NEW k \in Key
      PROVE  PassOK(clean[q][k], k)'
  <2>1. CASE q = p
    <3> HIDE DEF C
    <3> QED
      BY <1>5, <1>6, <2>1 DEF PassOK
  <2>2. CASE q # p
    <3>1. PassOK(clean[q][k], k)
      BY DEF BlobInv, Passes
    <3> QED
      BY <1>6, <2>2, <3>1 DEF PassOK, Ended
  <2> QED
    BY <2>1, <2>2
<1> QED
  BY <1>1, <1>2, <1>6, <1>7 DEF PassKept, Passes

LEMMA SweptAside ==
    ASSUME BlobInv, SweepAside, UNCHANGED <<mpu, bucket>>
    PROVE  RowsStay /\ (scan' = scan \/ Bump) /\ (clean' = clean \/ PassKept)
<1>1. CASE \E p \in Aside : Sweep(p)
  BY <1>1, Swept DEF Pass
<1>2. CASE rows' = Marked /\ MarkExpired /\ UNCHANGED clean
  BY <1>2, MarkedLike, LikeStays, MarkExpiredScan
<1> QED
  BY <1>1, <1>2 DEF SweepAside

LEMMA AlarmKeeps ==
    ASSUME BlobInv, Alarm
    PROVE  BlobInv'
<1>1. /\ Sweep("alarm") /\ "alarm" \in Pass /\ req' = req
      /\ UNCHANGED <<parts, ledger, total, fresh, scanLock, r2, client, hours>>
  BY DEF Alarm, Pass, counts
<1>2. RowsStay /\ (scan' = scan \/ Bump) /\ PassKept
  BY <1>1, Swept DEF r2
<1>3. Kept /\ StoreTypes'
  BY <1>1, <1>2, RowStep
<1> QED
  BY <1>1, <1>2, <1>3, SameReq, KeptTogether

\* A pass that has come to an upload.
LEMMA PassFacts ==
    ASSUME BlobInv, NEW p \in Pass, NEW k \in Key, clean[p][k] # Idle
    PROVE  /\ clean[p][k] \in Settling /\ clean \in CleanType
           /\ PassOK(clean[p][k], k) /\ mpu[k] # "none"
BY DEF BlobInv, BlobTypes, CleanType, Passes, PassOK

LEMMA Rested ==
    ASSUME BlobInv, Onward, NEW p \in Pass, NEW k \in Key, Rest(p, k)
    PROVE  PassKept
<1>1. clean'[p][k] = Idle
  BY DEF Rest, BlobInv, BlobTypes, CleanType
<1>2. PassOK(clean[p][k], k)'
  BY <1>1 DEF PassOK
<1> QED
  BY <1>2, PassMoves DEF Rest

\* A pass goes on to its next call.
LEMMA Gone ==
    ASSUME BlobInv, Onward, NEW p \in Pass, NEW k \in Key, clean[p][k] # Idle,
           NEW pc \in {"delete", "finish", "abort", "rehead"}, Go(p, k, pc),
           pc \in {"delete", "rehead"} => mpu'[k] = "done",
           pc = "finish" => Ended(k)'
    PROVE  PassKept
<1> DEFINE c == [clean[p][k] EXCEPT !.pc = pc, !.hit = FALSE]
<1>1. clean[p][k] \in Settling /\ clean \in CleanType /\ mpu'[k] # "none"
  BY PassFacts DEF Onward
<1>2. c \in Settling /\ c.pc = pc /\ c.hit = FALSE
  BY <1>1 DEF Settling
<1>3. clean' = [clean EXCEPT ![p][k] = c]
  BY <1>1 DEF Go, CleanType
<1> HIDE DEF c
<1>4. clean'[p][k] = c
  BY <1>1, <1>3 DEF CleanType
<1>5. PassOK(clean[p][k], k)'
  BY <1>1, <1>2, <1>4 DEF PassOK
<1> QED
  BY <1>2, <1>3, <1>5, PassMoves

LEMMA Retried ==
    ASSUME BlobInv, NEW p \in Pass, NEW k \in Key, Retry(p, k),
           UNCHANGED <<fresh, scanLock, r2, req, client, hours>>
    PROVE  BlobInv'
<1>1. RowsStay
  <2>1. CASE rows' = rows
    BY <2>1, MarkedLike, LikeStays
  <2>2. CASE rows[k] # None /\ rows' = [rows EXCEPT ![k].due = FALSE]
    <3>1. rows \in RowsType /\ rows[k] \in Row /\ None \notin Row
      BY <2>2, BlobFacts DEF BlobInv, BlobTypes, StoreTypes
    <3>2. /\ [rows[k] EXCEPT !.due = FALSE] \in Row
          /\ [rows[k] EXCEPT !.due = FALSE].state = rows[k].state
          /\ [rows[k] EXCEPT !.due = FALSE].op = rows[k].op
      BY <3>1 DEF Row
    <3>3. /\ rows' \in RowsType /\ rows'[k] = [rows[k] EXCEPT !.due = FALSE]
          /\ \A j \in Key : j # k => rows'[j] = rows[j]
      BY <2>2, <3>1, <3>2 DEF RowsType
    <3>4. Like(rows)
      BY MarkedLike
    <3>5. \A j \in Key : rows'[j] = None <=> rows[j] = None
      BY <2>2, <3>1, <3>2, <3>3
    <3>6. \A j \in Key : rows'[j] # None => /\ rows'[j].state = rows[j].state
                                           /\ rows'[j].op = rows[j].op
      BY <3>2, <3>3
    <3> QED
      BY <3>3, <3>4, <3>5, <3>6 DEF RowsStay, Like
  <2> QED
    BY <2>1, <2>2 DEF Retry, Same
<1>2. Kept /\ StoreTypes'
  BY <1>1, RowStep DEF Retry
<1>3. PassKept
  BY <1>2, Rested DEF Retry, Kept
<1> QED
  BY <1>2, <1>3, SameReq, KeptTogether

LEMMA FinishKeeps ==
    ASSUME BlobInv, NEW p \in Pass, NEW k \in Key, Finish(p, k), Ended(k),
           UNCHANGED <<fresh, scanLock, r2, req, client, hours>>
    PROVE  BlobInv'
<1>1. Kept /\ StoreTypes'
  <2>1. CASE Drop(k)
    BY <2>1, DropStep DEF Finish
  <2>2. CASE UNCHANGED <<rows, parts, scan>>
    BY <2>2, QuietStep DEF Finish, table, recon
  <2> QED
    BY <2>1, <2>2 DEF Finish
<1>2. PassKept
  BY <1>1, Rested DEF Finish, Kept
<1> QED
  BY <1>1, <1>2, SameReq, KeptTogether

LEMMA PromoteKeeps ==
    ASSUME BlobInv, NEW p \in Pass, NEW k \in Key, Recoverable(p, k), mpu[k] = "done",
           Promote(k), Rest(p, k), UNCHANGED <<fresh, scanLock, r2, req, client, hours>>
    PROVE  BlobInv'
<1>1. Promotable(k) /\ In(k, "completion_cleanup")
  BY DEF Recoverable, Same, In
<1>2. UNCHANGED <<tokens, acked>> /\ acked' \subseteq Key
  BY DEF client, BlobInv, BlobTypes, StoreTypes
<1>3. Kept /\ StoreTypes'
  BY <1>1, <1>2, PromoteStep
<1>4. PassKept
  BY <1>3, Rested DEF Kept
<1> QED
  BY <1>3, <1>4, SameReq, KeptTogether

LEMMA HeadKeeps ==
    ASSUME BlobInv, NEW p \in Pass, NEW k \in Key, Head(p, k)
    PROVE  BlobInv'
<1>1. /\ UNCHANGED <<table, recon, r2, req, client, hours, mpu, bucket>>
      /\ clean[p][k] # Idle
  BY DEF Head, At, counts, r2
<1>2. Kept /\ StoreTypes'
  BY <1>1, QuietStep
<1>3. /\ clean[p][k] \in Settling /\ clean \in CleanType
      /\ PassOK(clean[p][k], k) /\ mpu[k] # "none"
  BY <1>1, PassFacts
<1>4. k \in bucket => mpu[k] = "done"
  BY DEF BlobInv, Uploads, UploadOK
<1>5. PassKept
  <2> DEFINE h == k \in bucket
  <2>h. h \in BOOLEAN
    OBVIOUS
  <2>1. CASE At(p, k, "head")
    <3> DEFINE c == [clean[p][k] EXCEPT !.hit = h, !.pc = "headed"]
    <3>1. c \in Settling /\ c.pc = "headed" /\ c.hit = h
      <4> HIDE DEF h
      <4> QED
        BY <2>h, <1>3 DEF Settling
    <3>2. clean' = [clean EXCEPT ![p][k] = c]
      BY <2>1, <1>3 DEF Head, At, CleanType
    <3> HIDE DEF c
    <3>3. clean'[p][k] = c
      BY <1>3, <3>2 DEF CleanType
    <3>4. PassOK(clean[p][k], k)'
      BY <1>1, <1>3, <1>4, <3>1, <3>3 DEF PassOK
    <3> QED
      BY <1>2, <3>1, <3>2, <3>4, PassMoves DEF Kept
  <2>2. CASE At(p, k, "rehead")
    <3> DEFINE c == [clean[p][k] EXCEPT !.hit = h, !.pc = "reheaded"]
    <3>1. c \in Settling /\ c.pc = "reheaded" /\ c.hit = h
      <4> HIDE DEF h
      <4> QED
        BY <2>h, <1>3 DEF Settling
    <3>2. clean' = [clean EXCEPT ![p][k] = c]
      BY <2>2, <1>3 DEF Head, At, CleanType
    <3> HIDE DEF c
    <3>3. clean'[p][k] = c
      BY <1>3, <3>2 DEF CleanType
    <3>4. mpu[k] = "done"
      BY <1>3, <2>2 DEF PassOK, At
    <3>5. PassOK(clean[p][k], k)'
      BY <1>1, <3>1, <3>3, <3>4 DEF PassOK, Ended
    <3> QED
      BY <1>2, <3>1, <3>2, <3>5, PassMoves DEF Kept
  <2> QED
    BY <2>1, <2>2 DEF Head
<1> QED
  BY <1>1, <1>2, <1>5, SameReq, KeptTogether

LEMMA HeadedKeeps ==
    ASSUME BlobInv, NEW p \in Pass, NEW k \in Key, Headed(p, k)
    PROVE  BlobInv'
<1>1. /\ UNCHANGED <<fresh, scanLock, r2, req, client, hours>>
      /\ clean[p][k] # Idle /\ clean[p][k].pc = "headed"
  BY DEF Headed, At, counts
<1>2. PassOK(clean[p][k], k)
  BY <1>1, PassFacts
<1>3. CASE clean[p][k].hit /\ Recoverable(p, k)
  <2>1. Promote(k) /\ Rest(p, k)
    BY <1>3 DEF Headed
  <2>2. mpu[k] = "done"
    BY <1>1, <1>2, <1>3 DEF PassOK
  <2> QED
    BY <1>1, <1>3, <2>1, <2>2, PromoteKeeps
<1>4. CASE ~(clean[p][k].hit /\ Recoverable(p, k))
  <2>1. /\ Go(p, k, IF clean[p][k].hit THEN "delete" ELSE "abort")
        /\ UNCHANGED <<table, scan>>
    BY <1>4 DEF Headed
  <2>2. Kept /\ StoreTypes' /\ UNCHANGED mpu
    BY <1>1, <2>1, QuietStep DEF recon, r2
  <2>3. PassKept
    <3>1. CASE clean[p][k].hit
      <4>1. mpu[k] = "done"
        BY <1>1, <1>2, <3>1 DEF PassOK
      <4> QED
        BY <1>1, <2>1, <2>2, <3>1, <4>1, Gone DEF Kept
    <3>2. CASE ~clean[p][k].hit
      BY <1>1, <2>1, <2>2, <3>2, Gone DEF Kept
    <3> QED
      BY <3>1, <3>2
  <2> QED
    BY <1>1, <2>2, <2>3, SameReq, KeptTogether
<1> QED
  BY <1>3, <1>4

LEMMA ReHeadedKeeps ==
    ASSUME BlobInv, NEW p \in Pass, NEW k \in Key, ReHeaded(p, k)
    PROVE  BlobInv'
<1>1. /\ UNCHANGED <<fresh, scanLock, r2, req, client, hours>>
      /\ clean[p][k] # Idle /\ clean[p][k].pc = "reheaded"
  BY DEF ReHeaded, At, counts
<1>2. mpu[k] = "done" /\ (~clean[p][k].hit => Ended(k))
  BY <1>1, PassFacts DEF PassOK
<1>3. CASE clean[p][k].hit /\ Recoverable(p, k) /\ Promote(k) /\ Rest(p, k)
  BY <1>1, <1>2, <1>3, PromoteKeeps
<1>4. CASE ~clean[p][k].hit /\ Finish(p, k)
  BY <1>1, <1>2, <1>4, FinishKeeps
<1>5. CASE Go(p, k, "delete") /\ UNCHANGED <<table, scan>>
  <2>1. Kept /\ StoreTypes' /\ UNCHANGED mpu
    BY <1>1, <1>5, QuietStep DEF recon, r2
  <2>2. PassKept
    BY <1>1, <1>2, <1>5, <2>1, Gone DEF Kept
  <2> QED
    BY <1>1, <2>1, <2>2, SameReq, KeptTogether
<1>6. CASE Retry(p, k)
  BY <1>1, <1>6, Retried
<1> QED
  BY <1>3, <1>4, <1>5, <1>6 DEF ReHeaded, Missing

LEMMA DeleteKeeps ==
    ASSUME BlobInv, NEW p \in Pass, NEW k \in Key, Delete(p, k)
    PROVE  BlobInv'
<1>1. /\ bucket' = bucket \ {k} /\ Go(p, k, "finish")
      /\ clean[p][k] # Idle /\ clean[p][k].pc = "delete"
      /\ UNCHANGED <<rows, parts, ledger, total, fresh, scan, scanLock, mpu, stored, late,
                     aged, req, tokens, acked, hours>>
  BY DEF Delete, At, table, recon, client, counts
<1>2. mpu[k] = "done"
  BY <1>1, PassFacts DEF PassOK
<1>3. Kept /\ bucket' \subseteq Object
  <2>1. bucket' \subseteq bucket /\ Ever' = Ever
    BY <1>1 DEF Ever
  <2> QED
    BY <1>1, <2>1, Shrunk
<1>4. StoreTypes'
  BY <1>1, <1>3 DEF BlobInv, BlobTypes, StoreTypes
<1>5. PassKept
  <2>1. Ended(k)'
    BY <1>1, <1>2 DEF Ended
  <2> QED
    BY <1>1, <1>3, <2>1, Gone DEF Kept
<1> QED
  BY <1>1, <1>3, <1>4, <1>5, SameReq, KeptTogether

LEMMA AbortKeeps ==
    ASSUME BlobInv, NEW p \in Pass, NEW k \in Key, Abort(p, k)
    PROVE  BlobInv'
<1>1. /\ clean[p][k] # Idle /\ clean[p][k].pc = "abort"
      /\ UNCHANGED <<rows, parts, ledger, total, fresh, scan, scanLock, stored, late,
                     bucket, aged, req, tokens, acked, hours>>
  BY DEF Abort, At, table, recon, client, counts
<1>2. mpu[k] # "none" /\ mpu \in [Key -> {"none", "open", "done"}]
  BY <1>1, PassFacts DEF BlobInv, BlobTypes, StoreTypes
<1>3. Ever' = Ever
  BY <1>1 DEF Ever
<1>4. CASE mpu[k] = "open"
  <2>1. mpu' = [mpu EXCEPT ![k] = "done"] /\ Go(p, k, "finish")
    BY <1>4 DEF Abort
  <2>2. Kept /\ mpu' \in [Key -> {"none", "open", "done"}] /\ mpu'[k] = "done"
    BY <1>1, <1>3, <2>1, Moved
  <2>3. StoreTypes'
    BY <1>1, <2>2 DEF BlobInv, BlobTypes, StoreTypes
  <2>4. Ended(k)'
    BY <1>1, <1>4, <2>2 DEF Ended, BlobInv, Uploads, UploadOK
  <2>5. PassKept
    BY <1>1, <2>1, <2>2, <2>4, Gone DEF Kept
  <2> QED
    BY <1>1, <2>2, <2>3, <2>5, SameReq, KeptTogether
<1>5. CASE mpu[k] # "open"
  <2>1. mpu' = mpu /\ Go(p, k, "rehead") /\ mpu[k] = "done"
    BY <1>2, <1>5 DEF Abort
  <2>2. Kept /\ StoreTypes'
    BY <1>1, <2>1, QuietStep DEF table, recon, r2, client
  <2>3. PassKept
    BY <1>1, <2>1, <2>2, Gone DEF Kept
  <2> QED
    BY <1>1, <2>2, <2>3, SameReq, KeptTogether
<1> QED
  BY <1>4, <1>5

LEMMA SettleKeeps ==
    ASSUME BlobInv, NEW p \in Pass, NEW k \in Key, Settle(p, k) \/ CleanupFails(p, k)
    PROVE  BlobInv'
<1>1. CASE Finished(p, k)
  <2>1. /\ UNCHANGED <<fresh, scanLock, r2, req, client, hours>>
        /\ Finish(p, k) /\ clean[p][k] # Idle /\ clean[p][k].pc = "finish"
    BY <1>1 DEF Finished, At, counts
  <2>2. Ended(k)
    BY <2>1, PassFacts DEF PassOK
  <2> QED
    BY <2>1, <2>2, FinishKeeps
<1>2. CASE CleanupFails(p, k)
  <2>1. UNCHANGED <<fresh, scanLock, r2, req, client, hours>> /\ Retry(p, k)
    BY <1>2 DEF CleanupFails, Fault
  <2> QED
    BY <2>1, Retried
<1> QED
  BY <1>1, <1>2, HeadKeeps, HeadedKeeps, ReHeadedKeeps, DeleteKeeps, AbortKeeps DEF Settle

-----------------------------------------------------------------------------
(* The worker's requests.                                                    *)

\* A request at one of its places.
LEMMA OnFacts ==
    ASSUME BlobInv, NEW r \in Req, req[r].pc # "idle"
    PROVE  /\ req[r] \in Request /\ req[r].key \in Key /\ req[r].op \in Call
           /\ req[r].pc \in Place[req[r].op] /\ mpu[req[r].key] # "none"
           /\ req[r].op # "create" => req[r].key \in tokens
           /\ req[r].op = "create" =>
                 /\ req[r].key \notin tokens
                 /\ req[r].pc # "undo" => rows[req[r].key] = None /\ ledger[req[r].key] = 0
           /\ req[r].pc \in {"commit", "again", "delete"} => mpu[req[r].key] = "done"
           /\ req[r].pc = "release" => Ended(req[r].key)
<1>1. req[r] \in Request /\ req[r] # Idle /\ req[r].key \in Key /\ RequestOK(req[r])
  BY Standing DEF BlobInv, Requests
<1>2. req[r].op \in Call /\ req[r].pc \in Place[req[r].op]
  BY <1>1, RequestFacts
<1> QED
  BY <1>1, <1>2 DEF RequestOK

\* A request that goes on while the tables stand still.
LEMMA QuietRequest ==
    ASSUME BlobInv, UNCHANGED <<table, recon, clean, r2, client, hours>>, ReqKept
    PROVE  BlobInv'
BY QuietStep, KeptTogether

LEMMA CreateKeeps ==
    ASSUME BlobInv, NEW r \in Req, NEW k \in Key, Create(r, k)
    PROVE  BlobInv'
<1> DEFINE q == Task("create", k, "reserve", 0)
<1>1. /\ mpu[k] = "none" /\ mpu' = [mpu EXCEPT ![k] = "open"] /\ req[r] = Idle
      /\ req' = [req EXCEPT ![r] = q]
      /\ UNCHANGED <<rows, parts, ledger, total, fresh, scan, scanLock, clean, stored,
                     late, bucket, aged, tokens, acked, hours>>
  BY DEF Create, table, recon, client, counts
<1>2. Ever' = Ever
  BY <1>1 DEF Ever
<1>3. Kept /\ mpu' \in [Key -> {"none", "open", "done"}] /\ mpu'[k] = "open"
  BY <1>1, <1>2, Moved
<1>4. StoreTypes'
  BY <1>1, <1>3 DEF BlobInv, BlobTypes, StoreTypes
<1>5. /\ q \in Request /\ q.op = "create" /\ q.key = k /\ q.pc = "reserve"
  <2>1. "reserve" \in UNION {Place[o] : o \in Call}
    BY DEF Place, Call
  <2> QED
    BY <2>1 DEF Task, Request, Place, Call
<1>6. rows[k] = None /\ k \notin tokens /\ ledger[k] = 0
  BY <1>1 DEF BlobInv, Uploads, UploadOK
<1> HIDE DEF q
<1>7. req' \in ReqType /\ req'[r] = q /\ \A s \in Req : s # r => req'[s] = req[s]
  BY <1>1, <1>5 DEF BlobInv, BlobTypes, ReqType
<1>8. \A s \in Req : Creating(req[s]) => req[s].key # k
  BY <1>1 DEF BlobInv, Requests, RequestOK, Creating
<1>9. ASSUME NEW s \in Req
      PROVE  RequestOK(req[s])'
  <2>1. CASE s = r
    BY <1>1, <1>3, <1>5, <1>6, <1>7, <2>1 DEF RequestOK
  <2>2. CASE s # r
    BY <1>3, <1>7, <2>2, RequestStays
  <2> QED
    BY <2>1, <2>2
<1>10. \A s, t \in Req : (Creating(req[s]) /\ Creating(req[t])
                            /\ req[s].key = req[t].key)' => s = t
  <2>1. \A s, t \in Req : Creating(req[s]) /\ Creating(req[t]) /\ req[s].key = req[t].key
                           => s = t
    BY DEF BlobInv, Requests
  <2>2. \A s \in Req : s # r => (Creating(req'[s]) <=> Creating(req[s]))
    BY <1>7
  <2> QED
    BY <1>5, <1>7, <1>8, <2>1, <2>2 DEF Creating
<1>11. ReqKept
  BY <1>7, <1>9, <1>10 DEF ReqKept, Requests
<1> QED
  BY <1>1, <1>3, <1>4, <1>11, KeptTogether

\* The transaction of reserve admits the upload.
LEMMA AdmittedKeeps ==
    ASSUME BlobInv, NEW r \in Req, NEW R, Like(R),
           req[r].pc # "idle", req[r].op = "create", req[r].pc # "undo", Ever,
           Fits(R, req[r].key), Put(R, req[r].key, "active", 0), scan' = scan \/ Bump,
           \/ Reply(r) /\ tokens' = tokens \cup {req[r].key}
           \/ Step(r, "undo") /\ tokens' = tokens,
           clean' = clean,
           UNCHANGED <<parts, ledger, total, fresh, scanLock, r2, acked, hours>>
    PROVE  BlobInv'
<1> DEFINE k == req[r].key
<1>1. /\ k \in Key /\ k \notin tokens /\ rows[k] = None /\ ledger[k] = 0
      /\ mpu[k] # "none" /\ req[r] \in Request
  BY OnFacts
<1>2. UNCHANGED <<mpu, stored, late, bucket, aged>> /\ Ever' = Ever
  BY DEF r2, Ever
<1>3. Put(R, k, "active", 0) /\ Fits(R, k) /\ tokens' \in {tokens, tokens \cup {k}}
  OBVIOUS
<1>4. \A s \in Req : s # r /\ Creating(req[s]) => req[s].key # k
  BY <1>1, RequestFacts DEF BlobInv, Requests, Creating
<1>5. /\ req' \in ReqType
      /\ req'[r] = Idle \/ (req'[r] = [req[r] EXCEPT !.pc = "undo"] /\ tokens' = tokens)
      /\ \A s \in Req : s # r => req'[s] = req[s]
  <2>1. [req[r] EXCEPT !.pc = "undo"] \in Request
    <3>1. "undo" \in Place[req[r].op]
      BY DEF Place
    <3> QED
      BY <1>1, <3>1, RequestFacts
  <2> QED
    BY <2>1 DEF Reply, Step, BlobInv, BlobTypes, ReqType
<1> HIDE DEF k
<1>6. /\ Uploads' /\ Scans' /\ Accounts' /\ Onward /\ rows' \in RowsType
      /\ rows'[k] # None
      /\ \A j \in Key : j # k /\ rows[j] = None => rows'[j] = None
  BY <1>1, <1>2, <1>3, Admitted
<1>7. StoreTypes'
  <2>1. scan' \in Scan \cup {None} /\ (scan' # None => scanLock')
    BY ScanStays DEF BlobInv, BlobTypes, StoreTypes
  <2>2. ASSUME NEW j \in Key, rows'[j] = None
        PROVE  j \notin parts'
    <3>1. \A i \in Key : i # k => (rows'[i] = R[i])
      BY <1>3 DEF Put, Like, RowsType
    <3>2. rows[j] = None
      BY <1>6, <2>2, <3>1 DEF Like
    <3> QED
      BY <3>2 DEF BlobInv, BlobTypes, StoreTypes
  <2>3. tokens \subseteq tokens' /\ tokens' \subseteq Key
    BY <1>1, <1>3 DEF BlobInv, BlobTypes, StoreTypes
  <2> QED
    BY <1>2, <1>6, <2>1, <2>2, <2>3 DEF BlobInv, BlobTypes, StoreTypes
<1>8. ASSUME NEW s \in Req
      PROVE  RequestOK(req[s])'
  <2>1. CASE s # r /\ req[s] # Idle
    <3>1. /\ req'[s] = req[s] /\ req[s] \in Request /\ RequestOK(req[s])
          /\ req[s].key \in Key
      BY <1>5, <2>1, RequestFacts DEF BlobInv, Requests, BlobTypes, ReqType
    <3>2. req[s].op = "create" => req[s].key # k
      BY <1>4, <2>1 DEF Creating
    <3>3. req[s].op = "create" <=> req[s].key \notin tokens'
      BY <1>1, <1>3, <2>1, <3>1, <3>2 DEF RequestOK
    <3>4. req[s].op = "create" /\ req[s].pc # "undo"
            => rows'[req[s].key] = None /\ ledger'[req[s].key] = 0
      BY <1>6, <2>1, <3>1, <3>2 DEF RequestOK
    <3> QED
      BY <1>6, <2>1, <3>1, <3>3, <3>4 DEF RequestOK, Onward
  <2>2. CASE s # r /\ req[s] = Idle
    BY <1>5, <2>2 DEF RequestOK
  <2>3. CASE s = r
    <3>1. CASE req'[r] = Idle
      BY <2>3, <3>1 DEF RequestOK
    <3>2. CASE req'[r] = [req[r] EXCEPT !.pc = "undo"] /\ tokens' = tokens
      <4>1. req'[r].op = "create" /\ req'[r].key = k /\ req'[r].pc = "undo"
        BY <1>1, <3>2 DEF Request, k
      <4> QED
        BY <1>1, <1>2, <2>3, <3>2, <4>1 DEF RequestOK
    <3> QED
      BY <1>5, <3>1, <3>2
  <2> QED
    BY <2>1, <2>2, <2>3
<1>9. \A s, t \in Req : (Creating(req[s]) /\ Creating(req[t])
                           /\ req[s].key = req[t].key)' => s = t
  <2>1. \A s, t \in Req : Creating(req[s]) /\ Creating(req[t]) /\ req[s].key = req[t].key
                           => s = t
    BY DEF BlobInv, Requests
  <2>2. Creating(req'[r]) => req'[r].key = k
    BY <1>1, <1>5 DEF Creating, Request, k
  <2>3. \A s \in Req : s # r => (Creating(req'[s]) <=> Creating(req[s]))
    BY <1>5
  <2> QED
    BY <1>4, <1>5, <2>1, <2>2, <2>3 DEF Creating
<1>10. ReqKept
  BY <1>5, <1>8, <1>9 DEF ReqKept, Requests
<1>11. PassKept
  BY <1>6, PassesStay
<1> QED
  BY <1>6, <1>7, <1>10, <1>11, Together

\* A request that is told to wait, or that takes its upload back.
LEMMA ReserveMoves ==
    ASSUME BlobInv, Kept, NEW r \in Req, req[r].pc \in {"reserve", "wait"},
           req[r].op = "create", Step(r, "wait") \/ Step(r, "undo")
    PROVE  ReqKept
<1>1. req[r] \in Request /\ "wait" \in Place[req[r].op] /\ "undo" \in Place[req[r].op]
  BY OnFacts DEF Place
<1>2. CASE Step(r, "wait")
  BY <1>1, <1>2, Stepped
<1>3. CASE Step(r, "undo")
  BY <1>1, <1>3, Stepped
<1> QED
  BY <1>2, <1>3

LEMMA AdmitKeeps ==
    ASSUME BlobInv, NEW r \in Req, NEW R, Like(R), fresh, Admit(r, R),
           req[r].pc \in {"reserve", "wait"}, req[r].op = "create",
           scan' = scan \/ Bump, clean' = clean,
           UNCHANGED <<parts, ledger, total, fresh, scanLock, r2, acked, hours>>
    PROVE  BlobInv'
<1> DEFINE k == req[r].key
<1>1. CASE ~Unsettled(R) /\ Fits(R, k)
  <2>1. Put(R, k, "active", 0) /\ tokens' = tokens \cup {k} /\ Reply(r) /\ Ever
    BY <1>1 DEF Admit, Ever
  <2> QED
    BY <1>1, <2>1, AdmittedKeeps
<1>2. CASE ~(~Unsettled(R) /\ Fits(R, k))
  <2>1. rows' = R /\ Step(r, "undo") /\ UNCHANGED tokens
    BY <1>2 DEF Admit
  <2>2. Kept /\ StoreTypes'
    BY <2>1, LikeStays, RowStep DEF client
  <2> QED
    BY <2>1, <2>2, ReserveMoves, KeptTogether
<1> QED
  BY <1>1, <1>2

LEMMA ReserveKeeps ==
    ASSUME BlobInv, NEW r \in Req, Reserve(r)
    PROVE  BlobInv'
<1>1. /\ req[r].op = "create" /\ req[r].pc = "reserve"
      /\ UNCHANGED <<parts, ledger, total, fresh, r2, acked, hours>>
      /\ Like(Marked)
  BY MarkedLike DEF Reserve, On, counts
<1>2. CASE fresh /\ Admit(r, Marked) /\ MarkExpired /\ UNCHANGED <<scanLock, clean>>
  BY <1>1, <1>2, MarkExpiredScan, AdmitKeeps
<1>3. CASE /\ rows' = Marked /\ MarkExpired /\ Step(r, "wait")
           /\ UNCHANGED <<scanLock, clean, tokens>>
  <2>1. Kept /\ StoreTypes'
    BY <1>1, <1>3, LikeStays, MarkExpiredScan, RowStep DEF client
  <2> QED
    BY <1>1, <1>3, <2>1, ReserveMoves, KeptTogether
<1>4. CASE /\ rows' = Marked /\ StartScan /\ Step(r, "wait")
           /\ UNCHANGED <<clean, tokens>>
  <2>1. UNCHANGED <<mpu, stored, late, bucket, aged>> /\ Ever' = Ever
    BY <1>1 DEF r2, Ever
  <2>2. RowsStay
    BY <1>1, <1>4, LikeStays
  <2>3. Kept
    BY <1>1, <1>4, <2>1, <2>2, Renewed
  <2>4. scan' \in Scan /\ scanLock' = TRUE
    BY <1>4 DEF StartScan, Scan
  <2>5. \A k \in Key : rows'[k] = None => k \notin parts'
    BY <1>1, <2>2 DEF RowsStay, BlobInv, BlobTypes, StoreTypes
  <2>6. StoreTypes'
    BY <1>1, <1>4, <2>1, <2>2, <2>4, <2>5 DEF RowsStay, BlobInv, BlobTypes, StoreTypes
  <2> QED
    BY <1>1, <1>4, <2>3, <2>6, ReserveMoves, KeptTogether
<1>5. CASE SweepAside /\ Step(r, "undo") /\ UNCHANGED <<scanLock, tokens>>
  <2>1. RowsStay /\ (scan' = scan \/ Bump) /\ (clean' = clean \/ PassKept)
    BY <1>1, <1>5, SweptAside DEF r2
  <2>2. Kept /\ StoreTypes'
    BY <1>1, <1>5, <2>1, RowStep DEF client
  <2> QED
    BY <1>1, <1>5, <2>1, <2>2, ReserveMoves, KeptTogether
<1> QED
  BY <1>2, <1>3, <1>4, <1>5 DEF Reserve

LEMMA ReconciledKeeps ==
    ASSUME BlobInv, NEW r \in Req, Reconciled(r)
    PROVE  BlobInv'
<1>1. /\ req[r].op = "create" /\ req[r].pc = "wait"
      /\ UNCHANGED <<parts, ledger, total, fresh, scanLock, r2, acked, hours>>
      /\ Like(rows)
  BY MarkedLike DEF Reconciled, On, counts
<1>2. CASE fresh /\ Admit(r, rows) /\ UNCHANGED <<clean, scan>>
  BY <1>1, <1>2, AdmitKeeps
<1>3. CASE SweepAside /\ Step(r, "undo") /\ UNCHANGED tokens
  <2>1. RowsStay /\ (scan' = scan \/ Bump) /\ (clean' = clean \/ PassKept)
    BY <1>1, <1>3, SweptAside DEF r2
  <2>2. Kept /\ StoreTypes'
    BY <1>1, <1>3, <2>1, RowStep DEF client
  <2> QED
    BY <1>1, <1>3, <2>1, <2>2, ReserveMoves, KeptTogether
<1> QED
  BY <1>2, <1>3 DEF Reconciled

LEMMA ReserveLostKeeps ==
    ASSUME BlobInv, NEW r \in Req, ReserveLost(r)
    PROVE  BlobInv'
<1>1. /\ req[r].op = "create" /\ req[r].pc = "reserve" /\ Ever
      /\ UNCHANGED <<parts, ledger, total, fresh, scanLock, clean, r2, tokens, acked, hours>>
      /\ Like(Marked) /\ Fits(Marked, req[r].key) /\ Put(Marked, req[r].key, "active", 0)
      /\ MarkExpired /\ Step(r, "undo")
  BY MarkedLike DEF ReserveLost, On, Fault, client, Ever
<1> QED
  BY <1>1, MarkExpiredScan, AdmittedKeeps

LEMMA UndoKeeps ==
    ASSUME BlobInv, NEW r \in Req, Undo(r)
    PROVE  BlobInv'
<1> DEFINE k == req[r].key
<1>1. /\ req[r].pc = "undo" /\ mpu' = [mpu EXCEPT ![k] = "done"] /\ Reply(r)
      /\ UNCHANGED <<rows, parts, ledger, total, fresh, scan, scanLock, clean, stored,
                     late, bucket, aged, tokens, acked, hours>>
  BY DEF Undo, On, table, recon, client, counts
<1>2. k \in Key /\ Ever' = Ever
  BY <1>1, OnFacts DEF Ever
<1> HIDE DEF k
<1>3. Kept /\ mpu' \in [Key -> {"none", "open", "done"}]
  BY <1>1, <1>2, Moved
<1>4. StoreTypes'
  BY <1>1, <1>3 DEF BlobInv, BlobTypes, StoreTypes
<1> QED
  BY <1>1, <1>3, <1>4, Replied, KeptTogether

LEMMA PartKeeps ==
    ASSUME BlobInv, NEW r \in Req, NEW k \in Key, Part(r, k)
    PROVE  BlobInv'
<1>1. /\ k \in tokens /\ Like(Marked)
      /\ UNCHANGED <<ledger, total, fresh, scanLock, r2, client, hours>>
      /\ UNCHANGED <<mpu, stored, late, bucket, aged, tokens, acked>>
  BY MarkedLike DEF Part, counts, r2, client
<1>2. CASE /\ Marked[k] # None /\ Put(Marked, k, "active", Marked[k].op) /\ MarkExpired
           /\ parts' = parts \cup {k} /\ req' = [req EXCEPT ![r] = Task("part", k, "upload", 0)]
           /\ UNCHANGED clean
  <2>1. Marked[k].op \in Nat /\ "active" \in RowState
    BY <1>1, <1>2, MarkedLike DEF Like, RowsType, Row, RowState
  <2>2. RowsStay
    BY <1>1, <1>2, <2>1, PutStays
  <2>3. (scan' = scan \/ Bump) /\ Ever' = Ever
    BY <1>1, <1>2, MarkExpiredScan DEF Ever
  <2>4. Kept
    BY <1>1, <2>2, <2>3, Renewed
  <2>5. scan' \in Scan \cup {None} /\ (scan' # None => scanLock')
    BY <1>1, <2>3, ScanStays DEF BlobInv, BlobTypes, StoreTypes
  <2>6. rows[k] # None
    BY <1>1, <1>2 DEF Like
  <2>7. \A j \in Key : rows'[j] = None => j \notin parts'
    BY <1>2, <2>2, <2>6 DEF RowsStay, BlobInv, BlobTypes, StoreTypes
  <2>8. StoreTypes'
    BY <1>1, <1>2, <2>2, <2>5, <2>7 DEF RowsStay, BlobInv, BlobTypes, StoreTypes
  <2>9. ReqKept
    BY <1>1, <1>2, <2>4, Begun DEF Place
  <2> QED
    BY <1>2, <2>4, <2>8, <2>9, KeptTogether
<1>3. CASE SweepAside /\ UNCHANGED <<parts, req>>
  <2>1. RowsStay /\ (scan' = scan \/ Bump) /\ (clean' = clean \/ PassKept)
    BY <1>1, <1>3, SweptAside
  <2>2. Kept /\ StoreTypes'
    BY <1>1, <1>3, <2>1, RowStep
  <2> QED
    BY <1>3, <2>1, <2>2, SameReq, KeptTogether
<1> QED
  BY <1>2, <1>3 DEF Part

LEMMA UploadKeeps ==
    ASSUME BlobInv, NEW r \in Req, Upload(r)
    PROVE  BlobInv'
<1> DEFINE k == req[r].key
<1>1. /\ req[r].pc = "upload" /\ req[r].op = "part" /\ stored' = stored \cup {k} /\ Reply(r)
      /\ UNCHANGED <<rows, parts, ledger, total, fresh, scan, scanLock, clean, mpu,
                     late, bucket, aged, tokens, acked, hours>>
  BY DEF Upload, On, table, recon, client, counts
<1>2. k \in tokens /\ Ever' = Ever /\ RowsStay
  BY <1>1, OnFacts, MarkedLike, LikeStays DEF Ever
<1> HIDE DEF k
<1>3. Kept
  BY <1>1, <1>2, Renewed
<1>4. StoreTypes'
  BY <1>1, <1>2 DEF BlobInv, BlobTypes, StoreTypes
<1> QED
  BY <1>1, <1>3, <1>4, Replied, KeptTogether

LEMMA UploadFailsKeeps ==
    ASSUME BlobInv, NEW r \in Req, UploadFails(r)
    PROVE  BlobInv'
<1>1. /\ req[r].pc = "upload" /\ req[r].op = "part" /\ Step(r, "claim")
      /\ UNCHANGED <<table, recon, clean, r2, client, hours>>
  BY DEF UploadFails, On, Fault, counts
<1>2. req[r] \in Request /\ "claim" \in Place[req[r].op]
  BY <1>1, OnFacts DEF Place
<1>3. Kept
  BY <1>1, QuietStep
<1> QED
  BY <1>1, <1>2, <1>3, Stepped, QuietRequest

\* A row that is rewritten, with its deadline.
LEMMA PutStep ==
    ASSUME BlobInv, NEW R, Like(R), NEW k \in Key, R[k] # None, NEW s \in RowState,
           NEW n \in Nat, s \in {"completing", "completion_cleanup"} => n # 0,
           Put(R, k, s, n), scan' = scan \/ Bump,
           UNCHANGED <<parts, ledger, total, fresh, scanLock, r2, client, hours>>
    PROVE  Kept /\ StoreTypes'
BY PutStays, RowStep

LEMMA OpInNat ==
    ASSUME BlobInv, NEW R, Like(R), NEW k \in Key, R[k] # None
    PROVE  R[k].op \in Nat
BY DEF Like, RowsType, Row

LEMMA ClaimAbortKeeps ==
    ASSUME BlobInv, NEW r \in Req, NEW k \in tokens,
           ClaimAbort(r, k, req' = [req EXCEPT ![r] = Task("abort", k, "abort", 0)])
    PROVE  BlobInv'
<1>1. /\ UNCHANGED <<parts, ledger, total, fresh, scanLock, clean, r2, client, hours>>
      /\ Like(Marked) /\ Like(rows) /\ k \in Key
  BY MarkedLike DEF ClaimAbort, counts, BlobInv, BlobTypes, StoreTypes
<1>2. CASE /\ Marked[k] # None /\ Put(Marked, k, "abort_pending", Marked[k].op + 1) /\ Bump
           /\ req' = [req EXCEPT ![r] = Task("abort", k, "abort", 0)]
  <2>1. "abort_pending" \in RowState /\ Marked[k].op + 1 \in Nat
    BY <1>1, <1>2, OpInNat DEF RowState
  <2>2. Kept /\ StoreTypes'
    BY <1>1, <1>2, <2>1, PutStep
  <2>3. ReqKept
    BY <1>2, <2>2, Begun DEF Place
  <2> QED
    BY <1>1, <2>2, <2>3, KeptTogether
<1>3. CASE rows' = Marked /\ MarkExpired /\ Reply(r)
  <2>1. Kept /\ StoreTypes'
    BY <1>1, <1>3, LikeStays, MarkExpiredScan, RowStep
  <2> QED
    BY <1>1, <1>3, <2>1, Replied, KeptTogether
<1> QED
  BY <1>2, <1>3 DEF ClaimAbort

LEMMA PartAbortKeeps ==
    ASSUME BlobInv, NEW r \in Req, PartAbort(r)
    PROVE  BlobInv'
<1>1. req[r].pc = "claim" /\ req[r].op = "part"
  BY DEF PartAbort, On
<1>2. req[r].key \in tokens
  BY <1>1, OnFacts
<1> QED
  BY <1>2, ClaimAbortKeeps DEF PartAbort

LEMMA AbortUploadKeeps ==
    ASSUME BlobInv, NEW r \in Req, NEW k \in Key, AbortUpload(r, k)
    PROVE  BlobInv'
BY ClaimAbortKeeps DEF AbortUpload

LEMMA R2AbortKeeps ==
    ASSUME BlobInv, NEW r \in Req, R2Abort(r)
    PROVE  BlobInv'
<1> DEFINE k == req[r].key
<1>1. /\ req[r].pc = "abort" /\ req[r].op = "abort"
      /\ UNCHANGED <<rows, parts, ledger, total, fresh, scan, scanLock, clean, stored,
                     late, bucket, aged, tokens, acked, hours>>
  BY DEF R2Abort, On, table, recon, client, counts
<1>2. /\ k \in Key /\ Ever' = Ever /\ req[r] \in Request /\ k = req[r].key
      /\ "release" \in Place[req[r].op] /\ "defer" \in Place[req[r].op]
  BY <1>1, OnFacts DEF Ever, Place
<1>3. CASE mpu[k] = "open"
  <2>1. mpu' = [mpu EXCEPT ![k] = "done"] /\ Step(r, "release") /\ k \notin bucket
    BY <1>2, <1>3 DEF R2Abort, BlobInv, Uploads, UploadOK
  <2> HIDE DEF k
  <2>2. Kept /\ mpu' \in [Key -> {"none", "open", "done"}] /\ mpu'[k] = "done"
    BY <1>1, <1>2, <2>1, Moved
  <2>3. StoreTypes'
    BY <1>1, <2>2 DEF BlobInv, BlobTypes, StoreTypes
  <2>4. Ended(req[r].key)'
    <3>1. req'[r].key = k
      BY <1>2, <2>1 DEF Step, Request, BlobInv, BlobTypes, ReqType
    <3> QED
      BY <1>1, <2>1, <2>2, <3>1 DEF Ended
  <2>5. ReqKept
    BY <1>1, <1>2, <2>1, <2>2, <2>4, Stepped
  <2> QED
    BY <1>1, <2>2, <2>3, <2>5, KeptTogether
<1>4. CASE mpu[k] # "open"
  <2>1. mpu' = mpu /\ Step(r, "defer")
    BY <1>4 DEF R2Abort
  <2>2. UNCHANGED <<table, recon, clean, r2, client, hours>>
    BY <1>1, <2>1 DEF table, recon, r2, client
  <2>3. Kept
    BY <2>2, QuietStep
  <2> QED
    BY <1>1, <1>2, <2>1, <2>2, <2>3, Stepped, QuietRequest
<1> QED
  BY <1>3, <1>4

\* A call fails and the request goes on to its next.
LEMMA FailedKeeps ==
    ASSUME BlobInv, NEW r \in Req,
           R2AbortFails(r) \/ CompleteHeadFails(r) \/ R2DeleteFails(r)
    PROVE  BlobInv'
<1>1. UNCHANGED <<table, recon, clean, r2, client, hours>>
  BY DEF R2AbortFails, CompleteHeadFails, R2DeleteFails, Fault
<1>2. PICK pc \in {"defer", "deferclean"} :
         Step(r, pc) /\ pc \in Place[req[r].op] /\ req[r].pc # "idle" /\ req[r].op # "create"
  <2>1. CASE R2AbortFails(r)
    BY <2>1 DEF R2AbortFails, On, Place
  <2>2. CASE CompleteHeadFails(r) \/ R2DeleteFails(r)
    BY <2>2 DEF CompleteHeadFails, R2DeleteFails, On, Place
  <2> QED
    BY <2>1, <2>2
<1>3. Kept /\ req[r] \in Request
  BY <1>1, <1>2, QuietStep, OnFacts
<1>4. ReqKept
  BY <1>2, <1>3, Stepped
<1> QED
  BY <1>1, <1>4, QuietRequest

LEMMA ReleaseKeeps ==
    ASSUME BlobInv, NEW r \in Req, Release(r)
    PROVE  BlobInv'
<1>1. /\ req[r].pc = "release" /\ Reply(r)
      /\ UNCHANGED <<ledger, total, fresh, scanLock, clean, r2, client, hours>>
  BY DEF Release, counts
<1>2. req[r].key \in Key /\ Ended(req[r].key)
  BY <1>1, OnFacts
<1>3. Kept /\ StoreTypes'
  <2>1. CASE Drop(req[r].key)
    BY <1>1, <1>2, <2>1, DropStep
  <2>2. CASE UNCHANGED <<rows, parts, scan>>
    BY <1>1, <2>2, QuietStep DEF table, recon
  <2> QED
    BY <2>1, <2>2 DEF Release
<1> QED
  BY <1>1, <1>3, Replied, KeptTogether

\* A row's deadline is moved, or comes.
LEMMA DueStays ==
    ASSUME BlobInv, NEW k \in Key, rows[k] # None, NEW b \in BOOLEAN,
           rows' = [rows EXCEPT ![k].due = b]
    PROVE  RowsStay
<1>1. rows \in RowsType /\ rows[k] \in Row /\ None \notin Row
  BY BlobFacts DEF BlobInv, BlobTypes, StoreTypes
<1>2. /\ [rows[k] EXCEPT !.due = b] \in Row
      /\ [rows[k] EXCEPT !.due = b].state = rows[k].state
      /\ [rows[k] EXCEPT !.due = b].op = rows[k].op
  BY <1>1 DEF Row
<1>3. /\ rows' \in RowsType /\ rows'[k] = [rows[k] EXCEPT !.due = b]
      /\ \A j \in Key : j # k => rows'[j] = rows[j]
  BY <1>1, <1>2 DEF RowsType
<1>4. Like(rows)
  BY MarkedLike
<1>5. \A j \in Key : rows'[j] = None <=> rows[j] = None
  BY <1>1, <1>2, <1>3
<1>6. \A j \in Key : rows'[j] # None => /\ rows'[j].state = rows[j].state
                                       /\ rows'[j].op = rows[j].op
  BY <1>2, <1>3
<1> QED
  BY <1>3, <1>4, <1>5, <1>6 DEF RowsStay, Like

LEMMA DeferAbortKeeps ==
    ASSUME BlobInv, NEW r \in Req, DeferAbort(r)
    PROVE  BlobInv'
<1>1. /\ req[r].pc = "defer" /\ Reply(r)
      /\ UNCHANGED <<parts, ledger, total, fresh, scan, scanLock, clean, r2, client, hours>>
  BY DEF DeferAbort, On, recon, counts
<1>2. req[r].key \in Key
  BY <1>1, OnFacts
<1>3. RowsStay
  <2>1. CASE In(req[r].key, "abort_pending")
    <3>1. /\ rows' = [rows EXCEPT ![req[r].key].due = FALSE]
          /\ rows[req[r].key] # None
      BY <2>1 DEF DeferAbort, In
    <3> QED
      BY <1>2, <3>1, DueStays
  <2>2. CASE rows' = rows
    BY <2>2, MarkedLike, LikeStays
  <2> QED
    BY <2>1, <2>2 DEF DeferAbort
<1>4. Kept /\ StoreTypes'
  BY <1>1, <1>3, RowStep
<1> QED
  BY <1>1, <1>4, Replied, KeptTogether

LEMMA CompleteKeeps ==
    ASSUME BlobInv, NEW r \in Req, NEW k \in Key, Complete(r, k)
    PROVE  BlobInv'
<1>1. /\ UNCHANGED <<parts, ledger, total, fresh, scanLock, clean, r2, client, hours>>
      /\ Like(Marked) /\ k \in tokens
  BY MarkedLike DEF Complete, counts, BlobInv, BlobTypes, StoreTypes
<1>2. CASE /\ Marked[k] # None /\ Put(Marked, k, "completing", Marked[k].op + 1) /\ Bump
           /\ req' = [req EXCEPT ![r] = Task("complete", k, "r2", Marked[k].op + 1)]
  <2>1. /\ "completing" \in RowState /\ Marked[k].op + 1 \in Nat
        /\ Marked[k].op + 1 # 0
    BY <1>1, <1>2, OpInNat DEF RowState
  <2>2. Kept /\ StoreTypes'
    BY <1>1, <1>2, <2>1, PutStep
  <2>3. ReqKept
    BY <1>1, <1>2, <2>1, <2>2, Begun DEF Place
  <2> QED
    BY <1>1, <2>2, <2>3, KeptTogether
<1>3. CASE rows' = Marked /\ MarkExpired /\ UNCHANGED req
  <2>1. Kept /\ StoreTypes'
    BY <1>1, <1>3, LikeStays, MarkExpiredScan, RowStep
  <2> QED
    BY <1>1, <1>3, <2>1, SameReq, KeptTogether
<1> QED
  BY <1>2, <1>3 DEF Complete

\* What R2 does with a completion, whoever hears of it.
LEMMA ApplyStep ==
    ASSUME BlobInv, NEW k \in tokens, Apply(k), late' \subseteq tokens,
           UNCHANGED <<table, recon, stored, aged, client, hours>>
    PROVE  Kept /\ StoreTypes' /\ (mpu[k] = "open" => mpu'[k] = "done")
<1>1. UNCHANGED <<rows, parts, ledger, total, fresh, scan, scanLock, tokens, acked>>
      /\ Ever' = Ever
  BY DEF table, recon, client, Ever
<1>2. k \in Key
  BY DEF BlobInv, BlobTypes, StoreTypes
<1>3. /\ Kept /\ bucket' \subseteq Object /\ mpu' \in [Key -> {"none", "open", "done"}]
      /\ mpu[k] = "open" => mpu'[k] = "done"
  BY <1>1, <1>2, Applied
<1>4. StoreTypes'
  BY <1>1, <1>3 DEF BlobInv, BlobTypes, StoreTypes
<1> QED
  BY <1>3, <1>4

LEMMA R2CompleteKeeps ==
    ASSUME BlobInv, NEW r \in Req, R2Complete(r)
    PROVE  BlobInv'
<1> DEFINE k == req[r].key
           pc == IF mpu[k] = "open" THEN "commit" ELSE "head"
<1>1. /\ req[r].pc = "r2" /\ req[r].op = "complete" /\ Apply(k) /\ Step(r, pc)
      /\ UNCHANGED <<table, recon, clean, stored, late, aged, client, hours>>
  BY DEF R2Complete, On, counts
<1>2. /\ k \in tokens /\ req[r] \in Request /\ late' \subseteq tokens
      /\ "commit" \in Place[req[r].op] /\ "head" \in Place[req[r].op]
  BY <1>1, OnFacts DEF Place, BlobInv, BlobTypes, StoreTypes
<1>3. Kept /\ StoreTypes' /\ (mpu[k] = "open" => mpu'[k] = "done")
  BY <1>1, <1>2, ApplyStep
<1>4. ReqKept
  <2>1. CASE mpu[k] = "open"
    BY <1>1, <1>2, <1>3, <2>1, Stepped
  <2>2. CASE mpu[k] # "open"
    BY <1>1, <1>2, <1>3, <2>2, Stepped
  <2> QED
    BY <2>1, <2>2
<1> QED
  BY <1>1, <1>3, <1>4, KeptTogether

LEMMA R2CompleteFailsKeeps ==
    ASSUME BlobInv, NEW r \in Req, R2CompleteFails(r)
    PROVE  BlobInv'
<1> DEFINE k == req[r].key
<1>1. /\ req[r].pc = "r2" /\ req[r].op = "complete" /\ Step(r, "head")
      /\ UNCHANGED <<table, recon, clean, stored, aged, client, hours>>
      /\ late' = late \/ late' = late \cup {k}
  BY DEF R2CompleteFails, On, Fault
<1>2. /\ k \in tokens /\ req[r] \in Request /\ "head" \in Place[req[r].op]
  BY <1>1, OnFacts DEF Place
<1>3. late' \subseteq tokens
  BY <1>1, <1>2 DEF BlobInv, BlobTypes, StoreTypes
<1>4. Kept /\ StoreTypes'
  <2>1. CASE Apply(k)
    BY <1>1, <1>2, <1>3, <2>1, ApplyStep
  <2>2. CASE UNCHANGED <<bucket, mpu>>
    <3>1. UNCHANGED <<rows, parts, ledger, total, fresh, scan, scanLock, tokens, acked>>
          /\ Ever' = Ever /\ RowsStay
      BY <1>1, MarkedLike, LikeStays DEF table, recon, client, Ever
    <3>2. Kept
      BY <2>2, <3>1, Renewed
    <3>3. StoreTypes'
      BY <1>1, <1>3, <2>2, <3>1 DEF BlobInv, BlobTypes, StoreTypes
    <3> QED
      BY <3>2, <3>3
  <2> QED
    BY <2>1, <2>2 DEF R2CompleteFails
<1>5. ReqKept
  BY <1>1, <1>2, <1>4, Stepped
<1> QED
  BY <1>1, <1>4, <1>5, KeptTogether

LEMMA R2LateKeeps ==
    ASSUME BlobInv, NEW k \in Key, R2Late(k)
    PROVE  BlobInv'
<1>1. /\ k \in tokens /\ Apply(k) /\ late' \subseteq tokens
      /\ UNCHANGED <<table, recon, clean, stored, aged, req, client, hours>>
  BY DEF R2Late, counts, BlobInv, BlobTypes, StoreTypes
<1>2. Kept /\ StoreTypes'
  BY <1>1, ApplyStep
<1> QED
  BY <1>1, <1>2, SameReq, KeptTogether

LEMMA CompleteHeadKeeps ==
    ASSUME BlobInv, NEW r \in Req, CompleteHead(r)
    PROVE  BlobInv'
<1> DEFINE k == req[r].key
           h == k \in bucket
           q == [req[r] EXCEPT !.hit = h, !.pc = IF h THEN "commit" ELSE "restore"]
<1>1. /\ req[r].pc = "head" /\ req[r].op = "complete"
      /\ UNCHANGED <<table, recon, clean, r2, client, hours>>
  BY DEF CompleteHead, On, counts
<1>2. /\ req[r] \in Request /\ k \in Key /\ k \in tokens /\ mpu[k] # "none"
      /\ h => mpu[k] = "done"
  BY <1>1, OnFacts DEF BlobInv, Uploads, UploadOK
<1>3. /\ q \in Request /\ q.op = "complete" /\ q.key = k
      /\ q.pc = IF h THEN "commit" ELSE "restore"
  <2>1. h \in BOOLEAN
    OBVIOUS
  <2>2. "commit" \in UNION {Place[o] : o \in Call} /\ "restore" \in UNION {Place[o] : o \in Call}
    BY DEF Place, Call
  <2>3. /\ req[r] \in [op : Call, key : Key, pc : UNION {Place[o] : o \in Call},
                       n : Nat, hit : BOOLEAN]
        /\ "commit" \in Place["complete"] /\ "restore" \in Place["complete"]
    BY <1>2 DEF Request, Place
  <2> HIDE DEF h
  <2>4. CASE h
    BY <1>1, <2>1, <2>2, <2>3, <2>4 DEF Request
  <2>5. CASE ~h
    BY <1>1, <2>1, <2>2, <2>3, <2>5 DEF Request
  <2> QED
    BY <2>4, <2>5
<1>4. req' = [req EXCEPT ![r] = q]
  <2>1. req \in ReqType
    BY DEF BlobInv, BlobTypes
  <2> QED
    BY <2>1 DEF CompleteHead, ReqType
<1> HIDE DEF q, h
<1>5. Kept /\ UNCHANGED <<mpu, bucket, tokens>>
  BY <1>1, QuietStep DEF r2, client
<1>6. req'[r] = q
  BY <1>4 DEF BlobInv, BlobTypes, ReqType
<1>7. RequestOK(req[r])'
  BY <1>2, <1>3, <1>5, <1>6 DEF RequestOK
<1>8. ReqKept
  BY <1>3, <1>4, <1>5, <1>7, RequestMoves DEF Creating
<1> QED
  BY <1>1, <1>8, QuietRequest

\* What commit does to the tables.
LEMMA CommitEffectStep ==
    ASSUME BlobInv, NEW r \in Req, req[r].pc \in {"commit", "again"},
           CommitEffect(r) \/ UNCHANGED <<table, scan>>, acked' \subseteq Key,
           UNCHANGED <<fresh, scanLock, r2, tokens, hours>>
    PROVE  Kept /\ StoreTypes'
<1> DEFINE k == req[r].key
<1>1. k \in Key /\ mpu[k] = "done"
  BY OnFacts
<1>2. CASE rows[k] # None /\ Committed(r) /\ Promote(k)
  <2>1. Promotable(k) /\ In(k, "completing")
    BY <1>2 DEF Committed, Claimed
  <2> HIDE DEF k
  <2> QED
    BY <1>1, <1>2, <2>1, PromoteStep
<1>3. CASE UNCHANGED <<table, scan>>
  <2>1. UNCHANGED <<rows, parts, ledger, total, fresh, scan, scanLock, tokens, mpu, stored,
                    late, bucket, aged>> /\ Ever' = Ever /\ RowsStay
    BY <1>3, MarkedLike, LikeStays DEF table, r2, Ever
  <2>2. Kept
    BY <2>1, Renewed
  <2>3. StoreTypes'
    BY <2>1 DEF BlobInv, BlobTypes, StoreTypes
  <2> QED
    BY <2>2, <2>3
<1> QED
  BY <1>2, <1>3 DEF CommitEffect

LEMMA CommitKeeps ==
    ASSUME BlobInv, NEW r \in Req, Commit(r)
    PROVE  BlobInv'
<1>1. /\ req[r].pc \in {"commit", "again"} /\ CommitEffect(r)
      /\ UNCHANGED <<fresh, scanLock, clean, r2, tokens, hours>>
  BY DEF Commit, counts
<1>2. /\ req[r] \in Request /\ req[r].key \in Key /\ req[r].op = "complete"
      /\ mpu[req[r].key] = "done" /\ mpu' = mpu
      /\ "delete" \in Place[req[r].op] /\ "deferclean" \in Place[req[r].op]
  BY <1>1, OnFacts DEF Place, Call, r2
<1>3. acked' \subseteq Key
  BY <1>2 DEF Commit, BlobInv, BlobTypes, StoreTypes
<1>4. Kept /\ StoreTypes'
  BY <1>1, <1>3, CommitEffectStep
<1>5. ReqKept
  <2>1. CASE Reply(r)
    BY <1>4, <2>1, Replied
  <2>2. CASE Step(r, "deferclean")
    BY <1>2, <1>4, <2>2, Stepped
  <2>3. CASE Step(r, "delete")
    BY <1>2, <1>4, <2>3, Stepped
  <2> QED
    BY <2>1, <2>2, <2>3 DEF Commit
<1> QED
  BY <1>1, <1>4, <1>5, KeptTogether

LEMMA CommitLostKeeps ==
    ASSUME BlobInv, NEW r \in Req, CommitLost(r)
    PROVE  BlobInv'
<1>1. /\ req[r].pc \in {"commit", "again"} /\ (CommitEffect(r) \/ UNCHANGED <<table, scan>>)
      /\ UNCHANGED <<fresh, scanLock, clean, r2, tokens, acked, hours>>
      /\ Step(r, "again") \/ Reply(r)
  BY DEF CommitLost, Fault, client
<1>2. /\ req[r] \in Request /\ req[r].op = "complete" /\ mpu[req[r].key] = "done"
      /\ mpu' = mpu /\ "again" \in Place[req[r].op]
  BY <1>1, OnFacts DEF Place, Call, r2
<1>3. acked' \subseteq Key
  BY <1>1 DEF BlobInv, BlobTypes, StoreTypes
<1>4. Kept /\ StoreTypes'
  BY <1>1, <1>3, CommitEffectStep
<1>5. ReqKept
  <2>1. CASE Reply(r)
    BY <1>4, <2>1, Replied
  <2>2. CASE Step(r, "again")
    BY <1>2, <1>4, <2>2, Stepped
  <2> QED
    BY <1>1, <2>1, <2>2
<1> QED
  BY <1>1, <1>4, <1>5, KeptTogether

LEMMA R2DeleteKeeps ==
    ASSUME BlobInv, NEW r \in Req, R2Delete(r)
    PROVE  BlobInv'
<1> DEFINE k == req[r].key
<1>1. /\ req[r].pc = "delete" /\ req[r].op = "complete" /\ bucket' = bucket \ {k}
      /\ Step(r, "release")
      /\ UNCHANGED <<rows, parts, ledger, total, fresh, scan, scanLock, clean, mpu, stored,
                     late, aged, tokens, acked, hours>>
  BY DEF R2Delete, On, table, recon, client, counts
<1>2. /\ req[r] \in Request /\ mpu[k] = "done" /\ Ever' = Ever /\ bucket' \subseteq bucket
      /\ "release" \in Place[req[r].op]
  BY <1>1, OnFacts DEF Place, Ever
<1>3. Kept /\ bucket' \subseteq Object
  BY <1>1, <1>2, Shrunk
<1>4. StoreTypes'
  BY <1>1, <1>3 DEF BlobInv, BlobTypes, StoreTypes
<1>5. Ended(req[r].key)'
  <2>1. req'[r].key = k
    BY <1>1, <1>2 DEF Step, Request, BlobInv, BlobTypes, ReqType
  <2> HIDE DEF k
  <2> QED
    BY <1>1, <1>2, <2>1 DEF Ended
<1>6. ReqKept
  BY <1>1, <1>2, <1>3, <1>5, Stepped
<1> QED
  BY <1>1, <1>3, <1>4, <1>6, KeptTogether

\* A completion is called off, or left to the quota.
LEMMA SettledKeeps ==
    ASSUME BlobInv, NEW r \in Req, RestoreActive(r) \/ DeferCompletionCleanup(r)
    PROVE  BlobInv'
<1> DEFINE k == req[r].key
<1>1. /\ req[r].pc # "idle" /\ Reply(r)
      /\ UNCHANGED <<parts, ledger, total, fresh, scanLock, clean, r2, client, hours>>
  BY DEF RestoreActive, DeferCompletionCleanup, On, counts
<1>2. k \in Key /\ Like(rows)
  BY <1>1, OnFacts, MarkedLike
<1>3. Kept /\ StoreTypes'
  <2>1. ASSUME Claimed(r), NEW s \in {"active", "completion_cleanup"},
               Put(rows, k, s, rows[k].op), Bump
        PROVE  Kept /\ StoreTypes'
    <3>1. rows[k] # None /\ rows[k].state = "completing"
      BY <2>1 DEF Claimed, In
    <3>2. /\ s \in RowState /\ rows[k].op \in Nat /\ rows[k].op # 0
          /\ s \in {"completing", "completion_cleanup"} => rows[k].op # 0
      BY <1>2, <3>1, OpInNat DEF Like, RowState
    <3> HIDE DEF k
    <3> QED
      BY <1>1, <1>2, <2>1, <3>1, <3>2, PutStep
  <2>2. CASE UNCHANGED <<rows, scan>>
    BY <1>1, <2>2, QuietStep DEF table, recon
  <2> QED
    BY <2>1, <2>2 DEF RestoreActive, Restorable, DeferCompletionCleanup
<1> QED
  BY <1>1, <1>3, Replied, KeptTogether

-----------------------------------------------------------------------------
(* Time, deaths and the bucket's own rules.                                  *)

LEMMA ElapseKeeps ==
    ASSUME BlobInv, NEW k \in Key, Elapse(k)
    PROVE  BlobInv'
<1>1. /\ UNCHANGED <<parts, ledger, total, fresh, scan, scanLock, clean, r2, req, client, hours>>
      /\ rows[k] # None /\ rows' = [rows EXCEPT ![k].due = TRUE]
  BY DEF Elapse, recon, counts
<1>2. Kept /\ StoreTypes'
  BY <1>1, DueStays, RowStep
<1> QED
  BY <1>1, <1>2, SameReq, KeptTogether

LEMMA AgeKeeps ==
    ASSUME BlobInv, NEW k \in Key, Age(k)
    PROVE  BlobInv'
<1>1. /\ UNCHANGED <<rows, parts, ledger, total, fresh, scan, scanLock, clean, mpu, stored,
                     late, bucket, req, tokens, acked, hours>>
      /\ aged' \subseteq aged \cup {k}
  BY DEF Age, table, recon, client, counts
<1>2. Ever' = Ever /\ RowsStay /\ k \in Object
  BY <1>1, MarkedLike, LikeStays DEF Ever, Object
<1>3. Kept
  BY <1>1, <1>2, Renewed
<1>4. StoreTypes'
  BY <1>1, <1>2 DEF BlobInv, BlobTypes, StoreTypes
<1> QED
  BY <1>1, <1>3, <1>4, SameReq, KeptTogether

LEMMA LifecycleKeeps ==
    ASSUME BlobInv, NEW k \in Object, Lifecycle(k)
    PROVE  BlobInv'
<1>1. /\ UNCHANGED <<rows, parts, ledger, total, fresh, scan, scanLock, clean, mpu, stored,
                     late, aged, req, tokens, acked, hours>>
      /\ bucket' \subseteq bucket
  BY DEF Lifecycle, table, recon, client, counts
<1>2. Kept /\ bucket' \subseteq Object
  <2>1. Ever' = Ever
    BY <1>1 DEF Ever
  <2> QED
    BY <1>1, <2>1, Shrunk
<1>3. StoreTypes'
  BY <1>1, <1>2 DEF BlobInv, BlobTypes, StoreTypes
<1> QED
  BY <1>1, <1>2, <1>3, SameReq, KeptTogether

LEMMA WorkerDiesKeeps ==
    ASSUME BlobInv, NEW r \in Req, WorkerDies(r)
    PROVE  BlobInv'
<1>1. UNCHANGED <<table, recon, clean, r2, client, hours>> /\ Reply(r)
  BY DEF WorkerDies, Fault
<1> QED
  BY <1>1, QuietStep, Replied, QuietRequest

LEMMA RestartKeeps ==
    ASSUME BlobInv, Restart
    PROVE  BlobInv'
<1>1. /\ UNCHANGED <<table, fresh, scanLock, r2, client, hours>> /\ scan' = None
      /\ clean' = [p \in Pass |-> [k \in Key |-> Idle]]
      /\ req' = [r \in Req |-> IF On(r, "create", "wait")
                               THEN [req[r] EXCEPT !.pc = "undo"] ELSE req[r]]
  BY DEF Restart, Fault
<1>2. Kept /\ StoreTypes'
  <2>1. RowsStay /\ UNCHANGED <<parts, ledger, total>>
    BY <1>1, MarkedLike, LikeStays DEF table
  <2> QED
    BY <1>1, <2>1, RowStep
<1>3. PassKept
  BY <1>1 DEF PassKept, Passes, PassOK, CleanType
<1>4. ASSUME NEW r \in Req
      PROVE  /\ req'[r] \in Request \cup {Idle} /\ RequestOK(req[r])'
             /\ (Creating(req'[r]) => Creating(req[r]) /\ req'[r].key = req[r].key)
  <2>1. CASE On(r, "create", "wait")
    <3> DEFINE q == [req[r] EXCEPT !.pc = "undo"]
    <3>1. /\ req[r] \in Request /\ req[r].key \in Key /\ req[r].op = "create"
          /\ "undo" \in Place[req[r].op] /\ req[r].key \notin tokens
          /\ mpu[req[r].key] # "none" /\ req[r] # Idle
      BY <2>1, OnFacts, RequestFacts DEF On, Place
    <3>2. q \in Request /\ q.op = "create" /\ q.key = req[r].key /\ q.pc = "undo"
      BY <3>1, RequestFacts DEF Request
    <3>3. req'[r] = q
      BY <1>1, <2>1
    <3> HIDE DEF q
    <3>4. RequestOK(req[r])'
      BY <1>2, <3>1, <3>2, <3>3 DEF RequestOK, Kept, Onward
    <3> QED
      BY <3>1, <3>2, <3>3, <3>4 DEF Creating
  <2>2. CASE ~On(r, "create", "wait")
    <3>1. req'[r] = req[r]
      BY <1>1, <2>2
    <3> QED
      BY <1>2, <3>1, RequestStays DEF BlobInv, BlobTypes, ReqType
  <2> QED
    BY <2>1, <2>2
<1>5. ReqKept
  <2>1. req' \in ReqType
    BY <1>1, <1>4 DEF ReqType
  <2>2. \A r, s \in Req : (Creating(req[r]) /\ Creating(req[s])
                             /\ req[r].key = req[s].key)' => r = s
    <3>1. \A r, s \in Req : Creating(req'[r]) /\ Creating(req'[s]) /\ req'[r].key = req'[s].key
                              => r = s
      BY <1>4 DEF BlobInv, Requests
    <3> QED
      BY <3>1 DEF Creating
  <2> QED
    BY <1>4, <2>1, <2>2 DEF ReqKept, Requests
<1> QED
  BY <1>2, <1>3, <1>5, KeptTogether

-----------------------------------------------------------------------------
(* The theorems.                                                             *)

LEMMA BlobInitKeeps ==
    ASSUME BlobInit
    PROVE  BlobInv
<1>1. BlobTypes
  BY DEF BlobInit, BlobTypes, StoreTypes, CleanType, ReqType, RowsType, Object
<1>2. Uploads /\ Requests /\ Passes /\ Scans
  <2>1. bucket \cap Key = {}
    BY BlobAssumption DEF BlobInit
  <2>2. Uploads
    BY <2>1 DEF BlobInit, Uploads, UploadOK, In
  <2>3. Requests
    BY DEF BlobInit, Requests, RequestOK, Creating
  <2>4. Passes
    BY DEF BlobInit, Passes, PassOK
  <2>5. Scans
    BY DEF BlobInit, Scans
  <2> QED
    BY <2>2, <2>3, <2>4, <2>5
<1>3. Accounts
  <2>1. Reserved = {} /\ ~Ever /\ bucket \cup Reserved = Legacy
    BY DEF BlobInit, Reserved, Ever
  <2>2. \A a \in Actor : Held(a) = {}
    BY DEF BlobInit, Held
  <2>3. \A a \in Actor : Sum(Held(a)) <= ActorBudget
    <3>1. \A a \in Actor : Sum(Held(a)) = 0
      BY <2>2, SumEmpty
    <3> QED
      BY <3>1, BlobAssumption
  <2>4. Sum(bucket \cup Reserved) <= Sum(Legacy)
    <3>1. Sum(bucket \cup Reserved) = Sum(Legacy)
      BY <2>1
    <3>2. Sum(Legacy) \in Nat
      BY SumNat DEF Object
    <3> QED
      BY <3>1, <3>2
  <2> QED
    BY <2>1, <2>3, <2>4 DEF Accounts, BlobInit
<1> QED
  BY <1>1, <1>2, <1>3 DEF BlobInv

LEMMA BlobStutters ==
    ASSUME BlobInv, UNCHANGED blobVars
    PROVE  BlobInv'
BY QuietRequest, QuietStep, SameReq DEF blobVars, counts

LEMMA BlobNextKeeps ==
    ASSUME BlobInv, BlobNext
    PROVE  BlobInv'
<1>1. ASSUME NEW r \in Req, Work(r)
      PROVE  BlobInv'
  <2>1. CASE Reserve(r) \/ Reconciled(r) \/ Undo(r) \/ Upload(r) \/ PartAbort(r)
    BY <2>1, ReserveKeeps, ReconciledKeeps, UndoKeeps, UploadKeeps, PartAbortKeeps
  <2>2. CASE R2Abort(r) \/ Release(r) \/ DeferAbort(r)
    BY <2>2, R2AbortKeeps, ReleaseKeeps, DeferAbortKeeps
  <2>3. CASE R2Complete(r) \/ CompleteHead(r) \/ Commit(r) \/ R2Delete(r)
    BY <2>3, R2CompleteKeeps, CompleteHeadKeeps, CommitKeeps, R2DeleteKeeps
  <2>4. CASE RestoreActive(r) \/ DeferCompletionCleanup(r)
    BY <2>4, SettledKeeps
  <2> QED
    BY <1>1, <2>1, <2>2, <2>3, <2>4 DEF Work
<1>2. ASSUME NEW r \in Req, Mishap(r)
      PROVE  BlobInv'
  BY <1>2, ReserveLostKeeps, UploadFailsKeeps, FailedKeeps, R2CompleteFailsKeeps,
     CommitLostKeeps DEF Mishap
<1>3. ASSUME NEW r \in Req, NEW k \in Key,
             Create(r, k) \/ Part(r, k) \/ AbortUpload(r, k) \/ Complete(r, k)
      PROVE  BlobInv'
  BY <1>3, CreateKeeps, PartKeeps, AbortUploadKeeps, CompleteKeeps
<1>4. CASE ScanPage \/ EndScan \/ ScanFails \/ Stale \/ LockExpires
  BY <1>4, ScanPageKeeps, EndScanKeeps, ScanFailsKeeps, StaleKeeps
<1>5. CASE Alarm \/ Restart
  BY <1>5, AlarmKeeps, RestartKeeps
<1>6. ASSUME NEW p \in Pass, NEW k \in Key, Settle(p, k) \/ CleanupFails(p, k)
      PROVE  BlobInv'
  BY <1>6, SettleKeeps
<1>7. ASSUME NEW r \in Req, WorkerDies(r)
      PROVE  BlobInv'
  BY <1>7, WorkerDiesKeeps
<1>8. ASSUME NEW k \in Key, R2Late(k) \/ Elapse(k) \/ Age(k)
      PROVE  BlobInv'
  BY <1>8, R2LateKeeps, ElapseKeeps, AgeKeeps
<1>9. ASSUME NEW k \in Object, Lifecycle(k)
      PROVE  BlobInv'
  BY <1>9, LifecycleKeeps
<1> QED
  BY <1>1, <1>2, <1>3, <1>4, <1>5, <1>6, <1>7, <1>8, <1>9 DEF BlobNext

\* However uploads, completions, aborts, cleanups, reconciliations, failures
\* and deaths interleave, a scan and the passes know what they must, and the
\* books of the account are right (blob-quota.ts, the blob routes of index.ts).
THEOREM BlobInvariant == BlobSpec => []BlobInv
<1>1. BlobInit => BlobInv
  BY BlobInitKeeps
<1>2. BlobInv /\ [BlobNext]_blobVars => BlobInv'
  BY BlobNextKeeps, BlobStutters
<1> QED
  BY <1>1, <1>2, PTL DEF BlobSpec

\* The quota's tables, the passes and the bucket keep their types.
THEOREM BlobTypeCorrect == BlobSpec => []BlobTypeOK
<1>1. BlobInv => BlobTypeOK
  <2> SUFFICES ASSUME BlobInv PROVE BlobTypeOK
    OBVIOUS
  <2>1. stored \cup late \cup tokens \cup acked \subseteq Key /\ bucket \cup aged \subseteq Object
    BY DEF BlobInv, BlobTypes, StoreTypes
  <2> QED
    BY <2>1 DEF BlobTypeOK, BlobInv, BlobTypes, StoreTypes, CleanType, RowsType
<1> QED
  BY <1>1, BlobInvariant, PTL

\* What is in the bucket is charged from the first reconciliation on, and never
\* more than the account or the actor may have: if what was there before the
\* quota is within the account's limit, the bucket always is.
THEOREM BudgetIsKept == ASSUME Sum(Legacy) <= Budget PROVE BlobSpec => []BudgetKept
<1>1. BlobInv => BudgetKept
  <2> SUFFICES ASSUME BlobInv PROVE BudgetKept
    OBVIOUS
  <2>1. /\ bucket \subseteq Object /\ (bucket \cup Reserved) \subseteq Object
        /\ bucket \ Reserved \subseteq Object /\ Reserved \subseteq Object
    BY Sums
  <2>2. /\ Sum(bucket) \in Nat /\ Sum(bucket \cup Reserved) \in Nat /\ Sum(Reserved) \in Nat
        /\ Sum(bucket \ Reserved) \in Nat /\ Sum(Legacy) \in Nat /\ Budget \in Nat
    BY <2>1, Sums, SumNat, BlobAssumption
  <2>3. Sum(bucket) <= Budget
    <3>1. Sum(bucket) <= Sum(bucket \cup Reserved)
      BY <2>1, SumGrows
    <3> QED
      BY <2>2, <3>1 DEF BlobInv, Accounts
  <2>4. ASSUME NEW a \in Actor
        PROVE  Sum({k \in bucket \cap Key : Owner[k] = a}) <= ActorBudget
    <3> DEFINE B == {k \in bucket \cap Key : Owner[k] = a}
    <3>1. B \subseteq Held(a)
      BY DEF Held, BlobInv, Uploads, UploadOK
    <3>2. Held(a) \subseteq Object /\ Sum(Held(a)) \in Nat /\ B \subseteq Object
      BY <3>1, Sums
    <3> HIDE DEF B
    <3>3. Sum(B) <= Sum(Held(a)) /\ Sum(B) \in Nat
      BY <3>1, <3>2, SumGrows, SumNat
    <3>4. Sum(B) <= ActorBudget
      BY <3>2, <3>3, BlobAssumption DEF BlobInv, Accounts
    <3> QED
      BY <3>4 DEF B
  <2>5. Charged
    <3>1. Sum((bucket \ Reserved) \cup Reserved) <= Sum(bucket \ Reserved) + Sum(Reserved)
      BY <2>1, SumUnion
    <3>2. bucket \subseteq (bucket \ Reserved) \cup Reserved
          /\ ((bucket \ Reserved) \cup Reserved) \subseteq Object
      BY <2>1
    <3>3. /\ Sum(bucket) <= Sum((bucket \ Reserved) \cup Reserved)
          /\ Sum((bucket \ Reserved) \cup Reserved) \in Nat
      BY <3>2, SumGrows, SumNat
    <3>4. Ever => Sum(bucket \ Reserved) <= total \/ total > Budget
      BY DEF BlobInv, Accounts
    <3> QED
      BY <2>2, <2>3, <3>1, <3>3, <3>4, Sums DEF Charged, Ever
  <2> QED
    BY <2>3, <2>4, <2>5 DEF BudgetKept, WithinBudget
<1> QED
  BY <1>1, BlobInvariant, PTL
=============================================================================
