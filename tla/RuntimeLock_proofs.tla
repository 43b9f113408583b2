--------------------------- MODULE RuntimeLock_proofs ---------------------------
(* Machine-checked proofs about module RuntimeLock, for any set of tabs, any    *)
(* number of messengers and vaults, with and without the automatic prompt.      *)
EXTENDS RuntimeLock, TLAPS

(* The Web Lock's books: who owns it, and which tab believes it holds it.       *)
LockBooks ==
    \A t \in Tab :
        /\ owner = t <=> held[t] /\ release[t] # "freed"
        /\ release[t] # "no" => held[t]

(* A messenger is mounted exactly while the phase is "open", and it is the      *)
(* tab's latest.                                                                *)
MountBooks ==
    \A t \in Tab :
        /\ phase[t] = "open" <=> mounted[t] # 0
        /\ mounted[t] # 0 => mounted[t] = mounts[t]

(* While a messenger is mounted nothing else goes on in its tab's App.          *)
Settledness ==
    \A t \in Tab : phase[t] = "open" =>
        /\ held[t] /\ release[t] = "no"
        /\ \A f \in Slot : flow[t][f].at = "off"

\* Only one of a tab's flows runs.
OneRunning ==
    \A t \in Tab : ~(Running(flow[t]["user"]) /\ Running(flow[t]["auto"]))

(* Who writes is the latest messenger of its tab: mounted, or the one the       *)
(* pending release and the next unlock both wait for.                           *)
WritersKnown ==
    \A t \in Tab, m \in Mount : <<t, m>> \in writing =>
        /\ m = mounts[t] /\ m # 0
        /\ \/ m = mounted[t]
           \/ lockQ[t] = m /\ release[t] = "joins" /\ joined[t] = m

\* A flow that waits, waits for it; a flow that has waited finds none.
FlowsWait ==
    \A t \in Tab, m \in Mount, f \in Slot :
        <<t, m>> \in writing /\ Running(flow[t][f])
            => flow[t][f].at = "quiesce" /\ flow[t][f].join = m

\* A flow about to open the messenger has the lock, unless it is stale.
FlowsHold ==
    \A t \in Tab, f \in Slot :
        flow[t][f].at \in {"create", "timer"} /\ ~flow[t][f].stale
            => held[t] /\ release[t] = "no"

OneFlowBooks == Settledness /\ OneRunning /\ WritersKnown /\ FlowsWait /\ FlowsHold

(* The inductive invariant.                                                     *)
Inv == TypeOK /\ LockBooks /\ MountBooks /\ (doubled = {} => OneFlowBooks)

-----------------------------------------------------------------------------
(* A step after which every flow that still runs is the flow it was, or the     *)
(* stale one it was.                                                            *)
Calmer ==
    \A t \in Tab, f \in Slot :
        ~Running(flow'[t][f]) \/ flow'[t][f] \in {flow[t][f], Stale(flow[t][f])}

\* A step that concerns the flows, and neither lock nor messenger nor writers.
FlowsOnly == UNCHANGED <<held, release, joined, phase, lockQ, mounted, mounts, writing>>

\* Of all flows only the one in slot f of tab t changes.
OnlyFlow(t, f) == \A u \in Tab, g \in Slot : u # t \/ g # f => flow'[u][g] = flow[u][g]

-----------------------------------------------------------------------------
(* What the constructors of flows return, and what they keep of a flow.         *)
LEMMA FlowShapes ==
    /\ Idle \in Flow /\ Idle.at = "off" /\ ~Running(Idle)
    /\ \A b \in BOOLEAN : Entered(b) \in Flow /\ ~Running(Entered(b))
    /\ \A m \in Mount, b \in BOOLEAN :
          /\ Started(m, b) \in Flow /\ Started(m, b).at = "quiesce"
          /\ Started(m, b).join = m
<1>1. Idle \in Flow /\ Idle.at = "off"
  BY RuntimeLockAssumption DEF Idle, Flow, Stage, Mount
<1>2. Policy \in Flow /\ Policy.at = "policy"
  BY RuntimeLockAssumption DEF Policy, Flow, Stage, Mount
<1>3. ~Running(Idle) /\ ~Running(Policy)
  BY <1>1, <1>2 DEF Running
<1>4. ASSUME NEW b \in BOOLEAN PROVE Entered(b) \in Flow /\ ~Running(Entered(b))
  BY <1>1, <1>2, <1>3 DEF Entered
<1>5. ASSUME NEW m \in Mount, NEW b \in BOOLEAN
      PROVE  /\ Started(m, b) \in Flow /\ Started(m, b).at = "quiesce"
             /\ Started(m, b).join = m
  BY DEF Started, Flow, Stage
<1> QED BY <1>1, <1>3, <1>4, <1>5

(* A flow that moves on is at its new stage, and as stale as it was.            *)
LEMMA FlowMoved ==
    ASSUME NEW x \in Flow, NEW stage \in Stage
    PROVE  /\ Moved(x, stage) \in Flow
           /\ Moved(x, stage).at = stage /\ Moved(x, stage).stale = x.stale
           /\ [Moved(x, stage) EXCEPT !.join = 0] \in Flow
           /\ [Moved(x, stage) EXCEPT !.join = 0].at = stage
           /\ [Moved(x, stage) EXCEPT !.join = 0].stale = x.stale
<1>1. 0 \in Mount
  BY RuntimeLockAssumption DEF Mount
<1> QED BY <1>1 DEF Moved, Flow

(* A flow that turns stale stays where it is, and waits for what it waits for.  *)
LEMMA FlowStale ==
    ASSUME NEW x \in Flow
    PROVE  /\ Stale(x) \in Flow /\ Stale(x).at = x.at /\ Stale(x).join = x.join
           /\ x.at # "off" => Stale(x).stale
BY DEF Stale, Flow

(* What the invariant says of the types of flows.                               *)
LEMMA FlowTyped ==
    ASSUME TypeOK
    PROVE  /\ flow \in [Tab -> [Slot -> Flow]]
           /\ \A u \in Tab, g \in Slot :
                 /\ flow[u][g] \in Flow /\ Stale(flow[u][g]) \in Flow
                 /\ flow[u][g].at \in Stage /\ flow[u][g].stale \in BOOLEAN
                 /\ flow[u][g].fresh \in BOOLEAN /\ flow[u][g].join \in Mount
           /\ \A u \in Tab : lockQ[u] \in Mount /\ visible[u] \in BOOLEAN
<1>1. flow \in [Tab -> [Slot -> Flow]]
  BY DEF TypeOK
<1>2. \A u \in Tab, g \in Slot : flow[u][g] \in Flow
  BY <1>1
<1>3. \A u \in Tab, g \in Slot :
        /\ flow[u][g].at \in Stage /\ flow[u][g].stale \in BOOLEAN
        /\ flow[u][g].fresh \in BOOLEAN /\ flow[u][g].join \in Mount
  BY <1>2 DEF Flow
<1>4. \A u \in Tab, g \in Slot : Stale(flow[u][g]) \in Flow
  BY <1>2, FlowStale
<1>5. \A u \in Tab : lockQ[u] \in Mount /\ visible[u] \in BOOLEAN
  BY DEF TypeOK
<1> QED BY <1>1, <1>2, <1>3, <1>4, <1>5

(* What becomes of the flows when one of them, or those of one tab, change.     *)
LEMMA FlowUpdate ==
    ASSUME NEW F \in [Tab -> [Slot -> Flow]], NEW t \in Tab
    PROVE  /\ \A f \in Slot, x \in Flow :
                 /\ [F EXCEPT ![t][f] = x] \in [Tab -> [Slot -> Flow]]
                 /\ [F EXCEPT ![t][f] = x][t][f] = x
                 /\ \A u \in Tab, g \in Slot :
                       u # t \/ g # f => [F EXCEPT ![t][f] = x][u][g] = F[u][g]
           /\ \A r \in [Slot -> Flow] :
                 /\ [F EXCEPT ![t] = r] \in [Tab -> [Slot -> Flow]]
                 /\ \A u \in Tab, g \in Slot :
                       [F EXCEPT ![t] = r][u][g] = IF u = t THEN r[g] ELSE F[u][g]
OBVIOUS

(* Coming to the unlock screen, a tab keeps its running flows, perhaps stale.   *)
LEMMA AtScreen ==
    ASSUME TypeOK, NEW t \in Tab
    PROVE  /\ FlowsAtScreen(t) \in [Slot -> Flow]
           /\ \A f \in Slot :
                 \/ ~Running(FlowsAtScreen(t)[f])
                 \/ FlowsAtScreen(t)[f] \in {flow[t][f], Stale(flow[t][f])}
BY FlowTyped, FlowShapes DEF FlowsAtScreen

(* A calmer step cannot give a tab two running flows, nor a running flow a      *)
(* writer it does not wait for.                                                 *)
LEMMA CalmerKeeps ==
    ASSUME TypeOK, OneRunning, FlowsWait, Calmer, writing' \subseteq writing
    PROVE  OneRunning' /\ FlowsWait'
<1>1. ASSUME NEW t \in Tab, NEW f \in Slot, Running(flow'[t][f])
      PROVE  /\ Running(flow[t][f])
             /\ flow'[t][f].at = flow[t][f].at /\ flow'[t][f].join = flow[t][f].join
  BY <1>1, FlowTyped, FlowStale DEF Calmer, Running
<1>2. OneRunning'
  BY <1>1 DEF OneRunning, Slot, Running
<1>3. FlowsWait'
  BY <1>1 DEF FlowsWait, Running
<1> QED BY <1>2, <1>3

(* A flow starts by waiting for the messenger the tab has left: whoever writes  *)
(* in a locked tab is that one.                                                 *)
LEMMA FlowStarts ==
    ASSUME TypeOK, MountBooks, OneFlowBooks, FlowsOnly,
           NEW t \in Tab, NEW f \in Slot, phase[t] # "open",
           \A g \in Slot : g # f => ~Running(flow[t][g]),
           OnlyFlow(t, f), flow'[t][f].at = "quiesce", flow'[t][f].join = lockQ[t]
    PROVE  OneFlowBooks'
<1>1. Settledness'
  BY DEF OneFlowBooks, Settledness, FlowsOnly, OnlyFlow
<1>2. OneRunning'
  BY DEF OneFlowBooks, OneRunning, Running, OnlyFlow, Slot
<1>3. WritersKnown'
  BY DEF OneFlowBooks, WritersKnown, FlowsOnly
<1>4. \A m \in Mount : <<t, m>> \in writing => lockQ[t] = m
  BY DEF OneFlowBooks, WritersKnown, MountBooks
<1>5. FlowsWait'
  BY <1>4 DEF OneFlowBooks, FlowsWait, Running, FlowsOnly, OnlyFlow
<1>6. FlowsHold'
  BY DEF OneFlowBooks, FlowsHold, FlowsOnly, OnlyFlow
<1> QED BY <1>1, <1>2, <1>3, <1>5, <1>6 DEF OneFlowBooks

(* A running flow moves on when no messenger of its tab writes, and comes to    *)
(* hold the lock before it needs it.                                            *)
LEMMA FlowMovesOn ==
    ASSUME TypeOK, OneFlowBooks, UNCHANGED <<release, joined, phase, lockQ, mounted, mounts, writing>>,
           \A u \in Tab : held[u] => held'[u],
           NEW t \in Tab, NEW f \in Slot, Running(flow[t][f]), phase[t] # "open",
           \A m \in Mount : <<t, m>> \notin writing,
           OnlyFlow(t, f),
           flow'[t][f].at \in {"create", "timer"} /\ ~flow'[t][f].stale
               => held'[t] /\ release[t] = "no"
    PROVE  OneFlowBooks'
<1>1. Settledness'
  BY DEF OneFlowBooks, Settledness, OnlyFlow
<1>2. OneRunning'
  BY DEF OneFlowBooks, OneRunning, Running, OnlyFlow, Slot
<1>3. WritersKnown'
  BY DEF OneFlowBooks, WritersKnown
<1>4. FlowsWait'
  BY DEF OneFlowBooks, FlowsWait, Running, OnlyFlow
<1>5. FlowsHold'
  BY DEF OneFlowBooks, FlowsHold, OnlyFlow
<1> QED BY <1>1, <1>2, <1>3, <1>4, <1>5 DEF OneFlowBooks

(* A running flow past its first wait has no writer beside it, and keeps its    *)
(* tab's messenger unmounted and its other flow at rest.                        *)
LEMMA PastTheWait ==
    ASSUME TypeOK, OneFlowBooks, NEW t \in Tab, NEW f \in Slot,
           flow[t][f].at \in {"auth", "acquire", "create", "timer"}
    PROVE  /\ Running(flow[t][f]) /\ phase[t] # "open"
           /\ \A m \in Mount : <<t, m>> \notin writing
           /\ \A g \in Slot : g # f => ~Running(flow[t][g])
<1>1. Running(flow[t][f]) /\ flow[t][f].at # "quiesce"
  BY DEF Running
<1>2. phase[t] # "open"
  BY DEF OneFlowBooks, Settledness
<1>3. \A m \in Mount : <<t, m>> \notin writing
  BY <1>1 DEF OneFlowBooks, FlowsWait
<1>4. \A g \in Slot : g # f => ~Running(flow[t][g])
  BY <1>1 DEF OneFlowBooks, OneRunning, Slot
<1> QED BY <1>1, <1>2, <1>3, <1>4

(* Submitting a passphrase starts the tab's only running flow, or doubles it.  *)
LEMMA BeginInv == ASSUME Inv, NEW t \in Tab, Begin(t) PROVE Inv'
<1>1. /\ flow' \in [Tab -> [Slot -> Flow]] /\ OnlyFlow(t, "user")
      /\ flow'[t]["user"].at = "quiesce" /\ flow'[t]["user"].join = lockQ[t]
  <2> DEFINE x == Started(lockQ[t], phase[t] = "create")
  <2>1. (phase[t] = "create") \in BOOLEAN /\ lockQ[t] \in Mount
    BY FlowTyped DEF Inv
  <2>2. x \in Flow /\ x.at = "quiesce" /\ x.join = lockQ[t]
    BY <2>1, FlowShapes
  <2>3. "user" \in Slot /\ flow' = [flow EXCEPT ![t]["user"] = x]
    BY DEF Slot, Begin
  <2> HIDE DEF x
  <2> QED BY <2>2, <2>3, FlowTyped, FlowUpdate DEF Inv, OnlyFlow
<1>2. TypeOK'
  BY <1>1, RuntimeLockAssumption DEF Inv, TypeOK, Mount, Begin, lockVars, pageVars, workVars
<1>3. LockBooks'
  BY RuntimeLockAssumption DEF Inv, TypeOK, LockBooks, Begin, lockVars, pageVars, workVars
<1>4. MountBooks'
  BY RuntimeLockAssumption DEF Inv, TypeOK, MountBooks, Mount, Begin, lockVars, pageVars, workVars
<1>5. ASSUME doubled' = {} PROVE OneFlowBooks'
  <2>1. doubled = {} /\ OneFlowBooks /\ TypeOK /\ MountBooks
    BY <1>5 DEF Inv, Begin
  <2>2. FlowsOnly /\ "user" \in Slot /\ phase[t] # "open"
    BY DEF Begin, FlowsOnly, lockVars, workVars, Slot
  <2>3. ~Running(flow[t]["auto"])
    BY <1>5 DEF Begin
  <2> QED BY <1>1, <2>1, <2>2, <2>3, FlowStarts DEF Slot
<1> QED BY <1>2, <1>3, <1>4, <1>5 DEF Inv

(* The automatic prompt starts the tab's only running flow, or doubles it.     *)
LEMMA AutoBeginInv == ASSUME Inv, NEW t \in Tab, AutoBegin(t) PROVE Inv'
<1>1. /\ flow' \in [Tab -> [Slot -> Flow]] /\ OnlyFlow(t, "auto")
      /\ IF flow[t]["auto"].stale
         THEN flow'[t]["auto"] = Idle
         ELSE flow'[t]["auto"].at = "quiesce" /\ flow'[t]["auto"].join = lockQ[t]
  <2>1. "auto" \in Slot /\ lockQ[t] \in Mount /\ FALSE \in BOOLEAN
    BY FlowTyped DEF Inv, Slot
  <2>2. /\ Started(lockQ[t], FALSE) \in Flow /\ Started(lockQ[t], FALSE).at = "quiesce"
        /\ Started(lockQ[t], FALSE).join = lockQ[t]
    BY <2>1, FlowShapes
  <2>3. CASE flow[t]["auto"].stale
    <3>1. flow' = [flow EXCEPT ![t]["auto"] = Idle]
      BY <2>3 DEF AutoBegin
    <3> QED BY <2>1, <2>3, <3>1, FlowTyped, FlowShapes, FlowUpdate DEF Inv, OnlyFlow
  <2>4. CASE ~flow[t]["auto"].stale
    <3> DEFINE x == Started(lockQ[t], FALSE)
    <3>1. flow' = [flow EXCEPT ![t]["auto"] = x]
      BY <2>4 DEF AutoBegin
    <3>2. x \in Flow /\ x.at = "quiesce" /\ x.join = lockQ[t]
      BY <2>2
    <3> HIDE DEF x
    <3> QED BY <2>1, <2>4, <3>1, <3>2, FlowTyped, FlowUpdate DEF Inv, OnlyFlow
  <2> QED BY <2>3, <2>4
<1>2. TypeOK'
  <2>1. /\ busy' = busy \/ busy' = [busy EXCEPT ![t] = TRUE]
        /\ doubled' = doubled \/ doubled' = doubled \cup {t}
    BY DEF AutoBegin
  <2>2. busy' \in [Tab -> BOOLEAN] /\ doubled' \subseteq Tab
    BY <2>1 DEF Inv, TypeOK
  <2> QED BY <1>1, <2>2 DEF Inv, TypeOK, Mount, AutoBegin, lockVars, workVars
<1>3. LockBooks'
  BY RuntimeLockAssumption DEF Inv, TypeOK, LockBooks, AutoBegin, lockVars, pageVars, workVars
<1>4. MountBooks'
  BY RuntimeLockAssumption DEF Inv, TypeOK, MountBooks, Mount, AutoBegin, lockVars, pageVars, workVars
<1>5. ASSUME doubled' = {} PROVE OneFlowBooks'
  <2>1. doubled = {} /\ OneFlowBooks /\ TypeOK /\ MountBooks
    BY <1>5 DEF Inv, AutoBegin
  <2>2. FlowsOnly /\ "auto" \in Slot /\ phase[t] # "open"
    BY <2>1 DEF AutoBegin, FlowsOnly, lockVars, workVars, Slot, OneFlowBooks, Settledness
  <2>3. CASE flow[t]["auto"].stale
    <3>1. Calmer
      BY <1>1, <2>3, FlowShapes DEF Calmer, OnlyFlow
    <3>2. OneRunning' /\ FlowsWait'
      BY <2>1, <2>2, <3>1, CalmerKeeps DEF OneFlowBooks, FlowsOnly
    <3>3. Settledness' /\ FlowsHold'
      BY <1>1, <2>1, <2>2, <2>3, FlowShapes
      DEF OneFlowBooks, Settledness, FlowsHold, FlowsOnly, OnlyFlow
    <3>4. WritersKnown'
      BY <2>1, <2>2 DEF OneFlowBooks, WritersKnown, FlowsOnly
    <3> QED BY <3>2, <3>3, <3>4 DEF OneFlowBooks
  <2>4. CASE ~flow[t]["auto"].stale
    <3>1. ~Running(flow[t]["user"])
      BY <1>5, <2>4 DEF AutoBegin
    <3> QED BY <1>1, <2>1, <2>2, <2>4, <3>1, FlowStarts DEF Slot
  <2> QED BY <2>3, <2>4
<1> QED BY <1>2, <1>3, <1>4, <1>5 DEF Inv

(* A flow goes on only when the messenger it waited for has drained.           *)
LEMMA JoinedInv == ASSUME Inv, NEW t \in Tab, NEW f \in Slot, Joined(t, f) PROVE Inv'
<1>1. /\ flow' \in [Tab -> [Slot -> Flow]] /\ OnlyFlow(t, f)
      /\ flow'[t][f].at \in {"acquire", "auth"} /\ flow'[t][f].stale = flow[t][f].stale
  <2> DEFINE stage == IF flow[t][f].fresh THEN "acquire" ELSE "auth"
             x == [Moved(flow[t][f], stage) EXCEPT !.join = 0]
  <2>1. stage \in Stage /\ stage \in {"acquire", "auth"}
    BY DEF Stage
  <2>2. flow[t][f] \in Flow
    BY FlowTyped DEF Inv
  <2> HIDE DEF stage
  <2>3. x \in Flow /\ x.at = stage /\ x.stale = flow[t][f].stale
    BY <2>1, <2>2, FlowMoved
  <2>4. flow' = [flow EXCEPT ![t][f] = x]
    BY DEF Joined, At, stage
  <2> HIDE DEF x
  <2> QED BY <2>1, <2>3, <2>4, FlowTyped, FlowUpdate DEF Inv, OnlyFlow
<1>2. TypeOK'
  BY <1>1, RuntimeLockAssumption DEF Inv, TypeOK, Mount, Joined, lockVars, pageVars, workVars
<1>3. LockBooks'
  BY RuntimeLockAssumption DEF Inv, TypeOK, LockBooks, Joined, lockVars, pageVars, workVars
<1>4. MountBooks'
  BY RuntimeLockAssumption DEF Inv, TypeOK, MountBooks, Mount, Joined, lockVars, pageVars, workVars
<1>5. ASSUME doubled' = {} PROVE OneFlowBooks'
  <2>1. doubled = {} /\ OneFlowBooks /\ TypeOK /\ MountBooks
    BY <1>5 DEF Inv, Joined
  <2>2. Running(flow[t][f]) /\ flow[t][f].at = "quiesce"
    BY DEF Joined, Running
  <2>3. phase[t] # "open"
    BY <2>1, <2>2 DEF OneFlowBooks, Settledness
  <2>4. \A m \in Mount : <<t, m>> \notin writing
    BY <2>1, <2>2 DEF Joined, Drained, OneFlowBooks, FlowsWait
  <2> QED BY <1>1, <2>1, <2>2, <2>3, <2>4, FlowMovesOn DEF Joined, lockVars, pageVars, workVars
<1> QED BY <1>2, <1>3, <1>4, <1>5 DEF Inv

(* Authentication changes nothing but the flow.                                *)
LEMMA AuthenticatedInv == ASSUME Inv, NEW t \in Tab, NEW f \in Slot, Authenticated(t, f) PROVE Inv'
<1>1. /\ flow' \in [Tab -> [Slot -> Flow]] /\ OnlyFlow(t, f)
      /\ flow'[t][f].at \in {"acquire"} /\ flow'[t][f].stale = flow[t][f].stale
  <2> DEFINE stage == "acquire"
             x == Moved(flow[t][f], stage)
  <2>1. stage \in Stage /\ stage \in {"acquire"}
    BY DEF Stage
  <2>2. flow[t][f] \in Flow
    BY FlowTyped DEF Inv
  <2> HIDE DEF stage
  <2>3. x \in Flow /\ x.at = stage /\ x.stale = flow[t][f].stale
    BY <2>1, <2>2, FlowMoved
  <2>4. flow' = [flow EXCEPT ![t][f] = x]
    BY DEF Authenticated, At, stage
  <2> HIDE DEF x
  <2> QED BY <2>1, <2>3, <2>4, FlowTyped, FlowUpdate DEF Inv, OnlyFlow
<1>2. TypeOK'
  BY <1>1, RuntimeLockAssumption DEF Inv, TypeOK, Mount, Authenticated, lockVars, pageVars, workVars
<1>3. LockBooks'
  BY RuntimeLockAssumption DEF Inv, TypeOK, LockBooks, Authenticated, lockVars, pageVars, workVars
<1>4. MountBooks'
  BY RuntimeLockAssumption DEF Inv, TypeOK, MountBooks, Mount, Authenticated, lockVars, pageVars, workVars
<1>5. ASSUME doubled' = {} PROVE OneFlowBooks'
  <2>1. doubled = {} /\ OneFlowBooks /\ TypeOK /\ MountBooks
    BY <1>5 DEF Inv, Authenticated
  <2>2. flow[t][f].at \in {"auth", "acquire", "create", "timer"}
    BY DEF Authenticated
  <2> QED BY <1>1, <2>1, <2>2, PastTheWait, FlowMovesOn DEF Authenticated, lockVars, pageVars, workVars
<1> QED BY <1>2, <1>3, <1>4, <1>5 DEF Inv

(* A flow that fails before it holds the lock leaves nothing behind.           *)
LEMMA FailsInv == ASSUME Inv, NEW t \in Tab, NEW f \in Slot, Fails(t, f) PROVE Inv'
<1>1. flow' \in [Tab -> [Slot -> Flow]] /\ OnlyFlow(t, f) /\ flow'[t][f] = Idle
  <2>1. flow' = [flow EXCEPT ![t][f] = Idle]
    BY DEF Fails
  <2> QED BY <2>1, FlowTyped, FlowShapes, FlowUpdate DEF Inv, OnlyFlow
<1>2. TypeOK'
  BY <1>1, RuntimeLockAssumption DEF Inv, TypeOK, Mount, Fails, lockVars, pageVars, workVars
<1>3. LockBooks'
  BY RuntimeLockAssumption DEF Inv, TypeOK, LockBooks, Fails, lockVars, pageVars, workVars
<1>4. MountBooks'
  BY RuntimeLockAssumption DEF Inv, TypeOK, MountBooks, Mount, Fails, lockVars, pageVars, workVars
<1>5. ASSUME doubled' = {} PROVE OneFlowBooks'
  <2>1. doubled = {} /\ OneFlowBooks /\ TypeOK /\ MountBooks
    BY <1>5 DEF Inv, Fails
  <2>2. FlowsOnly
    BY DEF Fails, FlowsOnly, lockVars, workVars
  <2>3. Calmer
    BY <1>1, FlowShapes DEF Calmer, OnlyFlow
  <2>4. OneRunning' /\ FlowsWait'
    BY <2>1, <2>2, <2>3, CalmerKeeps DEF OneFlowBooks, FlowsOnly
  <2>5. Settledness' /\ FlowsHold'
    BY <1>1, <2>1, <2>2, FlowShapes DEF OneFlowBooks, Settledness, FlowsHold, FlowsOnly, OnlyFlow
  <2>6. WritersKnown'
    BY <2>1, <2>2 DEF OneFlowBooks, WritersKnown, FlowsOnly
  <2> QED BY <2>4, <2>5, <2>6 DEF OneFlowBooks
<1> QED BY <1>2, <1>3, <1>4, <1>5 DEF Inv

(* The lock is taken when nobody has it, or by the tab that has it for good.   *)
LEMMA AcquireInv == ASSUME Inv, NEW t \in Tab, NEW f \in Slot, Acquire(t, f) PROVE Inv'
<1>1. /\ flow' \in [Tab -> [Slot -> Flow]] /\ OnlyFlow(t, f)
      /\ flow'[t][f].at \in {"create", "timer"} /\ flow'[t][f].stale = flow[t][f].stale
  <2> DEFINE stage == IF flow[t][f].fresh THEN "create" ELSE "timer"
             x == Moved(flow[t][f], stage)
  <2>1. stage \in Stage /\ stage \in {"create", "timer"}
    BY DEF Stage
  <2>2. flow[t][f] \in Flow
    BY FlowTyped DEF Inv
  <2> HIDE DEF stage
  <2>3. x \in Flow /\ x.at = stage /\ x.stale = flow[t][f].stale
    BY <2>1, <2>2, FlowMoved
  <2>4. flow' = [flow EXCEPT ![t][f] = x]
    BY DEF Acquire, At, stage
  <2> HIDE DEF x
  <2> QED BY <2>1, <2>3, <2>4, FlowTyped, FlowUpdate DEF Inv, OnlyFlow
<1>2. TypeOK'
  BY <1>1, RuntimeLockAssumption DEF Inv, TypeOK, Mount, Acquire, lockVars, pageVars, workVars, MayAcquire
<1>3. LockBooks'
  BY RuntimeLockAssumption DEF Inv, TypeOK, LockBooks, Acquire, lockVars, pageVars, workVars, MayAcquire
<1>4. MountBooks'
  BY RuntimeLockAssumption DEF Inv, TypeOK, MountBooks, Mount, Acquire, lockVars, pageVars, workVars, MayAcquire
<1>5. ASSUME doubled' = {} PROVE OneFlowBooks'
  <2>1. doubled = {} /\ OneFlowBooks /\ TypeOK /\ MountBooks
    BY <1>5 DEF Inv, Acquire
  <2>2. flow[t][f].at \in {"auth", "acquire", "create", "timer"}
    BY DEF Acquire
  <2>3. /\ UNCHANGED <<release, joined, phase, lockQ, mounted, mounts, writing>>
        /\ \A u \in Tab : held[u] => held'[u]
        /\ held'[t] /\ release[t] = "no"
    BY <2>1 DEF TypeOK, Acquire, MayAcquire, pageVars, workVars
  <2> QED BY <1>1, <2>1, <2>2, <2>3, PastTheWait, FlowMovesOn
<1> QED BY <1>2, <1>3, <1>4, <1>5 DEF Inv

(* Creating the vault changes nothing but the header.                          *)
LEMMA CreateInv == ASSUME Inv, NEW t \in Tab, NEW f \in Slot, Create(t, f) PROVE Inv'
<1>1. /\ flow' \in [Tab -> [Slot -> Flow]] /\ OnlyFlow(t, f)
      /\ flow'[t][f].at \in {"timer"} /\ flow'[t][f].stale = flow[t][f].stale
  <2> DEFINE stage == "timer"
             x == Moved(flow[t][f], stage)
  <2>1. stage \in Stage /\ stage \in {"timer"}
    BY DEF Stage
  <2>2. flow[t][f] \in Flow
    BY FlowTyped DEF Inv
  <2> HIDE DEF stage
  <2>3. x \in Flow /\ x.at = stage /\ x.stale = flow[t][f].stale
    BY <2>1, <2>2, FlowMoved
  <2>4. flow' = [flow EXCEPT ![t][f] = x]
    BY DEF Create, At, stage
  <2> HIDE DEF x
  <2> QED BY <2>1, <2>3, <2>4, FlowTyped, FlowUpdate DEF Inv, OnlyFlow
<1>2. TypeOK'
  BY <1>1, RuntimeLockAssumption DEF Inv, TypeOK, Mount, Create, lockVars, pageVars, workVars
<1>3. LockBooks'
  BY RuntimeLockAssumption DEF Inv, TypeOK, LockBooks, Create, lockVars, pageVars, workVars
<1>4. MountBooks'
  BY RuntimeLockAssumption DEF Inv, TypeOK, MountBooks, Mount, Create, lockVars, pageVars, workVars
<1>5. ASSUME doubled' = {} PROVE OneFlowBooks'
  <2>1. doubled = {} /\ OneFlowBooks /\ TypeOK /\ MountBooks
    BY <1>5 DEF Inv, Create
  <2>2. flow[t][f].at \in {"auth", "acquire", "create", "timer"}
    BY DEF Create
  <2>3. ~flow[t][f].stale => held[t] /\ release[t] = "no"
    BY <2>1 DEF Create, OneFlowBooks, FlowsHold
  <2> QED BY <1>1, <2>1, <2>2, <2>3, PastTheWait, FlowMovesOn DEF Create, lockVars, pageVars, workVars
<1> QED BY <1>2, <1>3, <1>4, <1>5 DEF Inv

(* A failed creation gives the lock back.                                      *)
LEMMA CreateFailsInv == ASSUME Inv, NEW t \in Tab, NEW f \in Slot, CreateFails(t, f) PROVE Inv'
<1>1. flow' \in [Tab -> [Slot -> Flow]] /\ OnlyFlow(t, f) /\ flow'[t][f] = Idle
  <2>1. flow' = [flow EXCEPT ![t][f] = Idle]
    BY DEF CreateFails
  <2> QED BY <2>1, FlowTyped, FlowShapes, FlowUpdate DEF Inv, OnlyFlow
<1>2. TypeOK'
  BY <1>1, RuntimeLockAssumption DEF Inv, TypeOK, Mount, CreateFails, lockVars, pageVars, workVars, ReleaseAfter, Releasable
<1>3. LockBooks'
  BY RuntimeLockAssumption DEF Inv, TypeOK, LockBooks, CreateFails, lockVars, pageVars, workVars, ReleaseAfter, Releasable
<1>4. MountBooks'
  BY RuntimeLockAssumption DEF Inv, TypeOK, MountBooks, Mount, CreateFails, lockVars, pageVars, workVars, ReleaseAfter, Releasable
<1>5. ASSUME doubled' = {} PROVE OneFlowBooks'
  <2>1. doubled = {} /\ OneFlowBooks /\ TypeOK /\ MountBooks
    BY <1>5 DEF Inv, CreateFails
  <2>2. /\ phase[t] # "open" /\ \A m \in Mount : <<t, m>> \notin writing
        /\ \A g \in Slot : ~Running(flow'[t][g])
    <3>1. flow[t][f].at \in {"auth", "acquire", "create", "timer"}
      BY DEF CreateFails
    <3> QED BY <1>1, <2>1, <3>1, PastTheWait, FlowShapes DEF OnlyFlow
  <2>3. /\ UNCHANGED <<held, phase, lockQ, mounted, mounts, writing>>
        /\ \A u \in Tab \ {t} : release'[u] = release[u] /\ joined'[u] = joined[u]
    BY <2>1 DEF TypeOK, CreateFails, ReleaseAfter, workVars
  <2>4. Calmer
    BY <1>1, FlowShapes DEF Calmer, OnlyFlow
  <2>5. OneRunning' /\ FlowsWait'
    BY <2>1, <2>3, <2>4, CalmerKeeps DEF OneFlowBooks
  <2>6. Settledness'
    BY <1>1, <2>1, <2>2, <2>3 DEF OneFlowBooks, Settledness, OnlyFlow
  <2>7. FlowsHold'
    BY <1>1, <2>1, <2>2, <2>3 DEF OneFlowBooks, FlowsHold, Running, OnlyFlow
  <2>8. WritersKnown'
    BY <2>1, <2>2, <2>3 DEF OneFlowBooks, WritersKnown
  <2> QED BY <2>5, <2>6, <2>7, <2>8 DEF OneFlowBooks
<1> QED BY <1>2, <1>3, <1>4, <1>5 DEF Inv

(* A messenger mounts when the tab has the lock and its predecessor has drained. *)
LEMMA OpenInv == ASSUME Inv, NEW t \in Tab, NEW f \in Slot, Open(t, f) PROVE Inv'
<1>1. /\ flow' \in [Tab -> [Slot -> Flow]]
      /\ \A u \in Tab, g \in Slot :
            flow'[u][g] = IF u = t /\ (g = f \/ ~Running(flow[t][g])) THEN Idle ELSE flow[u][g]
  <2> DEFINE row == [g \in Slot |-> IF g = f \/ ~Running(flow[t][g]) THEN Idle ELSE flow[t][g]]
  <2>1. row \in [Slot -> Flow]
    BY FlowTyped, FlowShapes DEF Inv
  <2>2. flow' = [flow EXCEPT ![t] = row]
    BY FlowTyped DEF Inv, Open
  <2>3. \A g \in Slot : row[g] = IF g = f \/ ~Running(flow[t][g]) THEN Idle ELSE flow[t][g]
    OBVIOUS
  <2> HIDE DEF row
  <2> QED BY <2>1, <2>2, <2>3, FlowTyped, FlowUpdate DEF Inv
<1>2. TypeOK'
  BY <1>1, RuntimeLockAssumption DEF Inv, TypeOK, Mount, Open, lockVars, pageVars, workVars
<1>3. LockBooks'
  BY RuntimeLockAssumption DEF Inv, TypeOK, LockBooks, Open, lockVars, pageVars, workVars
<1>4. MountBooks'
  BY RuntimeLockAssumption DEF Inv, TypeOK, MountBooks, Mount, Open, lockVars, pageVars, workVars
<1>5. ASSUME doubled' = {} PROVE OneFlowBooks'
  <2>1. doubled = {} /\ OneFlowBooks /\ TypeOK /\ MountBooks
    BY <1>5 DEF Inv, Open
  <2>2. /\ phase[t] # "open" /\ \A m \in Mount : <<t, m>> \notin writing
        /\ \A g \in Slot : flow'[t][g].at = "off"
    <3>1. flow[t][f].at \in {"auth", "acquire", "create", "timer"}
      BY DEF Open
    <3> QED BY <1>1, <2>1, <3>1, PastTheWait, FlowShapes
  <2>3. held[t] /\ release[t] = "no"
    BY <2>1 DEF Open, OneFlowBooks, FlowsHold
  <2>4. /\ UNCHANGED <<held, release, joined, lockQ, writing>>
        /\ \A u \in Tab \ {t} : /\ phase'[u] = phase[u]
                                /\ mounted'[u] = mounted[u] /\ mounts'[u] = mounts[u]
    BY <2>1 DEF TypeOK, Open, lockVars
  <2>5. \A u \in Tab \ {t}, g \in Slot : flow'[u][g] = flow[u][g]
    BY <1>1
  <2>6. Calmer
    BY <2>2, <2>5 DEF Calmer, Running
  <2>7. OneRunning' /\ FlowsWait'
    BY <2>1, <2>4, <2>6, CalmerKeeps DEF OneFlowBooks
  <2>8. Settledness'
    BY <2>1, <2>2, <2>3, <2>4, <2>5 DEF OneFlowBooks, Settledness
  <2>9. FlowsHold'
    BY <2>1, <2>2, <2>4, <2>5 DEF OneFlowBooks, FlowsHold
  <2>10. WritersKnown'
    BY <2>1, <2>2, <2>4 DEF OneFlowBooks, WritersKnown
  <2> QED BY <2>7, <2>8, <2>9, <2>10 DEF OneFlowBooks
<1> QED BY <1>2, <1>3, <1>4, <1>5 DEF Inv

(* A stale unlock gives the lock back, and no messenger runs meanwhile.        *)
LEMMA DiscardInv == ASSUME Inv, NEW t \in Tab, NEW f \in Slot, Discard(t, f) PROVE Inv'
<1>1. /\ flow' \in [Tab -> [Slot -> Flow]]
      /\ \A u \in Tab \ {t}, g \in Slot : flow'[u][g] = flow[u][g]
      /\ \A g \in Slot : \/ ~Running(flow'[t][g])
                         \/ g # f /\ flow'[t][g] \in {flow[t][g], Stale(flow[t][g])}
  <2> DEFINE row == [g \in Slot |->
        IF g # f THEN IF phase[t] = "unlock" THEN flow[t][g] ELSE FlowsAtScreen(t)[g]
        ELSE IF g = "auto" /\ phase[t] # "unlock" THEN Entered(visible[t]) ELSE Idle]
  <2>1. /\ FlowsAtScreen(t) \in [Slot -> Flow] /\ Entered(visible[t]) \in Flow
        /\ ~Running(Entered(visible[t])) /\ Idle \in Flow /\ ~Running(Idle)
        /\ \A g \in Slot : flow[t][g] \in Flow
        /\ \A g \in Slot : \/ ~Running(FlowsAtScreen(t)[g])
                           \/ FlowsAtScreen(t)[g] \in {flow[t][g], Stale(flow[t][g])}
    BY FlowTyped, FlowShapes, AtScreen DEF Inv
  <2>2. row \in [Slot -> Flow]
    BY <2>1
  <2>3. flow' = [flow EXCEPT ![t] = row]
    BY FlowTyped DEF Inv, Discard
  <2>4. \A g \in Slot : \/ ~Running(row[g])
                        \/ g # f /\ row[g] \in {flow[t][g], Stale(flow[t][g])}
    BY <2>1
  <2> HIDE DEF row
  <2> QED BY <2>2, <2>3, <2>4, FlowTyped, FlowUpdate DEF Inv
<1>2. TypeOK'
  BY <1>1, RuntimeLockAssumption DEF Inv, TypeOK, Mount, Discard, lockVars, pageVars, workVars, ReleaseAfter, Releasable
<1>3. LockBooks'
  BY RuntimeLockAssumption DEF Inv, TypeOK, LockBooks, Discard, lockVars, pageVars, workVars, ReleaseAfter, Releasable
<1>4. MountBooks'
  BY RuntimeLockAssumption DEF Inv, TypeOK, MountBooks, Mount, Discard, lockVars, pageVars, workVars, ReleaseAfter, Releasable
<1>5. ASSUME doubled' = {} PROVE OneFlowBooks'
  <2>1. doubled = {} /\ OneFlowBooks /\ TypeOK /\ MountBooks
    BY <1>5 DEF Inv, Discard
  <2>2. /\ phase[t] # "open" /\ \A m \in Mount : <<t, m>> \notin writing
        /\ \A g \in Slot : ~Running(flow'[t][g])
    <3>1. flow[t][f].at \in {"auth", "acquire", "create", "timer"}
      BY DEF Discard
    <3>2. \A g \in Slot : g # f => ~Running(flow[t][g]) /\ ~Running(Stale(flow[t][g]))
      BY <2>1, <3>1, PastTheWait, FlowTyped, FlowStale DEF Running
    <3> QED BY <1>1, <2>1, <3>1, <3>2, PastTheWait
  <2>3. /\ UNCHANGED <<held, lockQ, mounts, writing>>
        /\ \A u \in Tab \ {t} : /\ release'[u] = release[u] /\ joined'[u] = joined[u]
                                /\ phase'[u] = phase[u] /\ mounted'[u] = mounted[u]
        /\ phase'[t] = "unlock"
    BY <2>1 DEF TypeOK, Discard, ReleaseAfter
  <2>4. Calmer
    BY <1>1, <2>2 DEF Calmer
  <2>5. OneRunning' /\ FlowsWait'
    BY <2>1, <2>3, <2>4, CalmerKeeps DEF OneFlowBooks
  <2>6. Settledness'
    BY <1>1, <2>1, <2>3 DEF OneFlowBooks, Settledness
  <2>7. FlowsHold'
    BY <1>1, <2>1, <2>2, <2>3 DEF OneFlowBooks, FlowsHold, Running
  <2>8. WritersKnown'
    BY <2>1, <2>2, <2>3 DEF OneFlowBooks, WritersKnown
  <2> QED BY <2>5, <2>6, <2>7, <2>8 DEF OneFlowBooks
<1> QED BY <1>2, <1>3, <1>4, <1>5 DEF Inv

(* Locking unmounts the messenger and lets the release wait for it.            *)
LEMMA LockInv == ASSUME Inv, NEW t \in Tab, Lock(t) PROVE Inv'
<1>1. /\ flow' \in [Tab -> [Slot -> Flow]]
      /\ \A u \in Tab \ {t}, g \in Slot : flow'[u][g] = flow[u][g]
      /\ \A g \in Slot : \/ ~Running(flow'[t][g])
                         \/ flow'[t][g] \in {flow[t][g], Stale(flow[t][g])}
  <2>1. flow' = [flow EXCEPT ![t] = FlowsAtScreen(t)]
    BY DEF Lock
  <2> QED BY <2>1, FlowTyped, AtScreen, FlowUpdate DEF Inv
<1>2. TypeOK'
  BY <1>1, RuntimeLockAssumption DEF Inv, TypeOK, Mount, Lock, lockVars, pageVars, workVars, ReleaseAfter, Releasable
<1>3. LockBooks'
  BY RuntimeLockAssumption DEF Inv, TypeOK, LockBooks, Lock, lockVars, pageVars, workVars, ReleaseAfter, Releasable
<1>4. MountBooks'
  BY RuntimeLockAssumption DEF Inv, TypeOK, MountBooks, Mount, Lock, lockVars, pageVars, workVars, ReleaseAfter, Releasable
<1>5. ASSUME doubled' = {} PROVE OneFlowBooks'
  <2>1. doubled = {} /\ OneFlowBooks /\ TypeOK /\ MountBooks
    BY <1>5 DEF Inv, Lock
  <2>2. /\ phase[t] = "open" /\ held[t] /\ release[t] = "no"
        /\ \A g \in Slot : flow[t][g].at = "off"
    BY <2>1 DEF Lock, OneFlowBooks, Settledness
  <2>3. /\ UNCHANGED <<held, mounts, writing>>
        /\ \A u \in Tab \ {t} : /\ release'[u] = release[u] /\ joined'[u] = joined[u]
                                /\ phase'[u] = phase[u] /\ mounted'[u] = mounted[u]
                                /\ lockQ'[u] = lockQ[u]
        /\ phase'[t] = "unlock" /\ lockQ'[t] = mounted[t]
        /\ release'[t] = "joins" /\ joined'[t] = mounted[t]
    BY <2>1, <2>2 DEF TypeOK, Lock, ReleaseAfter, Releasable
  <2>4. \A g \in Slot : ~Running(flow'[t][g])
    BY <1>1, <2>1, <2>2, FlowTyped, FlowStale DEF Running
  <2>5. Calmer
    BY <1>1, <2>4 DEF Calmer
  <2>6. OneRunning' /\ FlowsWait'
    BY <2>1, <2>3, <2>5, CalmerKeeps DEF OneFlowBooks
  <2>7. Settledness'
    BY <1>1, <2>1, <2>3 DEF OneFlowBooks, Settledness
  <2>8. FlowsHold'
    BY <1>1, <2>1, <2>3, <2>4 DEF OneFlowBooks, FlowsHold, Running
  <2>9. WritersKnown'
    BY <2>1, <2>2, <2>3 DEF OneFlowBooks, WritersKnown
  <2> QED BY <2>6, <2>7, <2>8, <2>9 DEF OneFlowBooks
<1> QED BY <1>2, <1>3, <1>4, <1>5 DEF Inv

(* A lockdown makes every flow stale, and locks.                               *)
LEMMA LockdownInv == ASSUME Inv, NEW t \in Tab, Lockdown(t) PROVE Inv'
<1>1. /\ flow' \in [Tab -> [Slot -> Flow]]
      /\ \A u \in Tab \ {t}, g \in Slot : flow'[u][g] = flow[u][g]
      /\ \A g \in Slot : flow'[t][g] = Stale(flow[t][g])
  <2> DEFINE row == [g \in Slot |-> Stale(flow[t][g])]
  <2>1. row \in [Slot -> Flow] /\ flow' = [flow EXCEPT ![t] = row]
    BY FlowTyped DEF Inv, Lockdown
  <2>2. \A g \in Slot : row[g] = Stale(flow[t][g])
    OBVIOUS
  <2> HIDE DEF row
  <2> QED BY <2>1, <2>2, FlowTyped, FlowUpdate DEF Inv
<1>2. TypeOK'
  <2>1. release' \in [Tab -> {"no", "joins", "freed"}] /\ joined' \in [Tab -> Mount]
    <3>1. /\ release \in [Tab -> {"no", "joins", "freed"}] /\ joined \in [Tab -> Mount]
          /\ mounts[t] \in Mount
      BY DEF Inv, TypeOK
    <3>2. \/ release' = release /\ joined' = joined
          \/ ReleaseAfter(t, mounts[t])
      BY DEF Lockdown
    <3>3. CASE Releasable(t)
      BY <3>1, <3>2, <3>3 DEF ReleaseAfter
    <3>4. CASE ~Releasable(t)
      BY <3>1, <3>2, <3>4 DEF ReleaseAfter
    <3> QED
      BY <3>3, <3>4
  <2>2. /\ phase' \in [Tab -> {"create", "unlock", "open"}]
        /\ busy' \in [Tab -> BOOLEAN] /\ reloading' \in [Tab -> BOOLEAN]
        /\ lockQ' \in [Tab -> Mount] /\ mounted' \in [Tab -> Mount]
    BY RuntimeLockAssumption DEF Inv, TypeOK, Lockdown, Mount
  <2> QED BY <1>1, <2>1, <2>2 DEF Inv, TypeOK, Lockdown
<1>3. LockBooks'
  BY RuntimeLockAssumption DEF Inv, TypeOK, LockBooks, Lockdown, lockVars, pageVars, workVars, ReleaseAfter, Releasable
<1>4. MountBooks'
  BY RuntimeLockAssumption DEF Inv, TypeOK, MountBooks, Mount, Lockdown, lockVars, pageVars, workVars, ReleaseAfter, Releasable
<1>5. ASSUME doubled' = {} PROVE OneFlowBooks'
  <2>1. doubled = {} /\ OneFlowBooks /\ TypeOK /\ MountBooks
    BY <1>5 DEF Inv, Lockdown
  <2>2. /\ UNCHANGED <<held, mounts, writing>>
        /\ \A u \in Tab \ {t} : /\ release'[u] = release[u] /\ joined'[u] = joined[u]
                                /\ phase'[u] = phase[u] /\ mounted'[u] = mounted[u]
                                /\ lockQ'[u] = lockQ[u]
        /\ phase'[t] = "unlock" /\ lockQ'[t] = mounts[t]
    BY <2>1 DEF TypeOK, Lockdown, ReleaseAfter
  <2>3. Calmer
    BY <1>1 DEF Calmer
  <2>4. OneRunning' /\ FlowsWait'
    BY <2>1, <2>2, <2>3, CalmerKeeps DEF OneFlowBooks
  <2>5. Settledness'
    BY <1>1, <2>1, <2>2 DEF OneFlowBooks, Settledness
  <2>6. FlowsHold'
    <3>1. \A g \in Slot : flow'[t][g].at \in {"create", "timer"} => flow'[t][g].stale
      BY <1>1, <2>1, FlowTyped, FlowStale
    <3> QED BY <1>1, <2>1, <2>2, <3>1 DEF OneFlowBooks, FlowsHold
  <2>7. WritersKnown'
    <3>1. ASSUME NEW m \in Mount, <<t, m>> \in writing
          PROVE  m = mounts[t] /\ m # 0 /\ release'[t] = "joins" /\ joined'[t] = m
      <4>1. /\ m = mounts[t] /\ m # 0
            /\ m = mounted[t] \/ (lockQ[t] = m /\ release[t] = "joins" /\ joined[t] = m)
        BY <2>1, <3>1 DEF OneFlowBooks, WritersKnown
      <4>2. CASE m = mounted[t]
        <5>1. phase[t] = "open" /\ Releasable(t)
          BY <2>1, <4>1, <4>2 DEF MountBooks, OneFlowBooks, Settledness, Releasable
        <5> QED BY <2>1, <4>1, <5>1 DEF TypeOK, Lockdown, ReleaseAfter
      <4>3. CASE lockQ[t] = m /\ release[t] = "joins" /\ joined[t] = m
        BY <2>1, <4>1, <4>3 DEF TypeOK, Lockdown, ReleaseAfter, Releasable
      <4> QED BY <4>1, <4>2, <4>3
    <3> QED BY <2>1, <2>2, <3>1 DEF OneFlowBooks, WritersKnown
  <2> QED BY <2>4, <2>5, <2>6, <2>7 DEF OneFlowBooks
<1> QED BY <1>2, <1>3, <1>4, <1>5 DEF Inv

(* A document that goes takes its lock and its writers with it.                *)
LEMMA RebornInv == ASSUME Inv, NEW t \in Tab, Reborn(t) PROVE Inv'
<1>1. /\ flow' \in [Tab -> [Slot -> Flow]]
      /\ \A u \in Tab \ {t}, g \in Slot : flow'[u][g] = flow[u][g]
      /\ \A g \in Slot : ~Running(flow'[t][g])
  <2>1. /\ BootFlow(vault) \in [Slot -> Flow] /\ \A g \in Slot : ~Running(BootFlow(vault)[g])
    BY FlowShapes DEF BootFlow
  <2>2. flow' = [flow EXCEPT ![t] = BootFlow(vault)]
    BY DEF Reborn
  <2> QED BY <2>1, <2>2, FlowTyped, FlowUpdate DEF Inv
<1>2. TypeOK'
  <2>1. owner' \in Tab \cup {None} /\ held' \in [Tab -> BOOLEAN] /\ writing' \subseteq Tab \X Mount
    BY DEF Inv, TypeOK, Reborn
  <2>2. /\ release' \in [Tab -> {"no", "joins", "freed"}] /\ joined' \in [Tab -> Mount]
        /\ lockQ' \in [Tab -> Mount] /\ mounted' \in [Tab -> Mount]
    BY RuntimeLockAssumption DEF Inv, TypeOK, Reborn, Mount
  <2>3. phase' \in [Tab -> {"create", "unlock", "open"}]
    BY DEF Inv, TypeOK, Reborn, Screen
  <2>4. /\ visible' \in [Tab -> BOOLEAN] /\ busy' \in [Tab -> BOOLEAN]
        /\ reloading' \in [Tab -> BOOLEAN]
    BY DEF Inv, TypeOK, Reborn
  <2> QED BY <1>1, <2>1, <2>2, <2>3, <2>4 DEF Inv, TypeOK, Reborn
<1>3. LockBooks'
  BY RuntimeLockAssumption DEF Inv, TypeOK, LockBooks, Reborn, lockVars, pageVars, workVars, Screen
<1>4. MountBooks'
  BY RuntimeLockAssumption DEF Inv, TypeOK, MountBooks, Mount, Reborn, lockVars, pageVars, workVars, Screen
<1>5. ASSUME doubled' = {} PROVE OneFlowBooks'
  <2>1. doubled = {} /\ OneFlowBooks /\ TypeOK /\ MountBooks
    BY <1>5 DEF Inv, Reborn
  <2>2. /\ mounts' = mounts /\ writing' \subseteq writing
        /\ \A u \in Tab \ {t} : /\ release'[u] = release[u] /\ joined'[u] = joined[u]
                                /\ phase'[u] = phase[u] /\ mounted'[u] = mounted[u]
                                /\ lockQ'[u] = lockQ[u] /\ held'[u] = held[u]
        /\ phase'[t] # "open" /\ \A m \in Mount : <<t, m>> \notin writing'
    BY <2>1 DEF TypeOK, Reborn, Screen
  <2>3. Calmer
    BY <1>1 DEF Calmer
  <2>4. OneRunning' /\ FlowsWait'
    BY <2>1, <2>2, <2>3, CalmerKeeps DEF OneFlowBooks
  <2>5. Settledness'
    BY <1>1, <2>1, <2>2 DEF OneFlowBooks, Settledness
  <2>6. FlowsHold'
    BY <1>1, <2>1, <2>2 DEF OneFlowBooks, FlowsHold, Running
  <2>7. WritersKnown'
    BY <2>1, <2>2 DEF OneFlowBooks, WritersKnown
  <2> QED BY <2>4, <2>5, <2>6, <2>7 DEF OneFlowBooks
<1> QED BY <1>2, <1>3, <1>4, <1>5 DEF Inv

(* Hiding the page makes the flows of a locked tab stale.                      *)
LEMMA HideInv == ASSUME Inv, NEW t \in Tab, Hide(t) PROVE Inv'
<1>1. /\ flow' \in [Tab -> [Slot -> Flow]]
      /\ \A u \in Tab, g \in Slot : flow'[u][g] \in {flow[u][g], Stale(flow[u][g])}
      /\ \A u \in Tab, g \in Slot : phase[u] = "open" => flow'[u][g] = flow[u][g]
  <2>1. CASE phase[t] = "open"
    BY <2>1, FlowTyped DEF Inv, Hide
  <2>2. CASE phase[t] # "open"
    <3> DEFINE row == [g \in Slot |-> Stale(flow[t][g])]
    <3>1. row \in [Slot -> Flow] /\ flow' = [flow EXCEPT ![t] = row]
      BY <2>2, FlowTyped DEF Inv, Hide
    <3>2. \A g \in Slot : row[g] = Stale(flow[t][g])
      OBVIOUS
    <3> HIDE DEF row
    <3> QED BY <2>2, <3>1, <3>2, FlowTyped, FlowUpdate DEF Inv
  <2> QED BY <2>1, <2>2
<1>2. TypeOK'
  BY <1>1, RuntimeLockAssumption DEF Inv, TypeOK, Mount, Hide, lockVars, pageVars, workVars
<1>3. LockBooks'
  BY RuntimeLockAssumption DEF Inv, TypeOK, LockBooks, Hide, lockVars, pageVars, workVars
<1>4. MountBooks'
  BY RuntimeLockAssumption DEF Inv, TypeOK, MountBooks, Mount, Hide, lockVars, pageVars, workVars
<1>5. ASSUME doubled' = {} PROVE OneFlowBooks'
  <2>1. doubled = {} /\ OneFlowBooks /\ TypeOK /\ MountBooks
    BY <1>5 DEF Inv, Hide
  <2>2. FlowsOnly
    BY DEF Hide, FlowsOnly, lockVars, workVars
  <2>3. Calmer
    BY <1>1 DEF Calmer
  <2>4. OneRunning' /\ FlowsWait'
    BY <2>1, <2>2, <2>3, CalmerKeeps DEF OneFlowBooks, FlowsOnly
  <2>5. Settledness'
    BY <1>1, <2>1, <2>2 DEF OneFlowBooks, Settledness, FlowsOnly
  <2>6. FlowsHold'
    <3>1. ASSUME NEW u \in Tab, NEW g \in Slot
          PROVE  /\ flow'[u][g].at = flow[u][g].at
                 /\ flow'[u][g].at # "off" /\ flow[u][g].stale => flow'[u][g].stale
      <4>1. /\ Stale(flow[u][g]).at = flow[u][g].at
            /\ flow[u][g].at # "off" => Stale(flow[u][g]).stale
        BY <2>1, FlowTyped, FlowStale
      <4> QED BY <1>1, <4>1
    <3> QED BY <2>1, <2>2, <3>1 DEF OneFlowBooks, FlowsHold, FlowsOnly
  <2>7. WritersKnown'
    BY <2>1, <2>2 DEF OneFlowBooks, WritersKnown, FlowsOnly
  <2> QED BY <2>4, <2>5, <2>6, <2>7 DEF OneFlowBooks
<1> QED BY <1>2, <1>3, <1>4, <1>5 DEF Inv

(* Showing the page changes nothing else.                                      *)
LEMMA ShowInv == ASSUME Inv, NEW t \in Tab, Show(t) PROVE Inv'
<1>1. flow' = flow /\ flow' \in [Tab -> [Slot -> Flow]]
  BY FlowTyped DEF Inv, Show
<1>2. TypeOK'
  BY <1>1, RuntimeLockAssumption DEF Inv, TypeOK, Mount, Show, lockVars, pageVars, workVars
<1>3. LockBooks'
  BY RuntimeLockAssumption DEF Inv, TypeOK, LockBooks, Show, lockVars, pageVars, workVars
<1>4. MountBooks'
  BY RuntimeLockAssumption DEF Inv, TypeOK, MountBooks, Mount, Show, lockVars, pageVars, workVars
<1>5. ASSUME doubled' = {} PROVE OneFlowBooks'
  <2>1. doubled = {} /\ OneFlowBooks /\ TypeOK /\ MountBooks
    BY <1>5 DEF Inv, Show
  <2>2. FlowsOnly
    BY DEF Show, FlowsOnly, lockVars, workVars
  <2> QED BY <1>1, <2>1, <2>2
      DEF FlowsOnly, OneFlowBooks, Settledness, OneRunning, WritersKnown, FlowsWait, FlowsHold
<1> QED BY <1>2, <1>3, <1>4, <1>5 DEF Inv

(* Only the mounted messenger starts to write, and no flow runs beside it.     *)
LEMMA WriteBeginsInv == ASSUME Inv, NEW t \in Tab, WriteBegins(t) PROVE Inv'
<1>1. flow' = flow /\ flow' \in [Tab -> [Slot -> Flow]]
  BY FlowTyped DEF Inv, WriteBegins
<1>2. TypeOK'
  BY <1>1, RuntimeLockAssumption DEF Inv, TypeOK, Mount, WriteBegins, lockVars, pageVars, workVars
<1>3. LockBooks'
  BY RuntimeLockAssumption DEF Inv, TypeOK, LockBooks, WriteBegins, lockVars, pageVars, workVars
<1>4. MountBooks'
  BY RuntimeLockAssumption DEF Inv, TypeOK, MountBooks, Mount, WriteBegins, lockVars, pageVars, workVars
<1>5. ASSUME doubled' = {} PROVE OneFlowBooks'
  <2>1. doubled = {} /\ OneFlowBooks /\ TypeOK /\ MountBooks
    BY <1>5 DEF Inv, WriteBegins
  <2>2. UNCHANGED <<held, release, joined, phase, lockQ, mounted, mounts>>
    BY DEF WriteBegins, lockVars, pageVars
  <2>3. phase[t] = "open" /\ mounted[t] = mounts[t] /\ mounted[t] # 0
    BY <2>1 DEF WriteBegins, MountBooks
  <2>4. \A g \in Slot : ~Running(flow[t][g])
    BY <2>1, <2>3 DEF OneFlowBooks, Settledness, Running
  <2>5. \A u \in Tab, m \in Mount :
          <<u, m>> \in writing' => <<u, m>> \in writing \/ (u = t /\ m = mounted[t])
    BY DEF WriteBegins
  <2>6. WritersKnown'
    BY <2>1, <2>2, <2>3, <2>5 DEF OneFlowBooks, WritersKnown
  <2>7. FlowsWait'
    BY <1>1, <2>1, <2>4, <2>5 DEF OneFlowBooks, FlowsWait
  <2>8. Settledness' /\ OneRunning' /\ FlowsHold'
    BY <1>1, <2>1, <2>2 DEF OneFlowBooks, Settledness, OneRunning, FlowsHold
  <2> QED BY <2>6, <2>7, <2>8 DEF OneFlowBooks
<1> QED BY <1>2, <1>3, <1>4, <1>5 DEF Inv

(* A task that ends leaves fewer writers.                                      *)
LEMMA WriteEndsInv == ASSUME Inv, NEW w \in writing, WriteEnds(w) PROVE Inv'
<1>1. flow' = flow /\ flow' \in [Tab -> [Slot -> Flow]]
  BY FlowTyped DEF Inv, WriteEnds
<1>2. TypeOK'
  BY <1>1, RuntimeLockAssumption DEF Inv, TypeOK, Mount, WriteEnds, lockVars, pageVars, workVars
<1>3. LockBooks'
  BY RuntimeLockAssumption DEF Inv, TypeOK, LockBooks, WriteEnds, lockVars, pageVars, workVars
<1>4. MountBooks'
  BY RuntimeLockAssumption DEF Inv, TypeOK, MountBooks, Mount, WriteEnds, lockVars, pageVars, workVars
<1>5. ASSUME doubled' = {} PROVE OneFlowBooks'
  <2>1. doubled = {} /\ OneFlowBooks /\ TypeOK /\ MountBooks
    BY <1>5 DEF Inv, WriteEnds
  <2>2. UNCHANGED <<held, release, joined, phase, lockQ, mounted, mounts>> /\ writing' \subseteq writing
    BY DEF WriteEnds, lockVars, pageVars
  <2> QED BY <1>1, <2>1, <2>2
      DEF OneFlowBooks, Settledness, OneRunning, WritersKnown, FlowsWait, FlowsHold
<1> QED BY <1>2, <1>3, <1>4, <1>5 DEF Inv

(* The lock is freed when the messenger it waited for has drained.             *)
LEMMA FreedInv == ASSUME Inv, NEW t \in Tab, Freed(t) PROVE Inv'
<1>1. flow' = flow /\ flow' \in [Tab -> [Slot -> Flow]]
  BY FlowTyped DEF Inv, Freed
<1>2. TypeOK'
  BY <1>1, RuntimeLockAssumption DEF Inv, TypeOK, Mount, Freed, lockVars, pageVars, workVars
<1>3. LockBooks'
  BY RuntimeLockAssumption DEF Inv, TypeOK, LockBooks, Freed, lockVars, pageVars, workVars
<1>4. MountBooks'
  BY RuntimeLockAssumption DEF Inv, TypeOK, MountBooks, Mount, Freed, lockVars, pageVars, workVars
<1>5. ASSUME doubled' = {} PROVE OneFlowBooks'
  <2>1. doubled = {} /\ OneFlowBooks /\ TypeOK /\ MountBooks
    BY <1>5 DEF Inv, Freed
  <2>2. /\ UNCHANGED <<held, joined, phase, lockQ, mounted, mounts, writing>>
        /\ \A u \in Tab \ {t} : release'[u] = release[u]
        /\ release[t] = "joins" /\ <<t, joined[t]>> \notin writing
    BY <2>1 DEF TypeOK, Freed, Drained, pageVars, workVars
  <2>3. phase[t] # "open" /\ mounted[t] = 0
    BY <2>1, <2>2 DEF OneFlowBooks, Settledness, MountBooks
  <2>4. Settledness' /\ OneRunning' /\ FlowsWait'
    BY <1>1, <2>1, <2>2, <2>3 DEF OneFlowBooks, Settledness, OneRunning, FlowsWait
  <2>5. FlowsHold'
    BY <1>1, <2>1, <2>2 DEF OneFlowBooks, FlowsHold
  <2>6. WritersKnown'
    BY <2>1, <2>2, <2>3 DEF OneFlowBooks, WritersKnown
  <2> QED BY <2>4, <2>5, <2>6 DEF OneFlowBooks
<1> QED BY <1>2, <1>3, <1>4, <1>5 DEF Inv

(* A settled request leaves the tab without the lock.                          *)
LEMMA SettledInv == ASSUME Inv, NEW t \in Tab, Settled(t) PROVE Inv'
<1>1. flow' = flow /\ flow' \in [Tab -> [Slot -> Flow]]
  BY FlowTyped DEF Inv, Settled
<1>2. TypeOK'
  BY <1>1, RuntimeLockAssumption DEF Inv, TypeOK, Mount, Settled, lockVars, pageVars, workVars
<1>3. LockBooks'
  BY RuntimeLockAssumption DEF Inv, TypeOK, LockBooks, Settled, lockVars, pageVars, workVars
<1>4. MountBooks'
  BY RuntimeLockAssumption DEF Inv, TypeOK, MountBooks, Mount, Settled, lockVars, pageVars, workVars
<1>5. ASSUME doubled' = {} PROVE OneFlowBooks'
  <2>1. doubled = {} /\ OneFlowBooks /\ TypeOK /\ MountBooks
    BY <1>5 DEF Inv, Settled
  <2>2. /\ UNCHANGED <<phase, lockQ, mounted, mounts, writing>>
        /\ \A u \in Tab \ {t} : /\ release'[u] = release[u] /\ joined'[u] = joined[u]
                                /\ held'[u] = held[u]
        /\ release[t] = "freed"
    BY <2>1 DEF TypeOK, Settled, pageVars, workVars
  <2>3. phase[t] # "open" /\ mounted[t] = 0
    BY <2>1, <2>2 DEF OneFlowBooks, Settledness, MountBooks
  <2>4. Settledness' /\ OneRunning' /\ FlowsWait'
    BY <1>1, <2>1, <2>2, <2>3 DEF OneFlowBooks, Settledness, OneRunning, FlowsWait
  <2>5. FlowsHold'
    BY <1>1, <2>1, <2>2 DEF OneFlowBooks, FlowsHold
  <2>6. WritersKnown'
    BY <2>1, <2>2, <2>3 DEF OneFlowBooks, WritersKnown
  <2> QED BY <2>4, <2>5, <2>6 DEF OneFlowBooks
<1> QED BY <1>2, <1>3, <1>4, <1>5 DEF Inv

-----------------------------------------------------------------------------
(* Freshly loaded tabs hold nothing, write nothing and run no flow.             *)
LEMMA InitInv == Init => Inv
<1> SUFFICES ASSUME Init PROVE Inv
  OBVIOUS
<1>1. /\ \A v \in Nat : BootFlow(v) \in [Slot -> Flow]
      /\ \A v \in Nat, f \in Slot : ~Running(BootFlow(v)[f])
  BY FlowShapes DEF BootFlow
<1>2. VaultsAtStart \in Nat /\ phase = [t \in Tab |-> Screen(VaultsAtStart)]
  BY DEF Init, VaultsAtStart
<1>3. \A t \in Tab : phase[t] \in {"create", "unlock"}
  BY <1>2 DEF Screen
<1>4. flow \in [Tab -> [Slot -> Flow]] /\ \A t \in Tab, f \in Slot : ~Running(flow[t][f])
  BY <1>1, <1>2 DEF Init
<1>5. TypeOK
  <2>1. VaultsAtStart \in 0..MaxVaults /\ 0 \in Mount
    BY RuntimeLockAssumption DEF VaultsAtStart, Mount
  <2>2. phase \in [Tab -> {"create", "unlock", "open"}]
    BY <1>2, <1>3
  <2>3. owner \in Tab \cup {None} /\ writing \subseteq Tab \X Mount /\ doubled \subseteq Tab
    BY DEF Init
  <2>4. /\ held \in [Tab -> BOOLEAN] /\ release \in [Tab -> {"no", "joins", "freed"}]
        /\ visible \in [Tab -> BOOLEAN] /\ busy \in [Tab -> BOOLEAN]
        /\ reloading \in [Tab -> BOOLEAN]
    BY DEF Init
  <2>5. /\ joined \in [Tab -> Mount] /\ lockQ \in [Tab -> Mount]
        /\ mounted \in [Tab -> Mount] /\ mounts \in [Tab -> Mount]
    BY <2>1 DEF Init
  <2> QED BY <1>4, <2>1, <2>2, <2>3, <2>4, <2>5 DEF Init, TypeOK
<1>6. LockBooks /\ MountBooks
  BY <1>3, RuntimeLockAssumption DEF Init, LockBooks, MountBooks
<1>7. OneFlowBooks
  <2>1. writing = {}
    BY DEF Init
  <2>2. Settledness /\ OneRunning
    BY <1>3, <1>4 DEF Settledness, OneRunning, Slot
  <2>3. WritersKnown /\ FlowsWait
    BY <2>1 DEF WritersKnown, FlowsWait
  <2>4. FlowsHold
    BY <1>4 DEF FlowsHold, Running
  <2> QED BY <2>2, <2>3, <2>4 DEF OneFlowBooks
<1> QED BY <1>5, <1>6, <1>7 DEF Inv

(* Every step keeps the invariant.                                              *)
LEMMA NextInv == Inv /\ [Next]_vars => Inv'
<1> SUFFICES ASSUME Inv, [Next]_vars PROVE Inv'
  OBVIOUS
<1>1. ASSUME NEW t \in Tab, Begin(t) \/ AutoBegin(t) \/ Lock(t) \/ Lockdown(t) PROVE Inv'
  BY <1>1, BeginInv, AutoBeginInv, LockInv, LockdownInv
<1>2. ASSUME NEW t \in Tab, Reload(t) \/ Close(t) \/ Hide(t) \/ Show(t) PROVE Inv'
  BY <1>2, RebornInv, HideInv, ShowInv DEF Reload, Close
<1>3. ASSUME NEW t \in Tab, WriteBegins(t) \/ Freed(t) \/ Settled(t) PROVE Inv'
  BY <1>3, WriteBeginsInv, FreedInv, SettledInv
<1>4. ASSUME NEW t \in Tab, NEW f \in Slot, FlowStep(t, f) PROVE Inv'
  BY <1>4, JoinedInv, AuthenticatedInv, FailsInv, AcquireInv, CreateInv, CreateFailsInv,
     OpenInv, DiscardInv DEF FlowStep
<1>5. ASSUME NEW w \in writing, WriteEnds(w) PROVE Inv'
  BY <1>5, WriteEndsInv
<1>6. CASE UNCHANGED vars
  BY <1>6 DEF Inv, TypeOK, LockBooks, MountBooks, OneFlowBooks, Settledness, OneRunning,
      WritersKnown, FlowsWait, FlowsHold, vars, lockVars, pageVars, workVars
<1> QED BY <1>1, <1>2, <1>3, <1>4, <1>5, <1>6 DEF Next

(* The books of the Web Lock, the messengers and the flows agree in every       *)
(* reachable state, whatever the tabs do and in whatever order.                 *)
THEOREM RuntimeInvariant == Spec => []Inv
BY InitInv, NextInv, PTL DEF Spec

(* Every variable keeps its type.                                               *)
THEOREM TypeCorrect == Spec => []TypeOK
<1>1. Inv => TypeOK
  BY DEF Inv
<1> QED BY <1>1, RuntimeInvariant, PTL

(* Only the tab that owns the Web Lock mounts a messenger, and it keeps the     *)
(* lock while the messenger is mounted, unless a tab ran two flows at once.     *)
THEOREM LockHolderOnly == Spec => []HolderOnly
<1>1. Inv => HolderOnly
  BY DEF Inv, HolderOnly, LockBooks, MountBooks, OneFlowBooks, Settledness
<1> QED BY <1>1, RuntimeInvariant, PTL

(* Whoever writes, its tab owns the lock, and nobody else writes: a writer is   *)
(* its tab's latest messenger, mounted or waited for by a pending release.      *)
THEOREM OneWriter == Spec => []SingleWriter
<1>1. Inv => SingleWriter
  <2> SUFFICES ASSUME Inv, doubled = {} PROVE LockOutlivesWriters
    BY DEF SingleWriter
  <2>1. ASSUME NEW t \in Tab, NEW m \in Mount, <<t, m>> \in writing
        PROVE  owner = t /\ m = mounts[t]
    <3>1. /\ m = mounts[t] /\ m # 0
          /\ m = mounted[t] \/ release[t] = "joins"
      BY <2>1 DEF Inv, OneFlowBooks, WritersKnown
    <3>2. held[t] /\ release[t] # "freed"
      BY <3>1 DEF Inv, LockBooks, MountBooks, OneFlowBooks, Settledness
    <3> QED BY <3>1, <3>2 DEF Inv, LockBooks
  <2>2. ASSUME NEW w \in writing
        PROVE  /\ w = <<w[1], w[2]>> /\ w[1] \in Tab /\ w[2] \in Mount
               /\ owner = w[1] /\ w[2] = mounts[w[1]]
    <3>1. w = <<w[1], w[2]>> /\ w[1] \in Tab /\ w[2] \in Mount
      BY DEF Inv, TypeOK
    <3> QED BY <2>1, <3>1
  <2> QED BY <2>2 DEF LockOutlivesWriters
<1> QED BY <1>1, RuntimeInvariant, PTL

(* A flow past its first wait reads the vault, or takes the lock, beside no     *)
(* writer of its tab.                                                           *)
THEOREM UnlockAfterDrain == Spec => []ReadsAfterDrain
<1>1. Inv => ReadsAfterDrain
  BY DEF Inv, ReadsAfterDrain, OneFlowBooks, FlowsWait, Running
<1> QED BY <1>1, RuntimeInvariant, PTL
=============================================================================
