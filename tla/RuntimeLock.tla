------------------------------ MODULE RuntimeLock ------------------------------
(* Which tab may run the messenger.  Every tab of the origin runs App.tsx; the  *)
(* browser's Web Lock (lib/runtimeLock.ts) has at most one owner, and giving    *)
(* it up waits until the messenger that was unmounted is quiescent              *)
(* (lib/runtimeQuiesce.ts, Messenger.quiesceForUnmount).  In between lie the    *)
(* unlock flows, whose key derivation or biometric prompt may end after the     *)
(* page was hidden, locked down or opened by another flow.                      *)
(*                                                                              *)
(* A tab has two slots for flows: "user" is a submitted passphrase or a pressed *)
(* biometric button, "auto" the biometric prompt the unlock screen launches by  *)
(* itself.  React's commit of a state change and the effects it runs are part   *)
(* of the step that changes the state.  The switch between the real and the     *)
(* decoy account keeps phase, key and lock and is not modelled here.            *)
EXTENDS Naturals, FiniteSets

CONSTANTS
    Tab,         \* documents of the origin
    None,        \* the Web Lock has no owner
    AutoLaunch,  \* biometrics enrolled and no duress passphrase armed
    VaultAtStart,\* a vault header exists when the tabs are loaded
    MaxMounts,   \* bound: messengers a tab mounts
    MaxVaults    \* bound: vaults ever created

ASSUME RuntimeLockAssumption ==
    /\ None \notin Tab
    /\ AutoLaunch \in BOOLEAN /\ VaultAtStart \in BOOLEAN
    /\ MaxMounts \in Nat /\ MaxVaults \in Nat
    /\ VaultAtStart => MaxVaults > 0

VARIABLES
    owner,      \* the tab the browser granted the Web Lock to
    held,       \* lockHeld
    release,    \* "no", "joins" (releasePending), "freed": the callback has ended
    joined,     \* the messenger whose quiescence a pending release waits for
    phase,      \* App's phase
    visible,    \* document.visibilityState
    busy,       \* App's busy, as the latest render sees it
    reloading,  \* duressReloadingRef
    lockQ,      \* lockQuiescenceRef: the messenger that promise waits for
    flow,       \* unlock flows
    mounted,    \* the messenger that is mounted and active, 0 if none
    mounts,     \* messengers mounted so far; they are numbered from 1
    writing,    \* <<tab, messenger>> with a queue task or an operation in flight
    vault,      \* the vault header on disk: 0 for none, else the creation's number
    doubled     \* history: tabs in which two unlock flows ran at the same time

lockVars == <<owner, held, release, joined>>
pageVars == <<phase, visible, busy, reloading, lockQ>>
workVars == <<mounted, mounts, writing>>
vars == <<lockVars, pageVars, flow, workVars, vault, doubled>>

Slot == {"user", "auto"}
Mount == 0..MaxMounts
Stage == {"off", "policy", "quiesce", "auth", "acquire", "create", "timer"}
(* stale: lifecycleEpochRef moved on since the flow began.                      *)
(* fresh: the flow creates the vault, its phase was "create".                   *)
Flow == [at : Stage, stale : BOOLEAN, join : Mount, fresh : BOOLEAN]

TypeOK ==
    /\ owner \in Tab \cup {None}
    /\ held \in [Tab -> BOOLEAN]
    /\ release \in [Tab -> {"no", "joins", "freed"}]
    /\ joined \in [Tab -> Mount]
    /\ phase \in [Tab -> {"create", "unlock", "open"}]
    /\ visible \in [Tab -> BOOLEAN] /\ busy \in [Tab -> BOOLEAN]
    /\ reloading \in [Tab -> BOOLEAN]
    /\ lockQ \in [Tab -> Mount]
    /\ flow \in [Tab -> [Slot -> Flow]]
    /\ mounted \in [Tab -> Mount] /\ mounts \in [Tab -> Mount]
    /\ writing \subseteq Tab \X Mount
    /\ vault \in 0..MaxVaults
    /\ doubled \subseteq Tab

-----------------------------------------------------------------------------
Idle == [at |-> "off", stale |-> FALSE, join |-> 0, fresh |-> FALSE]
\* The effect that decides whether to launch the biometric prompt has begun.
Policy == [at |-> "policy", stale |-> FALSE, join |-> 0, fresh |-> FALSE]
\* What the unlock screen's effect leaves in slot "auto" when a tab enters it.
Entered(seen) == IF AutoLaunch /\ seen THEN Policy ELSE Idle

\* Faulty variants: no promise is captured; one that has resolved already is.
StartedUnbound(join, fresh) == [at |-> "quiesce", stale |-> FALSE, join |-> None, fresh |-> fresh]
StartedAtOnce(join, fresh) == [at |-> "quiesce", stale |-> FALSE, join |-> 0, fresh |-> fresh]
Started(join, fresh) == [at |-> "quiesce", stale |-> FALSE, join |-> join, fresh |-> fresh]
Running(x) == x.at \notin {"off", "policy"}

\* Faulty variant: the promise resolves at once.
DrainedAtOnce(t, m) == TRUE
\* A messenger's quiescence promise has resolved.
Drained(t, m) == <<t, m>> \notin writing

Moved(x, stage) == [x EXCEPT !.at = stage]
At(t, f, stage) == [flow EXCEPT ![t][f] = Moved(@, stage)]
Stale(x) == [x EXCEPT !.stale = (x.at # "off")]

\* releaseVaultRuntimeLockAfter(the quiescence of m): nothing if none is held.
Releasable(t) == held[t] /\ release[t] = "no"
ReleaseAfter(t, m) ==
    /\ release' = [release EXCEPT ![t] = IF Releasable(t) THEN "joins" ELSE @]
    /\ joined' = [joined EXCEPT ![t] = IF Releasable(t) THEN m ELSE @]

-----------------------------------------------------------------------------
(* Booting found a header or none; the unlock screen's effect runs.             *)
Screen(v) == IF v = 0 THEN "create" ELSE "unlock"
BootFlow(v) == [f \in Slot |-> IF f = "auto" /\ v # 0 THEN Entered(TRUE) ELSE Idle]
VaultsAtStart == IF VaultAtStart THEN 1 ELSE 0

Init ==
    /\ owner = None
    /\ held = [t \in Tab |-> FALSE]
    /\ release = [t \in Tab |-> "no"]
    /\ joined = [t \in Tab |-> 0]
    /\ phase = [t \in Tab |-> Screen(VaultsAtStart)]
    /\ visible = [t \in Tab |-> TRUE]
    /\ busy = [t \in Tab |-> FALSE]
    /\ reloading = [t \in Tab |-> FALSE]
    /\ lockQ = [t \in Tab |-> 0]
    /\ flow = [t \in Tab |-> BootFlow(VaultsAtStart)]
    /\ mounted = [t \in Tab |-> 0]
    /\ mounts = [t \in Tab |-> 0]
    /\ writing = {}
    /\ vault = VaultsAtStart
    /\ doubled = {}

(* submit(), or the biometric button: both refuse while busy.                   *)
Begin(t) ==
    /\ phase[t] # "open" /\ visible[t] /\ ~busy[t]
    /\ flow[t]["user"].at = "off"
    /\ flow' = [flow EXCEPT ![t]["user"] = Started(lockQ[t], phase[t] = "create")]
    /\ busy' = [busy EXCEPT ![t] = TRUE]
    /\ doubled' = IF Running(flow[t]["auto"]) THEN doubled \cup {t} ELSE doubled
    /\ UNCHANGED <<lockVars, phase, visible, reloading, lockQ, workVars, vault>>

(* The unlock screen's effect, after the quiescence and the policy reads: it    *)
(* calls the unlockBiometric of the render it belongs to, whose busy is FALSE.  *)
AutoBegin(t) ==
    /\ flow[t]["auto"].at = "policy" /\ Drained(t, lockQ[t])
    /\ IF flow[t]["auto"].stale
       THEN flow' = [flow EXCEPT ![t]["auto"] = Idle] /\ UNCHANGED <<busy, doubled>>
       ELSE /\ flow' = [flow EXCEPT ![t]["auto"] = Started(lockQ[t], FALSE)]
            /\ busy' = [busy EXCEPT ![t] = TRUE]
            /\ doubled' = IF Running(flow[t]["user"]) THEN doubled \cup {t} ELSE doubled
    /\ UNCHANGED <<lockVars, phase, visible, reloading, lockQ, workVars, vault>>

(* await lockQuiescenceRef.current, as it was when the flow began.              *)
Joined(t, f) ==
    /\ flow[t][f].at = "quiesce" /\ Drained(t, flow[t][f].join)
    /\ flow' = [flow EXCEPT ![t][f] =
         [Moved(@, IF @.fresh THEN "acquire" ELSE "auth") EXCEPT !.join = 0]]
    /\ UNCHANGED <<lockVars, pageVars, workVars, vault, doubled>>

(* unlockBoundVault or unlockWithBiometric returns the key.                     *)
Authenticated(t, f) ==
    /\ flow[t][f].at = "auth"
    /\ flow' = At(t, f, "acquire")
    /\ UNCHANGED <<lockVars, pageVars, workVars, vault, doubled>>

\* Both of them may throw instead, and so may acquireRuntimeLockForOpen's wait.
Fails(t, f) ==
    /\ \/ flow[t][f].at = "auth"
       \/ flow[t][f].at = "acquire" /\ owner \notin {t, None}
    /\ flow' = [flow EXCEPT ![t][f] = Idle]
    /\ busy' = [busy EXCEPT ![t] = FALSE]
    /\ UNCHANGED <<lockVars, phase, visible, reloading, lockQ, workVars, vault, doubled>>

\* Faulty variant: an ownership about to end is taken for a live one.
MayAcquireDying(t) == held[t] \/ owner = None
\* acquire() has an answer: the tab holds the lock already, or nobody does.
MayAcquire(t) == release[t] = "no" /\ (held[t] \/ owner = None)

(* acquire() resolves to true, and openWith finds the lock held.                *)
Acquire(t, f) ==
    /\ flow[t][f].at = "acquire" /\ MayAcquire(t)
    /\ owner' = t
    /\ held' = [held EXCEPT ![t] = TRUE]
    /\ flow' = At(t, f, IF flow[t][f].fresh THEN "create" ELSE "timer")
    /\ UNCHANGED <<release, joined, pageVars, workVars, vault, doubled>>

(* createBoundVault: saveHeader puts the new header whatever is stored.         *)
Create(t, f) ==
    /\ flow[t][f].at = "create" /\ vault < MaxVaults
    /\ vault' = vault + 1
    /\ flow' = At(t, f, "timer")
    /\ UNCHANGED <<lockVars, pageVars, workVars, doubled>>

CreateFails(t, f) ==
    /\ flow[t][f].at = "create"
    /\ flow' = [flow EXCEPT ![t][f] = Idle]
    /\ busy' = [busy EXCEPT ![t] = FALSE]
    /\ ReleaseAfter(t, 0)
    /\ UNCHANGED <<owner, held, phase, visible, reloading, lockQ, workVars, vault, doubled>>

-----------------------------------------------------------------------------
(* openWith's timer, the page unchanged since the flow began: the messenger     *)
(* mounts.  One that another flow has mounted keeps running under the new key.  *)
Open(t, f) ==
    /\ flow[t][f].at = "timer" /\ visible[t] /\ ~flow[t][f].stale
    /\ mounts[t] < MaxMounts
    /\ mounts' = [mounts EXCEPT ![t] = IF mounted[t] = 0 THEN @ + 1 ELSE @]
    /\ mounted' = [mounted EXCEPT ![t] = mounts'[t]]
    /\ phase' = [phase EXCEPT ![t] = "open"]
    /\ busy' = [busy EXCEPT ![t] = FALSE]
    /\ flow' = [flow EXCEPT ![t] =
         [g \in Slot |-> IF g = f \/ ~Running(@[g]) THEN Idle ELSE @[g]]]
    /\ UNCHANGED <<lockVars, visible, reloading, lockQ, writing, vault, doubled>>

\* The flows of a tab that comes to its unlock screen.
FlowsAtScreen(t) ==
    [f \in Slot |-> IF Running(flow[t][f])
                   THEN IF visible[t] THEN flow[t][f] ELSE Stale(flow[t][f])
                   ELSE IF f = "auto" THEN Entered(visible[t]) ELSE Idle]

(* openWith's timer, the page hidden now or in between: the key is dropped and  *)
(* the lock released without waiting for anything.                              *)
Discard(t, f) ==
    /\ flow[t][f].at = "timer" /\ (~visible[t] \/ flow[t][f].stale)
    /\ mounted' = [mounted EXCEPT ![t] = 0]
    /\ phase' = [phase EXCEPT ![t] = "unlock"]
    /\ busy' = [busy EXCEPT ![t] = FALSE]
    /\ ReleaseAfter(t, 0)
    /\ flow' = [flow EXCEPT ![t] =
         [g \in Slot |->
            IF g # f THEN IF phase[t] = "unlock" THEN @[g] ELSE FlowsAtScreen(t)[g]
            ELSE IF g = "auto" /\ phase[t] # "unlock" THEN Entered(visible[t]) ELSE Idle]]
    /\ UNCHANGED <<owner, held, visible, reloading, lockQ, mounts, writing, vault, doubled>>

(* lock(), from an open messenger: by hand, idle, or in the background.         *)
Lock(t) ==
    /\ phase[t] = "open"
    /\ lockQ' = [lockQ EXCEPT ![t] = mounted[t]]
    /\ mounted' = [mounted EXCEPT ![t] = 0]
    /\ phase' = [phase EXCEPT ![t] = "unlock"]
    /\ busy' = [busy EXCEPT ![t] = FALSE]
    /\ ReleaseAfter(t, mounted[t])
    /\ flow' = [flow EXCEPT ![t] = FlowsAtScreen(t)]
    /\ UNCHANGED <<owner, held, visible, reloading, mounts, writing, vault, doubled>>

(* A sibling tab's duress promotion: lockdown(), in any phase.  The quiescer    *)
(* that lock() finds is the last messenger's, registered until it has drained.  *)
Lockdown(t) ==
    /\ ~reloading[t]
    /\ reloading' = [reloading EXCEPT ![t] = TRUE]
    /\ lockQ' = [lockQ EXCEPT ![t] = mounts[t]]
    /\ mounted' = [mounted EXCEPT ![t] = 0]
    /\ phase' = [phase EXCEPT ![t] = "unlock"]
    /\ busy' = [busy EXCEPT ![t] = FALSE]
    /\ IF phase[t] = "unlock" THEN UNCHANGED <<release, joined>> ELSE ReleaseAfter(t, mounts[t])
    /\ flow' = [flow EXCEPT ![t] = [f \in Slot |-> Stale(@[f])]]
    /\ UNCHANGED <<owner, held, visible, mounts, writing, vault, doubled>>

\* The document is gone, and the browser frees what it held; it is loaded again.
Reborn(t) ==
    /\ owner' = IF owner = t THEN None ELSE owner
    /\ held' = [held EXCEPT ![t] = FALSE]
    /\ release' = [release EXCEPT ![t] = "no"]
    /\ joined' = [joined EXCEPT ![t] = 0]
    /\ phase' = [phase EXCEPT ![t] = Screen(vault)]
    /\ visible' = [visible EXCEPT ![t] = TRUE]
    /\ busy' = [busy EXCEPT ![t] = FALSE]
    /\ reloading' = [reloading EXCEPT ![t] = FALSE]
    /\ lockQ' = [lockQ EXCEPT ![t] = 0]
    /\ flow' = [flow EXCEPT ![t] = BootFlow(vault)]
    /\ mounted' = [mounted EXCEPT ![t] = 0]
    /\ writing' = {w \in writing : w[1] # t}
    /\ UNCHANGED <<mounts, vault, doubled>>

(* lockdown()'s reload, after the quiescence it waits for.                      *)
Reload(t) == reloading[t] /\ Drained(t, lockQ[t]) /\ Reborn(t)

(* The user closes or reloads the tab, or the browser kills it.                 *)
Close(t) == Reborn(t)

-----------------------------------------------------------------------------
(* visibilitychange to hidden, freeze, pagehide.  An open messenger is not      *)
(* locked at once, and its page's epoch does not move.                          *)
Hide(t) ==
    /\ visible[t]
    /\ visible' = [visible EXCEPT ![t] = FALSE]
    /\ flow' = IF phase[t] = "open" THEN flow
               ELSE [flow EXCEPT ![t] = [f \in Slot |-> Stale(@[f])]]
    /\ UNCHANGED <<lockVars, phase, busy, reloading, lockQ, workVars, vault, doubled>>

Show(t) ==
    /\ ~visible[t]
    /\ visible' = [visible EXCEPT ![t] = TRUE]
    /\ UNCHANGED <<lockVars, phase, busy, reloading, lockQ, flow, workVars, vault, doubled>>

(* A queue task, a tracked operation or the boot task of the active messenger.  *)
WriteBegins(t) ==
    /\ mounted[t] # 0
    /\ writing' = writing \cup {<<t, mounted[t]>>}
    /\ UNCHANGED <<lockVars, pageVars, flow, mounted, mounts, vault, doubled>>

WriteEnds(w) ==
    /\ writing' = writing \ {w}
    /\ UNCHANGED <<lockVars, pageVars, flow, mounted, mounts, vault, doubled>>

(* The quiescence a release waits for is over: the lock callback returns.       *)
Freed(t) ==
    /\ release[t] = "joins" /\ Drained(t, joined[t])
    /\ release' = [release EXCEPT ![t] = "freed"]
    /\ owner' = None
    /\ UNCHANGED <<held, joined, pageVars, flow, workVars, vault, doubled>>

(* The request's promise settles: only now may the tab ask again.               *)
Settled(t) ==
    /\ release[t] = "freed"
    /\ release' = [release EXCEPT ![t] = "no"]
    /\ held' = [held EXCEPT ![t] = FALSE]
    /\ joined' = [joined EXCEPT ![t] = 0]
    /\ UNCHANGED <<owner, pageVars, flow, workVars, vault, doubled>>

FlowStep(t, f) ==
    \/ Joined(t, f) \/ Authenticated(t, f) \/ Fails(t, f) \/ Acquire(t, f)
    \/ Create(t, f) \/ CreateFails(t, f) \/ Open(t, f) \/ Discard(t, f)

Next ==
    \/ \E t \in Tab : \/ Begin(t) \/ AutoBegin(t) \/ Lock(t) \/ Lockdown(t)
                      \/ Reload(t) \/ Close(t) \/ Hide(t) \/ Show(t)
                      \/ WriteBegins(t) \/ Freed(t) \/ Settled(t)
                      \/ \E f \in Slot : FlowStep(t, f)
    \/ \E w \in writing : WriteEnds(w)

Spec == Init /\ [][Next]_vars

-----------------------------------------------------------------------------
(* Only the holder of the Web Lock mounts a messenger, and while one is mounted *)
(* the lock is not about to go (lib/runtimeLock.ts:9-11), in every history in   *)
(* which no tab ran two unlock flows at once.                                   *)
HolderOnly ==
    doubled = {} => \A t \in Tab : mounted[t] # 0 => owner = t /\ release[t] = "no"

(* Whoever still writes, its tab owns the lock, and nobody else writes.         *)
LockOutlivesWriters ==
    \A w \in writing : owner = w[1] /\ (\A x \in writing : x = w)

(* At most one messenger of the whole origin, mounted or on its way out, has a  *)
(* task in flight, and the lock is not given up before that task has ended: two *)
(* writers of one ratchet chain would use a message key twice.                  *)
SingleWriter == doubled = {} => LockOutlivesWriters

(* No unlock reads the vault or takes the lock while the messenger the tab has  *)
(* just left is still writing (App.submit awaits lockQuiescenceRef first).      *)
ReadsAfterDrain ==
    doubled = {} =>
        \A t \in Tab, f \in Slot :
            flow[t][f].at \in {"auth", "acquire", "create", "timer"}
                => \A m \in Mount : <<t, m>> \notin writing

(* The tabs of a browser profile share one vault (README.md:141): one that is   *)
(* there is never replaced by a new one.                                        *)
OneVault == [][vault # 0 => vault' = vault]_vars
=============================================================================
