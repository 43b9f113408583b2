---------------------------- MODULE AccountStore ----------------------------
(***************************************************************************)
(* The account's IndexedDB as the tabs of one browser share it             *)
(* (src/src/lib/db.ts), and the restore of a backup that replaces all its  *)
(* records (src/src/lib/backup.ts).                                        *)
(*                                                                         *)
(* Durable and shared: the account's generation, the restore lease, the    *)
(* promotion fence, the invisible restore stage and the live records.  Per *)
(* tab, in memory only: the generation it observed when it opened the      *)
(* database, the token of its own restore and the latch that refuses       *)
(* writes.  One IndexedDB transaction is one step.  An ordinary write is   *)
(* two: the check of the latch, then its transaction, with anything in     *)
(* between.  A tab may be reloaded or die at any step; a broadcast comes   *)
(* late, out of order or never.                                            *)
(***************************************************************************)
EXTENDS Naturals, FiniteSets

CONSTANTS
    Tab,          \* the tabs of the origin
    Pieces,       \* records of a backup; the first one staged is `identity`
    Lease,        \* ACCOUNT_RESTORE_LEASE_MS, in ticks
    MaxTime,      \* bound on the clock
    MaxGen,       \* bound on account generations
    MaxRestores,  \* bound on restores begun
    MaxWrites     \* bound on ordinary writes

ASSUME SizesAssumption ==
    /\ Pieces \in Nat \ {0}
    /\ Lease \in Nat \ {0}
    /\ MaxGen \in Nat \ {0}
    /\ {MaxTime, MaxRestores, MaxWrites} \subseteq Nat

VARIABLES
    gen,       \* ACCOUNT_GENERATION_KEY; 0: no tab has opened the database yet
    lock,      \* ACCOUNT_RESTORE_LOCK_KEY: [token, expiresAt], token 0: absent
    fence,     \* ACCOUNT_PROMOTION_FENCE_KEY is present
    stage,     \* the `restore` store: <<stage id, number of the record>>
    records,   \* the `records` store: what writes and what restores put there
    observed,  \* observedAccountGeneration of each tab; 0: null
    blocked,   \* accountWritesBlocked
    token,     \* activeRestoreToken; 0: null
    write,     \* the write a tab has under way: past its latch check
    restore,   \* where commitStagedRestore stands in each tab
    leaving,   \* tabs whose reload is queued
    net,       \* broadcasts on their way to each tab
    now,       \* Date.now()
    restores,  \* restores begun: the source of fresh tokens
    writes,    \* writes issued
    loaded,    \* history: the generation whose account a tab has in memory
    lapsed     \* history: the restores whose lease has run out

durable == <<gen, lock, fence, stage, records>>
ram     == <<observed, blocked, token, loaded>>
flow    == <<write, restore, leaving, net>>
clocks  == <<now, restores, writes, lapsed>>
vars    == <<durable, ram, flow, clocks>>

NoLock     == [token |-> 0, expiresAt |-> 0]
NoWrite    == [id |-> 0, gen |-> 0]
NoRestore  == [pc |-> "idle", id |-> 0, staged |-> 0, base |-> {}]
Identity   == 1
Written    == [kind : {"write"}, id : 1 .. MaxWrites, of : 1 .. MaxGen]
Restored   == [kind : {"piece"}, id : 1 .. MaxRestores, of : 1 .. Pieces]
RestoreRun == [pc : {"idle", "staging", "failed", "discarded", "done"},
               id : 0 .. MaxRestores, staged : 0 .. Pieces,
               base : SUBSET (Written \cup Restored)]
Message    == [type : {"restore-cancel", "generation"}, gen : 0 .. MaxGen]

Init ==
    /\ gen = 0 /\ lock = NoLock /\ fence = FALSE
    /\ stage = {} /\ records = {}
    /\ observed = [t \in Tab |-> 0]
    /\ blocked = [t \in Tab |-> FALSE]
    /\ token = [t \in Tab |-> 0]
    /\ loaded = [t \in Tab |-> 0]
    /\ write = [t \in Tab |-> NoWrite]
    /\ restore = [t \in Tab |-> NoRestore]
    /\ leaving = {}
    /\ net = [t \in Tab |-> {}]
    /\ now = 0 /\ restores = 0 /\ writes = 0 /\ lapsed = {}

-----------------------------------------------------------------------------
\* restoreLockBlocks: an expired lease binds only a tab that runs a restore
\* itself, a live one every tab but its owner, and an absent one nobody.
RestoreLockBlocks(t) ==
    /\ lock # NoLock
    /\ IF lock.expiresAt <= now THEN token[t] # 0 ELSE lock.token # token[t]

\* Mutant: the latch forgets the promotion fence.
SupersededUnfenced(t) == observed[t] # gen

\* The two reasons that are permanent for the tab, and that it therefore latches.
Superseded(t) == observed[t] # gen \/ fence

\* Mutant: the lease is not looked at.
MayMutateUnleased(t) == ~Superseded(t)

\* assertCurrentGeneration, evaluated inside the transaction it protects.
MayMutate(t) == ~Superseded(t) /\ ~RestoreLockBlocks(t)

\* Mutant: a foreign lease latches the tab as well.
RefuseLatching(t) == blocked' = [blocked EXCEPT ![t] = TRUE]

\* What a transaction that was refused leaves behind in its tab.
Refuse(t) == blocked' = [blocked EXCEPT ![t] = @ \/ Superseded(t)]

FreshLock(id) == [token |-> id, expiresAt |-> now + Lease]

StageOf(id) == {s \in stage : s[1] = id}

\* BroadcastChannel: every other tab's page may get the message.
Broadcast(t, m) ==
    net' = [u \in Tab |-> IF u = t THEN net[u] ELSE net[u] \cup {m}]

Goto(t, pc) == restore' = [restore EXCEPT ![t].pc = pc]

-----------------------------------------------------------------------------
\* The first db() of a page adopts the stored generation, or creates it, and
\* discards a stage whose lease has expired.
OpenDb(t) ==
    /\ observed[t] = 0
    /\ gen' = IF gen = 0 THEN 1 ELSE gen
    /\ IF lock # NoLock /\ lock.expiresAt <= now
         THEN lock' = NoLock /\ stage' = {}
         ELSE UNCHANGED <<lock, stage>>
    /\ observed' = [observed EXCEPT ![t] = gen']
    /\ loaded' = [loaded EXCEPT ![t] = gen']
    /\ UNCHANGED <<fence, records, blocked, token, flow, clocks>>

\* Mutant: a finished import does not keep the Messenger suspended.
CanIssueUnsuspended(t) == ~blocked[t]

\* An import suspends the Messenger before it begins; only a failed one
\* resumes it.  ensureWritable then refuses a latched tab.
CanIssue(t) == restore[t].pc = "idle" /\ ~blocked[t]

\* saveRecord and its siblings up to their transaction.
IssueWrite(t) ==
    /\ observed[t] # 0 /\ write[t] = NoWrite /\ writes < MaxWrites
    /\ CanIssue(t)
    /\ writes' = writes + 1
    /\ write' = [write EXCEPT ![t] = [id |-> writes + 1, gen |-> loaded[t]]]
    /\ UNCHANGED <<durable, ram, restore, leaving, net, now, restores, lapsed>>

\* The transaction of a write: the check and the put are one.
WriteTx(t) ==
    /\ write[t] # NoWrite
    /\ IF MayMutate(t)
         THEN /\ records' = records \cup
                   {[kind |-> "write", id |-> write[t].id, of |-> write[t].gen]}
              /\ UNCHANGED blocked
         ELSE Refuse(t) /\ UNCHANGED records
    /\ write' = [write EXCEPT ![t] = NoWrite]
    /\ UNCHANGED <<gen, lock, fence, stage, observed, token, loaded,
                   restore, leaving, net, clocks>>

\* beginAccountRestore, after suspendForRestore has drained the tab's writers.
BeginAccountRestore(t) ==
    /\ observed[t] # 0 /\ write[t] = NoWrite /\ restores < MaxRestores
    /\ CanIssue(t)
    /\ IF MayMutate(t)
         THEN LET id == restores + 1 IN
              /\ stage' = {}
              /\ lock' = FreshLock(id)
              /\ restores' = id
              /\ token' = [token EXCEPT ![t] = id]
              /\ blocked' = [blocked EXCEPT ![t] = TRUE]
              /\ restore' = [restore EXCEPT ![t] =
                   [pc |-> "staging", id |-> id, staged |-> 0, base |-> records]]
         ELSE Refuse(t) /\ UNCHANGED <<stage, lock, restores, token, restore>>
    /\ UNCHANGED <<gen, fence, records, observed, loaded,
                   write, leaving, net, now, writes, lapsed>>

\* Mutant: one record too many.
MoreOffByOne(t) == restore[t].staged <= Pieces

\* The backup has a record that is not staged yet.
More(t) == restore[t].staged < Pieces

\* stageRestoreRecord: every staged record renews the lease.
StageRestoreRecord(t) ==
    LET r == restore[t] IN
    /\ r.pc = "staging" /\ More(t)
    /\ IF MayMutate(t)
         THEN /\ stage' = stage \cup {<<r.id, r.staged + 1>>}
              /\ lock' = FreshLock(token[t])
              /\ restore' = [restore EXCEPT ![t].staged = @ + 1]
              /\ UNCHANGED blocked
         ELSE Refuse(t) /\ Goto(t, "failed") /\ UNCHANGED <<stage, lock>>
    /\ UNCHANGED <<gen, fence, records, observed, token, loaded,
                   write, leaving, net, clocks>>

\* Mutant: the identity is not asked for.
StageClaimed(t) == lock.token = restore[t].id

\* What commitRestoreStage requires besides MayMutate.
StageComplete(t) ==
    lock.token = restore[t].id /\ <<restore[t].id, Identity>> \in stage

\* commitRestoreStage: the records, the generation and the lease change in one
\* transaction, and the other tabs are told to reload.
CommitRestoreStage(t) ==
    LET id == restore[t].id IN
    /\ restore[t].pc = "staging" /\ ~More(t)
    /\ gen < MaxGen
    /\ IF MayMutate(t) /\ StageComplete(t)
         THEN /\ records' = {[kind |-> "piece", id |-> id, of |-> s[2]] :
                               s \in StageOf(id)}
              /\ stage' = stage \ StageOf(id)
              /\ gen' = gen + 1
              /\ lock' = NoLock
              /\ observed' = [observed EXCEPT ![t] = gen']
              /\ token' = [token EXCEPT ![t] = 0]
              /\ Broadcast(t, [type |-> "generation", gen |-> gen'])
              /\ Goto(t, "done")
              /\ UNCHANGED blocked
         ELSE /\ Refuse(t) /\ Goto(t, "failed")
              /\ UNCHANGED <<records, stage, gen, lock, observed, token, net>>
    /\ UNCHANGED <<fence, loaded, write, leaving, clocks>>

\* A lock or an account switch aborts the import, or the file is bad.
AbortImport(t) ==
    /\ restore[t].pc = "staging"
    /\ Goto(t, "failed")
    /\ UNCHANGED <<durable, ram, write, leaving, net, clocks>>

\* discardRestoreStage, whose own failure is swallowed.
DiscardRestoreStage(t) ==
    /\ restore[t].pc = "failed"
    /\ stage' \in {stage, stage \ StageOf(restore[t].id)}
    /\ Goto(t, "discarded")
    /\ UNCHANGED <<gen, lock, fence, records, ram, write, leaving, net, clocks>>

\* cancelAccountRestore: release the lease if it is still ours, reopen writes.
CancelAccountRestore(t) ==
    /\ restore[t].pc = "discarded"
    /\ IF lock.token = token[t]
         THEN lock' = NoLock /\ stage' = {}
         ELSE UNCHANGED <<lock, stage>>
    /\ token' = [token EXCEPT ![t] = 0]
    /\ blocked' = [blocked EXCEPT ![t] = FALSE]
    /\ Broadcast(t, [type |-> "restore-cancel", gen |-> 0])
    /\ restore' = [restore EXCEPT ![t] = NoRestore]
    /\ UNCHANGED <<gen, fence, records, observed, loaded, write, leaving, clocks>>

-----------------------------------------------------------------------------
\* generationChannel.onmessage; it ignores restore-start, which is not modelled.
ReceiveCancel(t) ==
    \E m \in net[t] :
        /\ m.type = "restore-cancel"
        /\ net' = [net EXCEPT ![t] = @ \ {m}]
        /\ blocked' = [blocked EXCEPT ![t] = @ /\ token[t] # 0]
        /\ UNCHANGED <<durable, observed, token, loaded,
                       write, restore, leaving, clocks>>

ReceiveGeneration(t) ==
    \E m \in net[t] :
        /\ m.type = "generation"
        /\ net' = [net EXCEPT ![t] = @ \ {m}]
        /\ IF observed[t] \in {0, m.gen}
             THEN UNCHANGED <<blocked, leaving>>
             ELSE /\ blocked' = [blocked EXCEPT ![t] = TRUE]
                  /\ leaving' = leaving \cup {t}
        /\ UNCHANGED <<durable, observed, token, loaded, write, restore, clocks>>

\* A reload, or a crash and a new page: all that was in memory is gone.
Reload(t) ==
    /\ observed[t] # 0
    /\ observed' = [observed EXCEPT ![t] = 0]
    /\ loaded' = [loaded EXCEPT ![t] = 0]
    /\ blocked' = [blocked EXCEPT ![t] = FALSE]
    /\ token' = [token EXCEPT ![t] = 0]
    /\ write' = [write EXCEPT ![t] = NoWrite]
    /\ restore' = [restore EXCEPT ![t] = NoRestore]
    /\ leaving' = leaving \ {t}
    /\ net' = [net EXCEPT ![t] = {}]
    /\ UNCHANGED <<durable, clocks>>

\* fenceVaultDbWrites: the decoy's promotion is about to copy this database.
FenceVaultDbWrites ==
    /\ gen # 0 /\ ~fence
    /\ fence' = TRUE
    /\ UNCHANGED <<gen, lock, stage, records, ram, flow, clocks>>

\* neutralizeVaultDb: everything is cleared, a fresh generation remains.
NeutralizeVaultDb ==
    /\ gen \in 1 .. MaxGen - 1
    /\ gen' = gen + 1
    /\ lock' = NoLock /\ fence' = FALSE /\ stage' = {} /\ records' = {}
    /\ UNCHANGED <<ram, flow, clocks>>

Tick ==
    /\ now < MaxTime
    /\ now' = now + 1
    /\ lapsed' = lapsed \cup
         {id \in {lock.token} \ {0} : lock.expiresAt <= now + 1}
    /\ UNCHANGED <<durable, ram, flow, restores, writes>>

Next ==
    \/ \E t \in Tab :
         \/ OpenDb(t) \/ Reload(t)
         \/ IssueWrite(t) \/ WriteTx(t)
         \/ BeginAccountRestore(t) \/ StageRestoreRecord(t)
         \/ CommitRestoreStage(t) \/ AbortImport(t)
         \/ DiscardRestoreStage(t) \/ CancelAccountRestore(t)
         \/ ReceiveCancel(t) \/ ReceiveGeneration(t)
    \/ FenceVaultDbWrites \/ NeutralizeVaultDb
    \/ Tick

Spec == Init /\ [][Next]_vars

-----------------------------------------------------------------------------
\* Type correctness.
TypeOK ==
    /\ gen \in 0 .. MaxGen /\ fence \in BOOLEAN
    /\ lock \in [token : 0 .. MaxRestores, expiresAt : 0 .. MaxTime + Lease]
    /\ stage \subseteq (1 .. MaxRestores) \X (1 .. Pieces)
    /\ records \subseteq Written \cup Restored
    /\ observed \in [Tab -> 0 .. MaxGen] /\ loaded \in [Tab -> 0 .. MaxGen]
    /\ blocked \in [Tab -> BOOLEAN]
    /\ token \in [Tab -> 0 .. MaxRestores]
    /\ write \in [Tab -> [id : 0 .. MaxWrites, gen : 0 .. MaxGen]]
    /\ restore \in [Tab -> RestoreRun]
    /\ leaving \subseteq Tab
    /\ net \in [Tab -> SUBSET Message]
    /\ now \in 0 .. MaxTime /\ restores \in 0 .. MaxRestores
    /\ writes \in 0 .. MaxWrites /\ lapsed \subseteq 1 .. MaxRestores

\* Every live record written by a tab was composed from the account that is
\* live: neither a tab that slept through a restore or a wipe, nor the tab that
\* ran the restore and has not reloaded yet, puts old state into the new account.
OneGeneration ==
    \A r \in records : r.kind = "write" => r.of = gen

\* A restored account is the whole backup or none of it, although another tab
\* may discard the stage under the owner and the owner then stages the rest.
RestoreWhole ==
    \A r \in records : r.kind = "piece" =>
        \A k \in 1 .. Pieces : [kind |-> "piece", id |-> r.id, of |-> k] \in records

\* Together: the records are those of one account, and all of them.
RecordsAgree == OneGeneration /\ RestoreWhole

\* A write that landed while a restore ran is not thrown away by its commit.
LosesNoWrite(t) ==
    restore[t].pc = "staging" /\ restore'[t].pc = "done" =>
        {r \in records : r.kind = "write"} \subseteq restore[t].base

\* As long as its lease has not run out, a restore loses no write of any tab.
LeaseExcludesWriters ==
    [][\A t \in Tab : restore[t].id \notin lapsed => LosesNoWrite(t)]_vars

\* A restore whose lease ran out must not commit over what came in between
\* (the comment of restoreLockBlocks: the owner fails closed).
ExpiredOwnerFailsClosed ==
    [][\A t \in Tab : LosesNoWrite(t)]_vars

\* The copy a promotion makes of a fenced database is one snapshot: the records
\* stand still until the database is cleared, whatever was already under way.
FencedRecordsStand ==
    [][fence /\ fence' => records' = records]_vars

\* A crashed restore bricks nobody: a tab is latched only while its own restore
\* runs, when its account was replaced or fenced, or when it is about to reload.
LatchIsPermanentOnlyIfStale ==
    \A t \in Tab : blocked[t] =>
        \/ token[t] # 0 \/ restore[t].pc = "done" \/ t \in leaving
        \/ Superseded(t)
=============================================================================
