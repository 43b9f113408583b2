---------------------------- MODULE DuressVault -----------------------------
(***************************************************************************)
(* The duress passphrase and its decoy account                             *)
(* (src/src/lib/vaultService.ts, wipe.ts, db.ts, App.tsx).                 *)
(*                                                                         *)
(* Two IndexedDB databases of one origin, `scytale' (the canonical         *)
(* account) and `scytale-decoy', and two journals in localStorage, one of  *)
(* a promotion and one of a removal.  Tabs arm, fill, remove and fire;     *)
(* every such mutation holds the mutation lease.  A step is one            *)
(* transaction or one stretch of code between two awaits; a tab may die    *)
(* before any of them, and the next boot takes up the journals.            *)
(*                                                                         *)
(* A vault's immutable envelope is a number (its witness): 0 is the        *)
(* account the device starts with, every arming takes the next.  A         *)
(* promotion's fence token is drawn with its journal, once for an          *)
(* envelope, so the envelope stands for it.                                *)
(***************************************************************************)
EXTENDS Naturals, FiniteSets

CONSTANTS
    Tab,       \* the tabs of the origin
    MaxArm,    \* bound on armings
    MaxWrite,  \* bound on writes to one account
    MaxCrash,  \* bound on tabs that die
    MaxLost,   \* bound on header updates that fail (five lost swaps)
    Timely,    \* the lease of a tab that lives never lapses
    Prompt,    \* a lock screen has the event of a promotion before its user
               \* can open what the promotion has copied so far
    None, Garbage

ASSUME DuressAssumption ==
    /\ {MaxArm, MaxWrite, MaxCrash, MaxLost} \subseteq Nat
    /\ {Timely, Prompt} \subseteq BOOLEAN
    /\ None \notin Nat \cup Tab \cup [env : Nat, ver : Nat]
    /\ Garbage \notin Nat \cup {None}

VARIABLES
    real,      \* database `scytale': header envelope, records, other stores
    armed,     \* header.decoyArmed
    decoy,     \* database `scytale-decoy'
    fence,     \* its promotion fence and source witness; None: absent
    deleting,  \* a deleteDatabase request of it that timed out is queued
    journal,   \* PROMOTE_MARKER
    removal,   \* DURESS_REMOVE_MARKER
    lease,     \* DURESS_MUTATION_LEASE_KEY: its holder
    tab,       \* where each tab is
    arms, crashes, lost

disk   == <<real, armed, decoy, fence, deleting>>
marks  == <<journal, removal>>
counts == <<arms, crashes, lost>>
vars   == <<disk, marks, lease, tab, counts>>

Env     == 0..MaxArm
Content == [env : Env, ver : 0..MaxWrite]

\* A whole vault: `records' and `rest' (restore, device and kv) are written
\* in one transaction and copied in batches of their own.
Whole(e, v) == [meta |-> e, records |-> [env |-> e, ver |-> v],
                rest |-> [env |-> e, ver |-> v]]
Empty       == [meta |-> None, records |-> None, rest |-> None]

IsWhole(db) == \E e \in Env, v \in 0..MaxWrite : db = Whole(e, v)

NoJournal  == [phase |-> "none", env |-> 0]
Pending    == journal.phase = "pending"
Promoting  == journal.phase # "none"   \* promoteMarkerPresent

\* Where a tab goes with the lease in hand, by what it came for.
FirstStep == [finishRemoval   |-> "removal", finishPromotion |-> "promote",
              fire |-> "fire", arm |-> "arm", remove |-> "remove"]
Unheld   == {"off", "boot", "checkPromotion", "locked", "fatal", "open",
             "populate", "wait"}
Held     == {"removal", "promote", "fire", "bind", "arm", "remove",
             "neutralize", "disarm", "unmark", "provision", "flag", "fence",
             "wipe", "clear", "copyMeta", "copyRecords", "copyRest",
             "assert", "mark", "delete", "clearJournal", "finish"}
Unlocked(t) == tab[t].pc \in {"open", "populate"}
               \/ tab[t].op \in {"arm", "remove"}
Away     == [pc |-> "off", op |-> "none", env |-> 0, wit |-> 0]

Goto(t, pc)    == tab' = [tab EXCEPT ![t].pc = pc]
At(t, pc)      == tab[t].pc = pc
Release(t)     == lease' = IF lease = t THEN None ELSE lease
\* The vault runtime lock: one tab shows an account.
RuntimeFree(t) == \A u \in Tab \ {t} : ~Unlocked(u)

Init ==
    /\ real = Whole(0, 0)
    /\ armed = FALSE
    /\ decoy = Empty
    /\ fence = None
    /\ deleting = FALSE
    /\ journal = NoJournal
    /\ removal = FALSE
    /\ lease = None
    /\ tab = [t \in Tab |-> Away]
    /\ arms = 0 /\ crashes = 0 /\ lost = 0

-----------------------------------------------------------------------------
(* The end of a mutation: the lease is released, then the caller goes on.  *)

Leave(t, next) ==
    /\ Release(t)
    /\ tab' = [tab EXCEPT ![t] = [@ EXCEPT !.pc = next, !.op = "none",
                                           !.wit = 0]]

Return(t) == Leave(t, CASE tab[t].op = "finishRemoval" -> "checkPromotion"
                        [] tab[t].op = "finishPromotion" -> "locked"
                        [] OTHER -> "open")

\* It throws.  Boot stops; the lock screen reloads when a promotion has
\* begun, and shows an error when none has.
Caught(t) == CASE tab[t].op \in {"finishRemoval", "finishPromotion"} -> "fatal"
               [] tab[t].op = "fire" -> IF Promoting THEN "boot" ELSE "locked"
               [] OTHER -> "open"

Throw(t) == Leave(t, Caught(t))

-----------------------------------------------------------------------------
(* Boot, the lock screen and the open account.                             *)

Reopen(t) ==
    /\ tab[t].pc \in {"off", "fatal"}
    /\ tab' = [tab EXCEPT ![t] = [Away EXCEPT !.pc = "boot"]]
    /\ UNCHANGED <<disk, marks, lease, counts>>

\* Mutant: a removal is left to the settings page.
BootHeedless(t) ==
    /\ At(t, "boot")
    /\ Goto(t, "checkPromotion")
    /\ UNCHANGED <<disk, marks, lease, counts>>

BootRemoval(t) ==
    /\ At(t, "boot")
    /\ tab' = [tab EXCEPT ![t] =
           IF removal THEN [@ EXCEPT !.pc = "wait", !.op = "finishRemoval"]
                      ELSE [@ EXCEPT !.pc = "checkPromotion"]]
    /\ UNCHANGED <<disk, marks, lease, counts>>

BootPromotion(t) ==
    /\ At(t, "checkPromotion")
    /\ tab' = [tab EXCEPT ![t] =
           IF Promoting THEN [@ EXCEPT !.pc = "wait", !.op = "finishPromotion"]
                        ELSE [@ EXCEPT !.pc = "locked"]]
    /\ UNCHANGED <<disk, marks, lease, counts>>

\* The passphrase of the canonical account.  Nothing here reads the journal:
\* that a copy under way stays shut is left to Lockdown.
Unlock(t) ==
    /\ At(t, "locked")
    /\ IsWhole(real)
    /\ (Prompt /\ Pending) => real.meta # journal.env
    /\ RuntimeFree(t)
    /\ tab' = [tab EXCEPT ![t] = [@ EXCEPT !.pc = "open", !.env = real.meta]]
    /\ UNCHANGED <<disk, marks, lease, counts>>

\* The duress passphrase: it opens the decoy's envelope, and after Argon2 the
\* tab asks for the lease.
TypeDuress(t) ==
    /\ At(t, "locked")
    /\ armed
    /\ ~deleting
    /\ IsWhole(decoy)
    /\ tab' = [tab EXCEPT ![t] = [@ EXCEPT !.pc = "wait", !.op = "fire",
                                           !.wit = decoy.meta]]
    /\ UNCHANGED <<disk, marks, lease, counts>>

Lock(t) ==
    /\ tab[t].pc \in {"open", "populate"}
    /\ tab' = [tab EXCEPT ![t] = [Away EXCEPT !.pc = "locked"]]
    /\ UNCHANGED <<disk, marks, lease, counts>>

\* The broadcast or the storage event of a promotion, or a resume that finds
\* its journal: the tab locks and reloads, its lock screen too.
Lockdown(t) ==
    /\ Promoting
    /\ tab[t].pc \in {"locked", "open", "populate", "wait"}
    /\ tab' = [tab EXCEPT ![t] = [Away EXCEPT !.pc = "boot"]]
    /\ UNCHANGED <<disk, marks, lease, counts>>

\* setDuressPassword and removeDuressPassword, called in the open account.
StartArm(t) ==
    /\ At(t, "open")
    /\ arms < MaxArm
    /\ tab' = [tab EXCEPT ![t] = [@ EXCEPT !.pc = "wait", !.op = "arm"]]
    /\ UNCHANGED <<disk, marks, lease, counts>>

StartRemove(t) ==
    /\ At(t, "open")
    /\ armed
    /\ tab' = [tab EXCEPT ![t] = [@ EXCEPT !.pc = "wait", !.op = "remove"]]
    /\ UNCHANGED <<disk, marks, lease, counts>>

\* openDecoyForPopulate, the switch to the decoy, and the way back.
EnterDecoy(t) ==
    /\ At(t, "open")
    /\ ~Promoting /\ ~removal /\ ~deleting
    /\ IsWhole(decoy)
    /\ tab' = [tab EXCEPT ![t] = [@ EXCEPT !.pc = "populate",
                                           !.wit = decoy.meta]]
    /\ UNCHANGED <<disk, marks, lease, counts>>

ExitDecoy(t) ==
    /\ At(t, "populate")
    /\ tab' = [tab EXCEPT ![t] = [@ EXCEPT !.pc = "open", !.wit = 0]]
    /\ UNCHANGED <<disk, marks, lease, counts>>

\* A write commits only in the generation its tab has opened, and never in a
\* fenced database (assertCurrentGeneration).  It may touch several records.
Writable(db, e) ==
    db.records # None /\ db.rest # None /\ db.rest.env = e
    /\ db.records.env = e /\ db.records.ver < MaxWrite

Written(db) == [db EXCEPT !.records.ver = @ + 1, !.rest.ver = @ + 1]

Write(t) ==
    /\ At(t, "open")
    /\ Writable(real, tab[t].env)
    /\ real' = Written(real)
    /\ UNCHANGED <<armed, decoy, fence, deleting, marks, lease, tab, counts>>

Fill(t) ==
    /\ At(t, "populate")
    /\ fence = None
    /\ ~deleting
    /\ Writable(decoy, tab[t].wit)
    /\ decoy' = Written(decoy)
    /\ UNCHANGED <<real, armed, fence, deleting, marks, lease, tab, counts>>

-----------------------------------------------------------------------------
(* The mutation lease.                                                     *)

Acquire(t) ==
    /\ At(t, "wait")
    /\ lease = None
    /\ lease' = t
    /\ Goto(t, FirstStep[tab[t].op])
    /\ UNCHANGED <<disk, marks, counts>>

\* Two minutes of waiting for another tab's operation.
GiveUp(t) ==
    /\ At(t, "wait")
    /\ lease \notin {None, t}
    /\ tab[lease].pc \in Held
    /\ Throw(t)
    /\ UNCHANGED <<disk, marks, counts>>

\* A minute without the heartbeat: its holder died, or is frozen.
LeaseLapses ==
    /\ lease # None
    /\ Timely => tab[lease].pc \notin Held
    /\ lease' = None
    /\ UNCHANGED <<disk, marks, tab, counts>>

-----------------------------------------------------------------------------
(* Removal (completeDuressRemovalUnlocked), and the arming that ends with  *)
(* a fresh decoy (setDuressPassword).                                      *)

\* Boot, with the lease: the journal is read again, and a promotion goes first.
Removal(t) ==
    /\ At(t, "removal")
    /\ IF removal /\ ~Promoting THEN Goto(t, "neutralize") /\ UNCHANGED lease
                                ELSE Return(t)
    /\ UNCHANGED <<disk, marks, counts>>

Remove(t) ==
    /\ At(t, "remove")
    /\ \/ /\ Promoting \/ real.meta # tab[t].env
          /\ Throw(t)
          /\ UNCHANGED removal
       \/ /\ ~Promoting /\ real.meta = tab[t].env
          /\ removal' = TRUE
          /\ Goto(t, "neutralize")
          /\ UNCHANGED lease
    /\ UNCHANGED <<disk, journal, counts>>

Neutralize(t) ==
    /\ At(t, "neutralize")
    /\ ~deleting
    /\ decoy' = Empty
    /\ fence' = None
    /\ Goto(t, "disarm")
    /\ UNCHANGED <<real, armed, deleting, marks, lease, counts>>

\* updateDecoyArmedFlag(false): a swap of the header, or five lost ones.
Disarm(t) ==
    /\ At(t, "disarm")
    /\ \/ /\ real.meta \in Env
          /\ armed' = FALSE
          /\ Goto(t, "unmark")
          /\ UNCHANGED <<lease, lost>>
       \/ /\ real.meta \notin Env
          /\ Throw(t)
          /\ UNCHANGED <<armed, lost>>
       \/ /\ lost < MaxLost
          /\ lost' = lost + 1
          /\ Throw(t)
          /\ UNCHANGED armed
    /\ UNCHANGED <<real, decoy, fence, deleting, marks, arms, crashes>>

Unmark(t) ==
    /\ At(t, "unmark")
    /\ removal' = FALSE
    /\ IF tab[t].op = "arm" THEN Goto(t, "provision") /\ UNCHANGED lease
                            ELSE Return(t)
    /\ UNCHANGED <<disk, journal, counts>>

Arm(t) ==
    /\ At(t, "arm")
    /\ IF Promoting THEN Throw(t)
       ELSE /\ Goto(t, IF removal THEN "neutralize" ELSE "provision")
            /\ UNCHANGED lease
    /\ UNCHANGED <<disk, marks, counts>>

\* The passphrase of the account is checked against its header, then
\* createDecoyVaultInDb replaces the whole decoy in one transaction.
Provision(t) ==
    /\ At(t, "provision")
    /\ \/ /\ real.meta # tab[t].env
          /\ Throw(t)
          /\ UNCHANGED <<decoy, fence, arms>>
       \/ /\ real.meta = tab[t].env
          /\ ~deleting
          /\ arms < MaxArm
          /\ arms' = arms + 1
          /\ decoy' = Whole(arms + 1, 0)
          /\ fence' = None
          /\ Goto(t, "flag")
          /\ UNCHANGED lease
    /\ UNCHANGED <<real, armed, deleting, marks, crashes, lost>>

\* updateDecoyArmedFlag(true, witness); when it fails the decoy is emptied.
Flag(t) ==
    /\ At(t, "flag")
    /\ \/ /\ real.meta = tab[t].env
          /\ armed' = TRUE
          /\ Return(t)
          /\ UNCHANGED <<decoy, fence, lost>>
       \/ /\ real.meta # tab[t].env \/ lost < MaxLost
          /\ lost' = IF real.meta = tab[t].env THEN lost + 1 ELSE lost
          /\ decoy' = Empty
          /\ fence' = None
          /\ Throw(t)
          /\ UNCHANGED armed
    /\ UNCHANGED <<real, deleting, marks, arms, crashes>>

-----------------------------------------------------------------------------
(* Firing and promotion (openDecoyAndWipeReal,                             *)
(* completeDecoyPromotionUnlocked, migrateVaultDb).                        *)

Fire(t) ==
    /\ At(t, "fire")
    /\ removal' = FALSE
    /\ IF Promoting /\ journal.env # tab[t].wit
       THEN Throw(t)
       ELSE /\ Goto(t, IF Promoting THEN "promote" ELSE "bind")
            /\ UNCHANGED lease
    /\ UNCHANGED <<disk, journal, counts>>

\* Mutant: what Argon2 opened is promoted without a second look.
BindUnread(t) ==
    /\ At(t, "bind")
    /\ journal' = [phase |-> "pending", env |-> tab[t].wit]
    /\ Goto(t, "promote")
    /\ UNCHANGED <<disk, removal, lease, counts>>

\* Mutant: the bare journal of earlier builds, bound to no envelope.
BindBare(t) ==
    /\ At(t, "bind")
    /\ journal' = [phase |-> "pending", env |-> None]
    /\ Goto(t, "promote")
    /\ UNCHANGED <<disk, removal, lease, counts>>

\* Under the lease the source is read again: it must still be the envelope
\* that the passphrase opened.
Bind(t) ==
    /\ At(t, "bind")
    /\ ~deleting
    /\ \/ /\ decoy.meta = tab[t].wit
          /\ journal' = [phase |-> "pending", env |-> tab[t].wit]
          /\ Goto(t, "promote")
          /\ UNCHANGED lease
       \/ /\ decoy.meta # tab[t].wit
          /\ Throw(t)
          /\ UNCHANGED journal
    /\ UNCHANGED <<disk, removal, counts>>

\* Mutant: a promotion that was copied is copied again.
PromoteAgain(t) ==
    /\ At(t, "promote")
    /\ Promoting
    /\ removal' = FALSE
    /\ tab' = [tab EXCEPT ![t].wit = journal.env, ![t].pc = "fence"]
    /\ UNCHANGED <<disk, journal, lease, counts>>

\* `pending' fences, wipes and copies; `copied' only deletes the source.
Promote(t) ==
    /\ At(t, "promote")
    /\ removal' = (removal /\ ~Promoting)
    /\ \/ /\ Promoting
          /\ tab' = [tab EXCEPT ![t].wit = journal.env,
                        ![t].pc = IF journal.phase = "pending" THEN "fence"
                                                               ELSE "delete"]
          /\ UNCHANGED lease
       \/ ~Promoting /\ IF tab[t].op = "fire" THEN Goto(t, "finish") /\ UNCHANGED lease
                                              ELSE Return(t)
    /\ UNCHANGED <<disk, journal, counts>>

\* Mutant: the source is validated and not fenced.
Unfenced(t) ==
    /\ At(t, "fence")
    /\ decoy.meta = tab[t].wit
    /\ Goto(t, "wipe")
    /\ UNCHANGED <<disk, marks, lease, counts>>

\* validateAndFencePromotionSource
Fence(t) ==
    /\ At(t, "fence")
    /\ ~deleting
    /\ \/ /\ decoy.meta = tab[t].wit
          /\ fence' = tab[t].wit
          /\ Goto(t, "wipe")
          /\ UNCHANGED lease
       \/ /\ decoy.meta # tab[t].wit
          /\ Throw(t)
          /\ UNCHANGED fence
    /\ UNCHANGED <<real, armed, decoy, deleting, marks, counts>>

\* wipeRealForDecoy: the header is overwritten if it can be, and every local
\* preference goes but the promotion's journal.
Wipe(t) ==
    /\ At(t, "wipe")
    /\ \/ real' = [real EXCEPT !.meta = Garbage] /\ armed' = FALSE
       \/ UNCHANGED <<real, armed>>
    /\ removal' = FALSE
    /\ Goto(t, "clear")
    /\ UNCHANGED <<decoy, fence, deleting, journal, lease, counts>>

StableSource(t) == decoy.meta = tab[t].wit /\ fence = tab[t].wit

\* The source is validated before the first byte of the target goes; then one
\* transaction clears all of it but the lease.
Clear(t) ==
    /\ At(t, "clear")
    /\ ~deleting
    /\ \/ /\ StableSource(t)
          /\ real' = Empty
          /\ armed' = FALSE
          /\ Goto(t, "copyMeta")
          /\ UNCHANGED lease
       \/ ~StableSource(t) /\ Throw(t) /\ UNCHANGED <<real, armed>>
    /\ UNCHANGED <<decoy, fence, deleting, marks, counts>>

CopyBatch(t, pc, store, next) ==
    /\ At(t, pc)
    /\ real' = [real EXCEPT ![store] = decoy[store]]
    /\ Goto(t, next)
    /\ UNCHANGED <<armed, decoy, fence, deleting, marks, lease, counts>>

Copy(t) ==
    \/ CopyBatch(t, "copyMeta", "meta", "copyRecords")
    \/ CopyBatch(t, "copyRecords", "records", "copyRest")
    \/ CopyBatch(t, "copyRest", "rest", "assert")

AssertSource(t) ==
    /\ At(t, "assert")
    /\ IF StableSource(t) THEN Goto(t, "mark") /\ UNCHANGED lease ELSE Throw(t)
    /\ UNCHANGED <<disk, marks, counts>>

\* markPromoteDecoyCopied
Mark(t) ==
    /\ At(t, "mark")
    /\ \/ /\ Promoting /\ journal.env = tab[t].wit
          /\ journal' = [journal EXCEPT !.phase = "copied"]
          /\ Goto(t, "delete")
          /\ UNCHANGED lease
       \/ /\ ~Promoting \/ journal.env # tab[t].wit
          /\ Throw(t)
          /\ UNCHANGED journal
    /\ UNCHANGED <<disk, removal, counts>>

\* deleteVaultDb: confirmed, with every request queued before it, or given up
\* after two seconds with the request still queued.
Delete(t) ==
    /\ At(t, "delete")
    /\ \/ /\ decoy' = Empty
          /\ fence' = None
          /\ deleting' = FALSE
          /\ Goto(t, "clearJournal")
       \/ /\ deleting' = TRUE
          /\ Goto(t, "finish")
          /\ UNCHANGED <<decoy, fence>>
    /\ UNCHANGED <<real, armed, marks, lease, counts>>

ClearJournal(t) ==
    /\ At(t, "clearJournal")
    /\ journal' = IF journal.phase = "copied" /\ journal.env = tab[t].wit
                  THEN NoJournal ELSE journal
    /\ Goto(t, "finish")
    /\ UNCHANGED <<disk, removal, lease, counts>>

\* Boot goes on to the lock screen.  A fired passphrase opens what it unlocked
\* if that is what the canonical header now is, and if no other tab shows an
\* account.
Finish(t) ==
    /\ At(t, "finish")
    /\ IF tab[t].op # "fire" THEN Return(t)
       ELSE IF real.meta # tab[t].wit THEN Throw(t)
       ELSE /\ Release(t)
            /\ tab' = [tab EXCEPT ![t] =
                   IF RuntimeFree(t)
                   THEN [Away EXCEPT !.pc = "open", !.env = real.meta]
                   ELSE [Away EXCEPT !.pc = IF Promoting THEN "boot" ELSE "locked"]]
    /\ UNCHANGED <<disk, marks, counts>>

-----------------------------------------------------------------------------
(* The environment.                                                        *)

\* A tab dies or is closed.  A request it left in the queue may die with it.
Crash(t) ==
    /\ ~At(t, "off")
    /\ crashes < MaxCrash
    /\ crashes' = crashes + 1
    /\ deleting' \in {deleting, FALSE}
    /\ tab' = [tab EXCEPT ![t] = Away]
    /\ UNCHANGED <<real, armed, decoy, fence, marks, lease, arms, lost>>

\* The connections that blocked it are gone: the queued request is served.
QueuedDelete ==
    /\ deleting
    /\ decoy' = Empty
    /\ fence' = None
    /\ deleting' = FALSE
    /\ UNCHANGED <<real, armed, marks, lease, tab, counts>>

Mutation(t) ==
    \/ Removal(t) \/ Remove(t) \/ Neutralize(t) \/ Disarm(t) \/ Unmark(t)
    \/ Arm(t) \/ Provision(t) \/ Flag(t)
    \/ Fire(t) \/ Bind(t) \/ Promote(t) \/ Fence(t) \/ Wipe(t) \/ Clear(t)
    \/ Copy(t) \/ AssertSource(t) \/ Mark(t) \/ Delete(t)
    \/ ClearJournal(t) \/ Finish(t)

Boot(t) == BootRemoval(t) \/ BootPromotion(t)

Next ==
    \/ \E t \in Tab :
        \/ Reopen(t) \/ Boot(t) \/ Unlock(t) \/ TypeDuress(t) \/ Lock(t)
        \/ Lockdown(t) \/ StartArm(t) \/ StartRemove(t) \/ EnterDecoy(t)
        \/ ExitDecoy(t) \/ Write(t) \/ Fill(t)
        \/ Acquire(t) \/ GiveUp(t) \/ Mutation(t) \/ Crash(t)
    \/ LeaseLapses
    \/ QueuedDelete

Spec == Init /\ [][Next]_vars

\* The app is opened again, its code runs on, the Web Lock's queue and the
\* polling of the lease let nobody starve, and a lapsed lease and an unblocked
\* request are noticed.
Fairness ==
    /\ \A t \in Tab : /\ WF_vars(Reopen(t))
                      /\ WF_vars(Boot(t))
                      /\ WF_vars(Mutation(t))
                      /\ SF_vars(Unlocked(t) /\ Lockdown(t))
                      /\ SF_vars(Acquire(t))
    /\ WF_vars(LeaseLapses)
    /\ WF_vars(QueuedDelete)

FairSpec == Spec /\ Fairness

-----------------------------------------------------------------------------
(* Properties.                                                             *)

TypeOK ==
    /\ real \in [meta : Env \cup {None, Garbage},
                 records : Content \cup {None}, rest : Content \cup {None}]
    /\ decoy \in [meta : Env \cup {None},
                  records : Content \cup {None}, rest : Content \cup {None}]
    /\ {armed, deleting, removal} \subseteq BOOLEAN
    /\ fence \in Env \cup {None}
    /\ journal \in [phase : {"none", "pending", "copied"}, env : Env]
    /\ lease \in Tab \cup {None}
    /\ tab \in [Tab -> [pc : Unheld \cup Held,
                        op : {"none"} \cup DOMAIN FirstStep,
                        env : Env, wit : Env]]
    /\ arms \in 0..MaxArm /\ crashes \in 0..MaxCrash /\ lost \in 0..MaxLost

\* Wherever the device dies, the next boot can go on: while a promotion is
\* pending the decoy database holds, whole, the envelope its journal names;
\* at all other times the canonical database is one whole account, after a
\* promotion the promoted one.
Recoverable ==
    IF Pending THEN IsWhole(decoy) /\ decoy.meta = journal.env
               ELSE IsWhole(real) /\ (Promoting => real.meta = journal.env)

\* A header that says a duress passphrase is armed has a decoy behind it,
\* once every operation and every journal has been worked off.
\* removeDuressPassword journals first so that a crash at any following point
\* is completed at boot.
ArmedHasDecoy ==
    (armed /\ lease = None /\ ~removal /\ ~Promoting) => IsWhole(decoy)

\* A promotion begun is finished, whatever dies under way.
PromotionFinishes == journal.phase = "pending" ~> journal.phase # "pending"

\* A boot that finds a removal begun gets it finished, or superseded by a
\* promotion, whatever dies under way.
RemovalFinishes == (removal /\ \E t \in Tab : At(t, "boot")) ~> ~removal

\* Together: neither journal stays open.
JournalsFinish == PromotionFinishes /\ RemovalFinishes

\* The two databases and the journals, seen as one account and its cover.  From
\* the moment the journal is durable the account is the decoy.
VerOf(db) == IF db.records = None THEN 0 ELSE db.records.ver
One == INSTANCE OneAccount WITH
    acct  <- IF Pending THEN journal.env ELSE real.meta,
    ver   <- IF Pending THEN VerOf(decoy) ELSE VerOf(real),
    cover <- IF Promoting \/ decoy.meta = None THEN None ELSE decoy.records

\* The device implements OneAccount: never a mixture of two accounts, never an
\* account wiped without the cover that replaces it, never newer data undone by
\* a second copy.
ImplementsOneAccount == One!Spec
=============================================================================
