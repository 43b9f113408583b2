---------------------------- MODULE LinkInstall -----------------------------
(***************************************************************************)
(* A device that joins an account, or joins it again                       *)
(* (src/src/lib/linkRecovery.ts, linkflow.ts, identity.ts, devices.ts and  *)
(* the linking handlers of src/src/Messenger.tsx).                         *)
(*                                                                         *)
(* Every attempt of the device is a transcript of its own.  The user       *)
(* confirms it on both sides; on this one the confirmation is saved as an  *)
(* intent before it has any effect.  The primary puts the device on its    *)
(* list (DeviceList) and inserts the grant into the device's inbox, once   *)
(* or several times.  The device holds the rows of grants back in the      *)
(* relay until it has verified one, swapped identity and list in one       *)
(* transaction, barred its old contacts and cleared the intent; the user   *)
(* may instead discard the attempt for good.                               *)
(*                                                                         *)
(* A list is its version; onList tells which versions name this device.    *)
(* A LinkFault stands for a crash followed by a boot, or a failed write.   *)
(***************************************************************************)
EXTENDS Naturals, Sequences, FiniteSets

CONSTANTS
    MaxTry,       \* bound on attempts
    MaxCopy,      \* bound on the insertions of one grant
    MaxList,      \* bound on the versions of the list
    MaxLinkFault  \* bound on restarts and failed writes

ASSUME LinkAssumption ==
    {MaxTry, MaxCopy, MaxLinkFault} \subseteq Nat /\ MaxList \in Nat \ {0}

VARIABLES
    onList,     \* the primary: its lists, by version,
    grant,      \*   the version it granted to each attempt; 0: none
    copies,     \*   how often the relay stored that grant
    news,       \* lists under way to the device
    box,        \* grants in its inbox
    intent,     \* its database: the attempt confirmed; 0: none
    discarded,  \*   attempts discarded for good
    id,         \*   the attempt that installed the identity, and the list
    barred,     \*   every contact of the old identity barred, snapshot asked for
    wiped,      \*   it has wiped itself
    tries, sess, phase,  \* linkSessionRef and its confirmation
    held,       \* linkPendingGrantsRef
    stale,      \* the contacts in memory are barred
    abort,      \* linkAbortInProgressRef
    inst,       \* linkInstallPromiseRef: where the installation is
    linkFaults

primary  == <<onList, grant, copies, news>>
saved    == <<intent, discarded, id, barred, wiped>>
ram      == <<tries, sess, phase, held, stale, abort, inst>>
linkVars == <<primary, box, saved, ram, linkFaults>>

Try     == 1..MaxTry
Row     == [try : Try, n : 1..MaxCopy]
Ver     == 0..MaxList
Last    == Len(onList)
Linked  == id.list # 0
NewId   == [try |-> 0, list |-> 0]

\* linkRecoveryProtectedRef, set before the intent is written.
Protected == phase \in {"saving", "confirmed"}

LinkInit ==
    /\ onList = <<FALSE>> /\ grant = [t \in Try |-> 0]
    /\ copies = [t \in Try |-> 0] /\ news = {} /\ box = {}
    /\ intent = 0 /\ discarded = {} /\ id = NewId /\ barred = FALSE
    /\ wiped = FALSE
    /\ tries = 0 /\ sess = 0 /\ phase = "none" /\ held = {} /\ stale = FALSE
    /\ abort = FALSE /\ inst = "idle"
    /\ linkFaults = 0

LinkFault == linkFaults < MaxLinkFault /\ linkFaults' = linkFaults + 1

-----------------------------------------------------------------------------
(* The primary, as its device list promises: grants name a list with this  *)
(* device, versions only grow.                                             *)

\* The attempt is confirmed there: list, and the grant of it, again of the
\* same list if the device is on it.
Authorise(t) ==
    /\ t <= tries /\ grant[t] = 0
    /\ IF onList[Last] THEN UNCHANGED onList
       ELSE Last < MaxList /\ onList' = Append(onList, TRUE)
    /\ grant' = [grant EXCEPT ![t] = Len(onList')]
    /\ UNCHANGED <<copies, news, box, saved, ram, linkFaults>>

\* The grant is stored, at first and by every retry that saw no receipt.
Insert(t) ==
    /\ grant[t] # 0 /\ copies[t] < MaxCopy
    /\ copies' = [copies EXCEPT ![t] = @ + 1]
    /\ box' = box \cup {[try |-> t, n |-> copies'[t]]}
    /\ UNCHANGED <<onList, grant, news, saved, ram, linkFaults>>

\* Other devices come and go; this one is told if it is on the list, and
\* perhaps when it is removed.
Change(on) ==
    /\ Last < MaxList
    /\ onList[Last]
    /\ onList' = Append(onList, on)
    /\ news' \in {news \cup {Len(onList')}} \cup (IF on THEN {} ELSE {news})
    /\ UNCHANGED <<grant, copies, box, saved, ram, linkFaults>>

-----------------------------------------------------------------------------
(* An attempt, up to its confirmation.                                     *)

Join ==
    /\ ~wiped /\ ~Protected /\ tries < MaxTry
    /\ tries' = tries + 1
    /\ sess' = tries' /\ phase' = "sas" /\ held' = {}
    /\ UNCHANGED <<primary, box, saved, stale, abort, inst, linkFaults>>

\* Mutant: closing the dialog always ends the attempt.
ResetAnyway ==
    /\ ~wiped /\ sess # 0
    /\ box' = box \ held
    /\ sess' = 0 /\ phase' = "none" /\ held' = {}
    /\ UNCHANGED <<primary, saved, tries, stale, abort, inst, linkFaults>>

\* resetLink: what was held is acknowledged.
Reset ==
    /\ ~wiped /\ sess # 0 /\ ~Protected
    /\ box' = box \ held
    /\ sess' = 0 /\ phase' = "none" /\ held' = {}
    /\ UNCHANGED <<primary, saved, tries, stale, abort, inst, linkFaults>>

\* onNConfirmSas
Confirm ==
    /\ ~wiped /\ phase = "sas"
    /\ phase' = "saving"
    /\ UNCHANGED <<primary, box, saved, tries, sess, held, stale, abort, inst,
                   linkFaults>>

\* saveConfirmedNewDeviceLinkIntent; when it fails the user confirms again.
Save ==
    /\ ~wiped /\ phase = "saving"
    /\ intent' = sess /\ phase' = "confirmed"
    /\ UNCHANGED <<primary, box, discarded, id, barred, wiped, tries, sess,
                   held, stale, abort, inst, linkFaults>>

-----------------------------------------------------------------------------
(* A grant arrives, now or again after a reconnect.                        *)

\* classifyLinkGrantRelayRow
Disposition(r) == IF r.try \in discarded THEN "discarded"
                  ELSE IF sess # 0 THEN "active" ELSE "stale"

Deliver(r) ==
    /\ ~wiped /\ r \in box \ held
    /\ IF Disposition(r) = "active"
       THEN held' = held \cup {r} /\ UNCHANGED box
       ELSE box' = box \ {r} /\ UNCHANGED held
    /\ UNCHANGED <<primary, saved, tries, sess, phase, stale, abort, inst,
                   linkFaults>>

-----------------------------------------------------------------------------
(* installGrant                                                            *)

Go(pc) == inst' = pc

StartInstall ==
    /\ ~wiped /\ inst = "idle"
    /\ phase = "confirmed" /\ ~abort /\ held # {}
    /\ Go("check")
    /\ UNCHANGED <<primary, box, saved, tries, sess, phase, held, stale, abort,
                   linkFaults>>

\* Mutant: a foreign candidate retires all of them.
RetireAll(r) == held

\* drainLinkGrantCandidates retires the row evaluated and no other.
Retire(r) == {r}

Check ==
    /\ ~wiped /\ inst = "check"
    /\ \/ /\ held = {}
          /\ Go("idle")
          /\ UNCHANGED <<box, held>>
       \/ \E r \in held :
             \/ /\ r.try # sess
                /\ box' = box \ Retire(r) /\ held' = held \ Retire(r)
                /\ UNCHANGED inst
             \/ /\ r.try = sess
                /\ Go("swap")
                /\ UNCHANGED <<box, held>>
    /\ UNCHANGED <<primary, saved, tries, sess, phase, stale, abort,
                   linkFaults>>

\* Mutant: a retry installs the grant a second time.
InstalledAlways == [try |-> sess, list |-> grant[sess]]

\* confirmedLinkGrantAlreadyInstalled: the identity that is there stands.
Installed == IF Linked THEN id ELSE [try |-> sess, list |-> grant[sess]]

\* completeLinkOnN, in the inbox's queue; the barriers follow in its task.
Swap ==
    /\ ~wiped /\ inst = "swap"
    /\ id' = Installed /\ stale' = TRUE
    /\ Go("bar")
    /\ UNCHANGED <<primary, box, intent, discarded, barred, wiped, tries, sess,
                   phase, held, abort, linkFaults>>

Bar ==
    /\ ~wiped /\ inst = "bar"
    /\ barred' = TRUE
    /\ Go("clear")
    /\ UNCHANGED <<primary, box, intent, discarded, id, wiped, tries, sess,
                   phase, held, stale, abort, linkFaults>>

\* clearConfirmedNewDeviceLinkIntent
ClearIntent ==
    /\ ~wiped /\ inst = "clear"
    /\ intent' = 0
    /\ Go("done")
    /\ UNCHANGED <<primary, box, discarded, id, barred, wiped, tries, sess,
                   phase, held, stale, abort, linkFaults>>

\* Only now are the rows acknowledged and the attempt over.
Finish ==
    /\ ~wiped /\ inst = "done"
    /\ box' = box \ held
    /\ sess' = 0 /\ phase' = "none" /\ held' = {}
    /\ Go("idle")
    /\ UNCHANGED <<primary, saved, tries, stale, abort, linkFaults>>

Install == StartInstall \/ Check \/ Swap \/ Bar \/ ClearIntent \/ Finish

\* Mutant: a failure retires the candidate.
InstallFailsRetiring ==
    /\ ~wiped /\ inst \in {"swap", "bar", "clear"}
    /\ LinkFault
    /\ box' = box \ held /\ held' = {}
    /\ Go("idle")
    /\ UNCHANGED <<primary, saved, tries, sess, phase, stale, abort>>

\* A write fails: rows and intent are kept for another try.
InstallFails ==
    /\ ~wiped /\ inst \in {"swap", "bar", "clear"}
    /\ LinkFault
    /\ Go("idle")
    /\ UNCHANGED <<primary, box, saved, tries, sess, phase, held, stale,
                   abort>>

-----------------------------------------------------------------------------
(* discardConfirmedNewDeviceRecovery                                       *)

\* Mutant: an installation under way does not matter.
MayDiscardAnyway == ~Linked

MayDiscard == inst = "idle" /\ ~Linked

StartDiscard ==
    /\ ~wiped /\ phase = "confirmed" /\ ~abort
    /\ MayDiscard
    /\ abort' = TRUE
    /\ UNCHANGED <<primary, box, saved, tries, sess, phase, held, stale, inst,
                   linkFaults>>

\* Of the rows of this attempt those held when the discard began go.
Discard ==
    /\ ~wiped /\ abort
    /\ discarded' = discarded \cup {intent} /\ intent' = 0
    /\ \E own \in SUBSET {r \in held : r.try = sess} : box' = box \ own
    /\ sess' = 0 /\ phase' = "none" /\ held' = {} /\ abort' = FALSE
    /\ UNCHANGED <<primary, id, barred, wiped, tries, stale, inst, linkFaults>>

DiscardFails ==
    /\ ~wiped /\ abort
    /\ LinkFault
    /\ abort' = FALSE
    /\ UNCHANGED <<primary, box, saved, tries, sess, phase, held, stale, inst>>

-----------------------------------------------------------------------------
(* Lists, and restarts.                                                    *)

\* A newer list is adopted; one that omits the device wipes it.  Before the
\* device is linked a list comes from a stranger.
TakeList(v) ==
    /\ ~wiped /\ v \in news
    /\ inst # "bar"
    /\ news' = news \ {v}
    /\ IF Linked /\ v > id.list
       THEN IF onList[v] THEN id' = [id EXCEPT !.list = v] /\ UNCHANGED wiped
                         ELSE wiped' = TRUE /\ UNCHANGED id
       ELSE UNCHANGED <<id, wiped>>
    /\ UNCHANGED <<onList, grant, copies, box, intent, discarded, barred, ram,
                   linkFaults>>

\* Mutant: boot restores the attempt and leaves the barriers to it.
BarredAtBoot == barred

\* The previous master is the witness: boot bars contacts that are not, and
\* asks for the snapshot, before the inbox is connected.
Rebarred == barred \/ Linked

\* The intent is restored before the inbox is connected.
Reboot ==
    /\ ~wiped
    /\ LinkFault
    /\ barred' = Rebarred /\ stale' = Rebarred
    /\ sess' = intent /\ phase' = IF intent # 0 THEN "confirmed" ELSE "none"
    /\ held' = {} /\ abort' = FALSE /\ inst' = "idle"
    /\ UNCHANGED <<primary, box, intent, discarded, id, wiped, tries>>

-----------------------------------------------------------------------------

LinkNext ==
    \/ \E t \in Try : Authorise(t) \/ Insert(t)
    \/ \E on \in BOOLEAN : Change(on)
    \/ Join \/ Reset \/ Confirm \/ Save
    \/ \E r \in Row : Deliver(r)
    \/ Install \/ InstallFails
    \/ StartDiscard \/ Discard \/ DiscardFails
    \/ \E v \in 1..MaxList : TakeList(v)
    \/ Reboot

LinkSpec == LinkInit /\ [][LinkNext]_linkVars

\* Calls return and the relay offers its rows on every connection; users and
\* the primary need do nothing.
LinkFairness ==
    /\ WF_linkVars(Install) /\ WF_linkVars(Discard)
    /\ \A r \in Row : WF_linkVars(Deliver(r))

LinkFairSpec == LinkSpec /\ LinkFairness

-----------------------------------------------------------------------------

\* The device's memory agrees with what it has saved.
LinkTypeOK ==
    /\ onList \in Seq(BOOLEAN) /\ Last \in 1..MaxList
    /\ grant \in [Try -> Ver] /\ copies \in [Try -> 0..MaxCopy]
    /\ news \subseteq 1..Last /\ held \subseteq box /\ box \subseteq Row
    /\ intent \in 0..MaxTry /\ discarded \subseteq Try
    /\ id \in [try : 0..MaxTry, list : Ver]
    /\ {barred, wiped, stale, abort} \subseteq BOOLEAN
    /\ tries \in 0..MaxTry /\ sess \in 0..tries
    /\ phase \in {"none", "sas", "saving", "confirmed"}
    /\ inst \in {"idle", "check", "swap", "bar", "clear", "done"}
    /\ inst # "idle" => phase = "confirmed" /\ ~abort
    /\ phase = "confirmed" /\ inst # "done" => intent = sess

\* The grant of a confirmed attempt stays in the relay until the device is
\* linked for good, whatever dialogs are closed, rows of other attempts come
\* and restarts fall in between (performInstallGrant).
GrantKept ==
    \A t \in Try :
        intent = t /\ copies[t] > 0 /\ ~wiped => \E r \in box : r.try = t

\* A discarded attempt is never installed.
DiscardFinal == id.try \notin discarded

\* The device never uses its new identity with a contact of the old one, and
\* when the link is done that is durable, wherever it died in between.
InstallWhole == Linked => stale /\ (intent = 0 => barred)

LinkSafe == GrantKept /\ DiscardFinal /\ InstallWhole

\* A list that the device has taken is never replaced by an older one: not by
\* the grant of the same attempt, nor by that of another, that comes late.
ListForward == [][id'.list >= id.list]_linkVars

\* A confirmed attempt whose grant the relay has stored ends: the device is
\* linked and its contacts barred, or the user has discarded the attempt.
LinkCompletes ==
    \A t \in Try :
        intent = t /\ copies[t] > 0
            ~> wiped \/ t \in discarded \/ (Linked /\ barred /\ intent # t)

\* "The device also learns it via normal gossip if it reconnects": a device
\* that is linked and not on the list, with nothing on its way to tell it.
RevokedLearns == Linked /\ ~wiped /\ ~onList[Last] => \E v \in news : ~onList[v]
=============================================================================
