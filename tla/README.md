# SKYTALE / scytale: a TLA+ verification of the messenger

This directory models the parts of SKYTALE whose correctness depends on order:
a relay that stores sealed messages, devices that turn a Double Ratchet while
pages crash and writes fail, tabs that hand one vault runtime to each other, a
decoy account that replaces the real one across any crash, groups and device
lists that must reach everybody in the end, uploads charged to a quota,
sockets that die unnoticed.
The modules are translated from the source (`../src` from here); a definition's
place in the source is listed in `PROJECT.json` under `map`. TLC checks small
instances; TLAPS proves safety properties of eleven of the components for every
value of their constants.

## The system and its parts

| part (source) | state it keeps | operations | hard because of |
|---|---|---|---|
| relay mailbox (`worker/relay.ts`, a Durable Object) | queue `q`, owner key, push deadline, alarm, attachments of its sockets | connect, hello, auth, send, ack, alarm, push | handlers suspended in awaits, one alarm for two purposes, half-open sockets, eviction |
| relay client (`src/lib/relay.ts`) | one socket, its timers, an outbox, waiters | connect, reconnect, prove ownership, send, ack, close | sockets that are dead and look open, timers and signatures that outlive their socket |
| Double Ratchet (`src/crypto/ratchet.ts`) | root, chains, counters, skipped keys | encrypt, decrypt | reordering, limits, a failed attempt must leave no trace |
| sessions (`src/lib/session.ts`) | per contact and device: ratchet, pending set-up | encryptForDevice, receiveEnvelope | simultaneous set-up, retried prekey frames |
| messenger (`src/Messenger.tsx`) | task queue, seen ids, live contacts, fences | send, onInbox, boot, suspend/resume for a restore, quiesce | crash between two writes, what to acknowledge, queue shared by all tasks |
| runtime lock (`src/lib/runtimeLock.ts`, `runtimeQuiesce.ts`) | ownership, pending release | acquire, releaseAfter | an ownership that is about to end |
| application shell (`src/App.tsx`) | phase, key, busy, lifecycle epoch, quiescence promise | boot, submit, biometric, openWith, lock, lockdown | unlock flows that end after the page moved on |
| vault service (`src/lib/vaultService.ts`, `wipe.ts`, `lockout.ts`) | header, device key, decoy, journals, failures | create, unlock, duress, promotion, wipe | crash during promotion, leases |
| account database (`src/lib/db.ts`, `backup.ts`) | generation, restore lock and stage, records | ordinary writes, staged restore, CAS, promotion fence | two tabs, an expiring lease, late broadcasts |
| groups (`src/lib/groups.ts`, `groupMutations.ts`, `groupTombstones.ts`) | signed chain of rosters, delivery marker, tombstones, frames that wait | create, add, remove, rename, dissolve, leave, dispatch, apply | retries after a crash, replayed invitations, frames ahead of their state |
| device list (`src/lib/devices.ts`, `linkIntent.ts`, `devicelist.ts`) | the list, a grant to deliver, a copy in RAM, what contacts acknowledged | link, cancel, remove, unlink, renew, gossip | operations that overlap at awaits, lost receipts |
| device linking (`src/lib/linkRecovery.ts`, `linkflow.ts`, `identity.ts`) | the confirmed attempt, held grants, the identity | confirm, install, discard, recover at boot | rows of other attempts, a crash between swap and barrier |
| contact moves (`src/lib/rekey.ts`, `store.ts`, `messages.ts`, `denylist.ts`) | a contact and a history sealed per room, an index, room keys, retired masters | boot migration, claim, accept, add, delete | a move is a sequence of records |
| blob quota (`worker/blob-quota.ts`, blob routes of `worker/index.ts`) | reservations, parts, ledger, a scan under way, the bucket | reserve, part, complete, abort, cleanup, reconcile | R2 and the tables disagree after a failure |

The shell mounts the messenger when a tab owns the runtime lock; the messenger
opens a relay client to its own mailbox and one to each peer's, and puts all
ratchet work through one task queue; the database refuses writes of a stale
generation; the relay wakes an absent owner by a content-free push. Group states,
device lists and grants travel as rows of the relay like any message, and are
acknowledged only when they are durable. What each
part must get right is stated with its module below; what the code is exposed
to, line by line, is `hazards` in `PROJECT.json`.

## Modules

| module | models | checked and proved in |
|---|---|---|
| `RelayRoom` | one mailbox object: every frame handler of `webSocketMessage`, `fetch`, `alarm`, restarts | `MCRelayRoom`, `RelayRoom_proofs` |
| `RelayClient` | a page's connection to one inbox: socket, heartbeat, ownership proof, outbox, confirmed sends | itself (`MCRelayClient.cfg`), `RelayRoom_proofs` |
| `Ratchet` | the ratchet's functions, as operators on symbolic keys | used by `DeviceSession` |
| `DeviceSession` | two devices of two people, their task queue, saves, crashes, the relay's queue between them | `MCDeviceSession`, `DeviceSession_proofs` |
| `MessageChannel` | what that pair promises: each message given is taken at most once | refined by `DeviceSession` |
| `RuntimeLock` | the tabs of one origin: Web Lock, quiescence, unlock flows, lockdown, vault creation | `MCRuntimeLock`, `RuntimeLock_proofs` |
| `AccountStore` | the account database as several tabs share it: writes, staged restores, leases, fence, broadcasts | `MCAccountStore`, `AccountStore_proofs` |
| `DuressVault` | the duress passphrase: two databases, two journals, a lease; arming, filling, firing, removal, boot | itself (`MCDuressVault.cfg`), `DuressVault_proofs` |
| `OneAccount` | what that promises: one account, replaced by its cover in one indivisible step | refined by `DuressVault` |
| `GroupRoster` | an owner's group, its durable delivery and the members' barriers | `MCGroupRoster`, `GroupRoster_proofs` |
| `DeviceList` | the primary's list of devices, the grant it owes, its way to a contact | `MCDeviceList`, `DeviceList_proofs` |
| `LinkInstall` | a device that joins: attempts, grants, installation, discard, recovery | itself (`MCLinkInstall.cfg`), `DeviceList_proofs` |
| `ContactMove` | one conversation and the rooms it moves through, record by record | itself (`MCContactMove.cfg`), `ContactMove_proofs` |
| `BlobQuota` | uploads between quota, worker requests and the bucket | `MCBlobQuota`, `AccountStore_proofs` |

`DeviceList` and `LinkInstall` are the two ends of a link: the first says what a
primary sends, the second takes as its primary any sequence of lists and grants
the first allows (versions grow, a grant names a list with the device).

### RelayRoom

One room. The platform runs a Durable Object one event at a time, and holds
events back during a storage operation, so a handler is one action up to its
first other await. Three awaits let other events in: charging the actor (another
object), verifying or claiming in `auth` (`AuthStart`, `AuthVerified`,
`AuthClaimed`), and the push requests of `alarm()` (`AlarmFires`, `PushDone`).
The first needs no variable: a frame's action may come at any time, even after
its socket is gone. `Drain` is the sending of the queue after `auth`; `got` is
what a client has received, `conn` says whether the room still sees the socket
and whether what it writes arrives. Bodies are names; the byte cap is `FullSend`,
which may refuse any message once the queue is not empty.

Properties: only a holder of the key receives (`OnlyOwnersReceive`), and an owner
socket that works has been sent every queued row (`OwnerSeesAll`), also rows that
came during its own `auth`; together `OwnersReceive`; the alarm is never later than a deadline
(`AlarmNeverLate`); a wake is armed only for a visible message (`NoPhantomWake`),
and an untaken visible message has one in time (`WakeCovered`); a row goes by
expiry or by its own acknowledgement only (`NoLoss`); pushes keep their distance
(`PushSpacing`); an abandoned mailbox empties itself (`AbandonedQueueDrains`).

### RelayClient

One client. `ws` is the socket whose events count, `readyState` the state of each; an index stands for a new socket once nothing of the old one is left. A
socket is lost with notice (`Fails`, then `OnClose`) or without (`Dies`: it leaves
`link`, and only a missing pong tells). `retries` counts the timers that `onclose`
has started, none of which is ever cancelled; `beating` and `pong` are the
heartbeat's. `signing` holds the sockets whose challenge is being signed: the
signature goes to whatever socket there is by then (`Signed`), and the relay closes
one that got the wrong one. A frame waits in `outbox` or has `left`, and its
promise is in `status`. Of the relay there is what it answers and `proven`, the
sockets it takes for the owner's; `RelayRoom` has its side in full.

`Close` may come at any time; `scheduled` remembers whether a timer to connect was
pending then, which `close` does not cancel.

Properties: `Disciplined` (one connection, and none after a `close` unless such a
timer was pending; a frame whose caller was told that it failed, and sends it again,
is not in the outbox); `ComesBack` (connected, and known for the owner, again and
again, whatever dies or comes late). `Prompt` says that a signature takes less than
the timers that replace a socket, 1.5 and 8 seconds. `MCRelayClosed.cfg` shows what
the pending timer does to a closed client (`ClosedForGood`), and, under `SignSpec`,
what a failing signature does, which `ClientFairSpec` leaves out. Left out: the push
subscription and its removal, received ciphertexts (`DeviceSession` has them).

### Ratchet, DeviceSession, MessageChannel

A key is a term: a root is the sequence of DH results mixed into it, a chain key
its root and a count, a message key a chain key. `DeviceSession` EXTENDS the
operators. A device is suspended in at most one task (`sending`, `receiving`);
between its steps the page may crash (`Crash`), a write may fail (`SendFails`,
`ReceiveFails`), an import may fence the messenger off (`Suspend`, `Resume`).
`mem` is the live session, `disk` the saved one; `Open` tries a frame on a copy
(`Candidate`), `Apply` saves the log, `Commit` the session, `Finish`
acknowledges. `sealed` holds frames saved and not yet sent; `rows` is the relay's
queue, offered in any order and until acknowledged. Faults are counted and
bounded by `MaxFaults`.

Properties: `KeyOnce` (SECURITY.md, Invariant I); `Deliverable` (Invariant II:
what the relay was given and is unread, acknowledged or not, can be opened from
memory and from disk, unless a stated limit or the tie-break excludes it) and `NothingLost`, together `MessagesKept`;
`Converged`; `CacheBounded`; `ExactlyOnce`, which is the refinement of `MessageChannel` under
`given <- Given`; `EventuallyRead`.

Two limits of the code show in `waived` and in `Excluded`: keys pushed out of a
full cache, and messages the higher device sealed under the session it gives up
in a simultaneous set-up. The lower device drops and acknowledges those: the
model records it as the stated behaviour of the tie-break.

### RuntimeLock

`owner` is the browser's side of the Web Lock; `held` and `release` are the
manager's. A release waits for one messenger's quiescence (`joined`), is then
`freed`, and only when the request's promise has settled (`Settled`) may the tab
ask again: that window is what `releasePending` and `releaseFinished` are for.
A tab has two slots for unlock flows, because `busy` is read from the render a
handler belongs to: the automatic biometric prompt is launched by an effect of an
older render and does not see that a passphrase was submitted meanwhile. A flow
goes `quiesce` (awaits `lockQuiescenceRef`), `auth`, `acquire`, `create` (a new
vault only), `timer` (the 260 ms before the messenger mounts). `stale` says that
the lifecycle epoch moved. A messenger is a number; `writing` holds the
messengers that have a queue task or an operation in flight, whether mounted or
not. React's commit and the effects it runs belong to the step that sets the
state. `vault` is the header on disk, as the number of its creation.

Properties: `HolderOnly` (a mounted messenger's tab owns the lock, and no release
is pending); `SingleWriter` (one writer in the origin, inside its ownership);
`ReadsAfterDrain` (no flow past its wait runs beside a writer of its tab). All
three are stated for histories in which no tab ran two flows at once
(`doubled = {}`): `MCRuntimeDoubled.cfg`, below, shows why.

### AccountStore

One database. IndexedDB runs overlapping transactions one after the other, so a
transaction is one step; what a tab remembers between two of them is `observed`,
`blocked` and `token`, the three module variables of `db.ts`. An ordinary write
is two steps (`IssueWrite` reads the latch, `WriteTx` checks and puts), with a
restore, a fence or a reload possible in between. `restore` is the progress of
`commitStagedRestore`: `staging`, `failed`, `discarded`, `done`; its steps are
`BeginAccountRestore`, one `StageRestoreRecord` per record, `CommitRestoreStage`,
and on failure `DiscardRestoreStage` and `CancelAccountRestore`. A record is
known by who put it there: a write carries the generation of the account its tab
has in memory (`loaded`), a restored one its number in the backup. That the
messenger is drained before an import and stays suspended after a successful one
(`suspendForRestore` in `Messenger.tsx`) is in `CanIssue` and in the guard of
`BeginAccountRestore`. `Reload` is a reload or a crash; `net` holds broadcasts,
which arrive in any order or not at all. `FenceVaultDbWrites` and
`NeutralizeVaultDb` are what a promotion or the removal of the decoy does to this
database. `lapsed`, `loaded` and `base` are history. Every other write helper
(`saveHeader`, `kvSet`, `deleteRecord`, ...) guards its transaction in the same
way and is not told apart from `saveRecord`.

Properties: no state of an earlier account enters the live one
(`OneGeneration`): the tab that committed a restore still has the old account in
memory, and a late cancel message of another tab lifts its latch, so this rests
on the messenger's suspension; a restored account is a whole backup
(`RestoreWhole`), because the identity is staged first and the commit asks for
it, together `RecordsAgree`; a restore that keeps its lease discards nobody's write
(`LeaseExcludesWriters`); a fenced database stands still (`FencedRecordsStand`);
nobody stays latched without a permanent reason (`LatchIsPermanentOnlyIfStale`).

### DuressVault, OneAccount

Two databases of one origin and two journals in localStorage. A step of a tab is
one transaction, or the code between two awaits; `tab[t].pc` says where in
`setDuressPassword`, `removeDuressPassword`, `openDecoyAndWipeReal` or
`completeDecoyPromotionUnlocked` it is, `op` what it came for, `env` the account
it shows and `wit` the decoy envelope it has opened. A tab waits for the mutation
lease in `wait`; every state in `Held` has it. `Crash` may come before any step,
and `Reopen`, `BootRemoval`, `BootPromotion` are what boot does with the journals.
A copy takes the header, the records and the remaining stores one after the other
(`Copy`), so a death leaves a mixture on the disk; a header that was overwritten
is `Garbage`. A deletion that timed out stays queued (`deleting`) and is served
any time later (`QueuedDelete`). An envelope is a number; the fence token of a
promotion is drawn with its journal and is that number too. `Timely` says that a
lease of a live tab does not lapse: the heartbeat renews it every twenty seconds
of sixty, and a browser that freezes a tab for a minute in a mutation is left out.
`Prompt` says that a lock screen handles the promotion's broadcast or storage event
(it reloads, as an open account does) before its user can open the half copied
account: the event is sent before the fence, the wipe and the copy, and the unlock
still has Argon2 before it. `unlockBoundVault` itself does not read the journal;
`MCDuressReopen` shows what rests on the event.

Properties: `Recoverable` (wherever it dies, the next boot finds a whole account
or a whole source); `ImplementsOneAccount`, the refinement of `OneAccount` under
`acct`, `ver`, `cover` as given at the end of the module: never a mixture, never an
account wiped without its cover, never later data undone by a second copy;
`JournalsFinish` = `PromotionFinishes` and `RemovalFinishes` (boot ends what was
begun, whatever dies under way). The second copy is why a journal has a phase `copied`, and the
fence why what is filled into the decoy while it is copied is not lost.

### GroupRoster

The owner's `chain` of signed states, and `marker`, the delivery it owes, change
in one compare-and-swap (`Publish`). Dispatchers (`job`) send the state to every
member of the roster they read, then removal proofs to those that are out, then
clear the marker; they run right after a commit, at boot, on reconnect and every
minute, so two may run at a time. A member's `inbox` is its relay queue; `next`
counts the rows it has handled and kept (frames of the state that follows its
own, whose content waits in `pend`). A task's writes are a sequence of disk
states (`InviteWrites`, `RemoveWrites`, `LeaveWrites`): a restart leaves the disk
as any of them (`Cut`), and boot judges a group and a tombstone that are both
there (`Recover`). A failed removal proof is swallowed by the code, and a member drops and
acknowledges an invitation that names somebody it cannot reach or has retired
(`DropGroupInvite`); `missed` is history, and excuses the member of either from the
properties.

Properties: `MembersTold` = `Told` (when nothing is owed, every member has its state or proof or
will find it in its inbox) and `InStep` (no frame is further ahead than a member may
defer it: `classifyGroupFrame` drops a larger jump for good); `BarrierHolds` (a
replayed or late row takes back no state and no removal, and does not bring back
a member that left); `Converges`, which also asks that who is added again gets in.
Left out: groups in the format before signed states, several devices of one
person, a member's change of identity, the cap and the age limit of `pend`.

### DeviceList

The primary's database has the list, at most one grant that is owed, and the
self-contact's copy; `own` is the copy in RAM. Every operation reads a snapshot,
awaits and commits by compare-and-swap (`Read`, `Commit`, `Held`), then publishes
and sends; jobs interleave at these points. A grant is owed until the relay's
receipt (`Send`, `Receipt`), and `clearPendingLinkGrant` clears that grant only.
The contact adopts newer lists and answers every one with the version it holds
(`Learn`, `Answer`); the primary offers its list until that version is its own.
`told` and `auth` are history: whose grant the relay has stored, and which
linking is a device's last.

Properties: `ListSound` = `NoFork` (no two lists of one version anywhere, under way
or adopted) and `NoGhost` (a listed device has its grant at the relay, or the primary
still owes it); `PeerLearns`. In one tab a linking dialog keeps its own buttons
apart, which is `Ops` in `MCDeviceList`; everything else may overlap.

### LinkInstall

`intent` is the attempt the user has confirmed, saved before it has any effect;
`held` are the rows of grants that have arrived and are not acknowledged. An
installation goes `check`, `swap` (identity and list in one transaction), `bar`
(every contact of the old identity; the snapshot request), `clear`, `done`, and
only then acknowledges. A failed write keeps rows and intent (`InstallFails`); a
restart restores the attempt and, if the identity was swapped, bars what is left
(`Rebarred`) before the inbox is connected. A failed installation starts again with
the row's next delivery, the next boot or the user's next confirmation; that one of
them comes is the fairness of `StartInstall`. `Discard` ends an attempt for good; the
cap on discards that are not yet cleaned up (`MAX_DISCARDED_TRANSCRIPTS`,
`linkRecovery.ts:349`), beyond which a discard is refused, is left out.
The primary is free to insert a grant several times and to publish lists that
overtake it (`Insert`, `Change`).

Properties: `LinkSafe` = `GrantKept` (the grant of a confirmed attempt is not
acknowledged before the link is durable), `DiscardFinal`, `InstallWhole` (the new
identity is not used with a contact of the old one, and that is durable when the
link is done); `LinkCompletes`. The bootstrap snapshot's content and the exchange
before the confirmation (QR code, offer, comparison) are left out.

### ContactMove

A contact's record and log are sealed under its room, so a move copies them and
then erases the originals: `Copy`, `Card`, `List`, `EraseKey`, `EraseLog`,
`EraseCard`, `Unlist`, and for an accepted claim `Retire`, each one write, with a
crash possible after any and a failure at any (`Fail`: the job ends where it is, and
memory stays ahead of the database). `After` is that order. Room 0 is the one an old
release derived from device keys, which `Migrate` leaves at boot; room *i* belongs to
the contact's *i*-th master. `live` and `view` are `contactsRef` and `messagesRef`; a
send captures its room (`Send`) and appends after the relay has answered (`Sent`),
to that room, also when its contact has been moved or removed meanwhile. A log
without its key is `ruined`: boot cannot get past it, `appendMessage` refuses it
(`SentRefused`), and a contact that the user adds there is not saved (`AddUnread`).

`told` is history: the messages shown and not deleted. Two more histories name what
the code loses or keeps although it should not, each at the one step that does it.
`astray` are the messages that were sent while their contact moved or was removed,
those of a room that another contact accepts as its new one, and after a failed write
those that only one of a contact's two records has. `left` are those of which a copy
outlives its contact: an accepted claim that died between the copy and its card, and
a move or a removal that failed.

Properties: `HistoryExact` = `HistoryKept` (a message that is not astray is readable
through a contact the next boot finds, wherever the job was cut, and is shown at rest
as long as no write has failed) and `NothingBack` (what was deleted does not come back
unless a copy was left); `OldRoomLeft` (boot ends and leaves the old room for good,
unless a log has lost its key or a write of the move has failed in that very boot).
What the exceptions cost is shown by a configuration each (under Findings). Left out:
`reconnectContact` and `acceptRotation`, which move a contact by the same
`reKeyContactInMemory`; messages that another of the user's devices mirrors into
a room without a contact; recalls, unread counts; a contact whose own old master is
unknown; logs of a release before room keys; what the user does in an application
whose boot has failed. Two contacts in memory that have come to share a room count
as one.

### BlobQuota

The quota's transactions are atomic; it awaits R2 in a reconciliation (page by
page: `ScanPage`, applied by `EndScan` if nothing has changed), and in a cleanup
(`Head`, `Headed`, `Abort`, `ReHeaded`, `Delete`, `Finished`, one per row and pass).
A worker's request (`req`) calls quota and R2 in turn and may die in between;
every call may fail, or take effect and lose its answer. R2 is external: it may
accept a completion and apply it later (`late`), and drops old objects by the
bucket's lifecycle rule. A deadline is a flag, set by `Elapse`.

Properties: `BudgetKept` = `WithinBudget` (the bucket never holds more than the account may, nor
an actor's uploads more than an actor may) and `Charged` (from the first
reconciliation on, what is in the bucket is counted or reserved); `Settles`
(every reservation is committed, released or cleaned up). The checked instance
has one cleanup pass at a time (`Aside = {}`); the passes that `reserve` and
`reservePart` leave behind are what the finding is about. With one of them
(`Aside = {"call"}`) the invariants hold in 2.65 million states as well, and the
proof is for any of them. A scan that finds more than the budget stops there and
prunes nothing (`Overfull`); the run's bucket stays within the budget, so the proof
alone covers that. Left out: the limits on the number of uploads and parts, of the same
form as those on bytes; uploads in several parts; and a completed object whose size is
not the reserved one (`worker/index.ts:760-770`), since the one part has that size: it
would be deleted and released as after a refused commit.

## Runs

| run | instance | what it shows |
|---|---|---|
| `relay_room` | an owner's socket and a guest's, 2 messages, 4 instants, cap 2 (1 unclaimed); 970 416 states | the safety of a room, and that an abandoned one drains, with fairness |
| `device_session` | 2 messages each way, one fault of any kind; 609 403 states | the session's safety, its refinement of the channel, and that everything given is read |
| `runtime_lock` | 2 tabs, no vault at first, 2 messengers a tab, 2 creations, automatic prompt | one writer, and unlocks after it |
| `account_store` | 2 tabs, 2 restores of 2 records, 2 writes, 3 generations, a lease of one of 4 instants | the safety of the account database |
| `duress_vault` | 2 tabs, 2 armings, 2 writes an account, 1 death, 1 lost header update; 146 358 states | one indivisible account, boot finishes |
| `group_roster` | 2 members, 2 dispatchers, 3 revisions, 1 message or leave, 1 fault; 567 722 states | every member ends with the owner's roster |
| `blob_quota` | 2 uploads and an old object, 2 requests, room for two, an actor for one, 1 stale hour, 1 fault; 859 092 states | the bucket is charged and bounded, every reservation ends |
| `device_list` | 1 device, 2 jobs, 3 versions, 2 linkings, 1 fault; 360 848 states | no fork, no ghost, the contact learns |
| `link_install` | 2 attempts, each grant twice, 4 versions, 2 faults; 364 467 states | a link is completed or discarded, never half |
| `contact_move` | an old room and 2 masters, 2 messages, 2 crashes or failed writes; 865 992 states | what is lost or comes back is what the named steps lose and leave; the old room is left |
| `relay_client` | an owner or a sender, 3 sockets, 2 frames, 4 faults; 422 753 states | one connection, which comes back |
| `blob_acknowledged` | `blob_quota` with a second cleanup pass | **violation**: the finding |

Further configurations are kept beside these and are run by hand
(`tlc -config X.cfg M`): `MCDeviceLimits.cfg` (a cache of 1 and a skip limit of 2
without faults: `CacheBounded` and `Deliverable` hold), `MCRelayRoomGuest.cfg`
(the stranger, who only sends in `relay_room`, asks for challenges too, with 3
instants: the safety of `relay_room` holds), `MCDuressDeaths.cfg` (the properties
of `duress_vault` with two deaths and one write: all hold), and the
counterexamples below. Some properties of the modules are in no run because
another one implies or covers them there: `AlarmNeverLate`, `NoPhantomWake`,
`PushSpacing`, `HolderOnly`, `FencedRecordsStand` and `ListForward` are proved;
`Converged` too.

Bounds. Every counter a spec keeps has a bound in a guard, named as a constant.
Two sockets are what the races of a room need: one holder of the key and one
stranger, and the holder may ask for a second challenge while the first is being
verified; its second connection is the same socket again after `Connect`. Two
messages make order, duplication and a full queue visible; four instants are the
expiry of what was sent in the second of them, with a coalescing window and a
push before it. For a pair of devices two messages each way are
the shortest conversation with a DH step in both directions, an overtaken frame
on both chains and a simultaneous set-up; a second fault adds histories, not a
new kind of state, since a task's failure and a crash return to the saved state.
Two tabs and two messengers a tab are an outgoing one and its successor, in both
places; `OneFlowEach` cuts the search where a tab runs two flows at once, since
every property assumes that away, and `MCRuntimeDoubled.cfg` looks there. For the
database, two records are the identity and one that may be missing beside it, and
two restores are one that lapsed and the one that took its place; three ticks
let a lease run out in either of them and be renewed. Two armings are a decoy
and the one that replaces it while somebody waits with the first one's envelope,
two writes tell a copy that undoes the later one from a copy that undoes nothing
(with one write a second step of the version looked like that write), and in
`MCDuressDeaths.cfg` the recovery from a death dies too. Three revisions are a removal and
the return of the member, or a change that overtakes a delivery; with two members
one is removed while the other learns. Two uploads compete for the last room in
the bucket, two requests are an upload and its retry or its abort. Two linkings
of one device are a linking and its repetition after a cancellation; two
attempts of a device that joins are one discarded and its successor. Two
masters are boot's move and the move of an accepted claim after it, with the second
master's room empty or taken; two messages are one in either room of a move; the
second crash or failed write falls into the recovery from the first. `contact_move`
also holds with three masters and one fault (7.0 million states), with three messages
and one fault, and with four messages and two faults of one master. Three sockets are the one in use,
one it replaced that has not closed, and one whose challenge is still being signed;
four faults lose one after the other, and once more. Deadlock
checking is off in every run: each of these systems may really stop (a clock at
its bound, all messages read, nobody at the keyboard).

Fairness. `RelayRoom`: the clock, the platform's alarm delivery and the end of a
push request (`PUSH_TIMEOUT_MS`); nothing is assumed of any client.
`RelayClient`: timers run out, the browser reports what becomes of a socket and
signs, the relay's challenge arrives; that a pong or an answer arrives is not
assumed. `DeviceSession`: as long as a running task can go on, something saved can
be sent, a row can be offered or an import's failure resumes the messenger, one of
these happens (`Progress`), and no more is assumed of which. A device is never
assumed to send. `DuressVault`: the app is opened again, its code runs on, the
lease's polling lets nobody starve, a lapsed lease and an unblocked deletion are
noticed; nobody is assumed to type a passphrase. `GroupRoster`: the delivery is
retried (boot, reconnect, a timer), a dispatcher goes on, and connections last
long enough for a row, which is strong fairness because `Reconnect` starts a
device's rows again. `DeviceList`: calls return, the relay delivers, and there is
always another occasion to offer the list. `LinkInstall`: the steps of an
installation and of a discard, the relay's rows on every connection, and that a
failed installation is tried again (redelivery, boot or the user, see above).
`BlobQuota`: time passes, alarms fire until they succeed (the platform's promise),
a cleanup's calls return; nothing is assumed of workers or clients. `ContactMove`: the
app is opened again, boot and what the queue has begun go on. `RuntimeLock`
has no liveness property: whether a tab unlocks is the user's choice.
`AccountStore` has none either: that writes come back after a crashed restore is
the safety property of the latch, and the clock.

## Findings

`blob_acknowledged` / `AcknowledgedKept`. `reserve` and `reservePart` leave a
`cleanupDue()` behind with `waitUntil`, and `alarm()` runs another; nothing keeps
two passes off one `completion_cleanup` row. Both find the object in R2; the first
books it (`promoteRecovered`), the worker's retry of the commit finds the receipt
and answers the client with success; the second finds no row to promote, takes
that for an object that cannot be booked, and deletes it
(`worker/blob-quota.ts:932-934`). The receipt's own comment promises the opposite.

Counterexamples that are kept as configurations and not as runs:

- `MCDeviceFence` / `UnsavedStaysQueued`. An import suspends the messenger while a
  receive is in its queue: the receive opens its frame, is refused the write, and
  its `finally` records the row id as seen. When the import fails and the messenger
  resumes, the relay offers the row again and it is acknowledged unopened.
- `MCRuntimeDoubled` / `LockOutlivesWriters`. Two unlock flows of one tab, both
  waiting for the outgoing messenger: the first mounts a new one, the page is
  hidden, the second is discarded as stale and frees the Web Lock at once, while
  the messenger it unmounts still has a task in flight.
- `MCRuntimeCreate` / `OneVault`. A tab left on the creation screen overwrites the
  header of a vault another tab has created since, used and locked.
- `MCAccountLapse` / `ExpiredOwnerFailsClosed`. A restore begins and stalls; its
  lease expires, another page opens the database and removes lease and stage, a
  write is accepted; the restore goes on, finds no lease where it had one, installs
  a fresh one, commits, and the write is gone. Once the first record is staged the
  same history ends in a refused commit, which `RestoreWhole` shows.
- `MCDuressRemoval` / `ArmedHasDecoy`. A tab types the duress passphrase and waits
  for the lease of another that removes the decoy; that one journals the removal,
  empties the decoy and dies. The first gets the lease, drops the removal's journal
  (`vaultService.ts:472`), finds its source gone and gives up: the header says
  `decoyArmed` for good, although a crash "at any following point is completed at
  boot" (`vaultService.ts:849-850`).
- `MCDuressReopen` / `ImplementsOneAccount`. Another tab's lock screen opens the
  promoted account once its stores are copied and before the journal says `copied`,
  and writes. Should the promoting tab die there, boot copies again and the writes
  are gone. The tab's reload on the promotion's event is all that prevents it
  (`App.tsx:507-514`): the unlock path reads no journal and takes no lease.
- `MCRelayClosed` / `ClosedForGood`. `close` does not cancel the timer that `onclose`
  has started (`relay.ts:124`), and `connect` resets `closedByUs`: a client that is
  closed in those 1.5 seconds opens a socket afterwards, which nobody holds any
  more. It proves the ownership (the closure has the key), sends the frames whose
  callers were told "failed", and makes the relay take a locked page for an owner
  who is online, so that nothing wakes it. The messenger's end says that nothing
  can "create a replacement relay" (`Messenger.tsx:5835-5836`).
- `MCRelayClosed` with `SignSpec` / `ComesBack`. The catch
  of a failed signature calls `close(1007)` (`relay.ts:230`); a page may close with
  1000 or 3000 to 4999 only, so the call throws, and the socket stays open and
  unproven until something else loses it.
- `MCGroupLeave` / `ValidLeaveKept`. A leave request arrives while the owner still
  owes a delivery: the commit throws (`Messenger.tsx:6622`), and the receive
  acknowledges the row; the member is out and stays on the roster.
- `MCGroupReadd` / `ProofIsCourtesy`. A removal proof whose sending failed is not
  only a missing notice (`Messenger.tsx:6567`): a member that was offline keeps
  its old state, and when it is added again the new state is two revisions ahead
  of what it holds and is refused.
- `MCContactErase` / `BootEnds`. A crash between the room key and the log "leaves
  the blob unreadable — i.e. gone" (`messages.ts:179-180`), but it is still there:
  the contact or the log is found at the next boot, `loadMessages` throws, and the
  whole boot task fails, then and every time after.
- `MCContactFail` / `MergeKeeps`. A write fails in boot's move. The contact in memory
  has its new room already, so it does not stay as it was (`Messenger.tsx:4100`); its
  next messages are saved there, and the next boot takes the two for copies of each
  other and deletes the shorter history.
- `MCContactTwice` / `Merged`. A crash leaves "a benign duplicate that the boot merge
  collapses" (`rekey.ts:11-12`): boot groups by target room, and two rooms of two
  masters are never one group.
- `MCContactWindows` / `ReachesContact`. A send is on the wire while its contact moves
  or is removed: its message is appended to the room that was left, which has no
  contact any more ("no site can orphan history", `Messenger.tsx:3974-3975`).
- `MCContactWindows` / `NothingOverwritten` (as the invariant). A claim is accepted
  although its room has a contact (a crash as before, or the user scanned the new code
  first): the move writes the old history over that room's own. It does not look, so
  the same goes for what another device has mirrored there, which `addBundle` takes
  care of (`Messenger.tsx:5424-5426`).
- `MCContactWindows` with one fault / `NoneBack` (as the invariant). A removal whose
  first write fails has taken the contact off the screen and nothing from the disk; a
  crash after the copy of an accepted claim leaves a copy that has no contact and
  survives the deletion of the one it was taken from. Either history is shown again
  when a contact of its room is made.
- `MCContactRetired` / `RetiredForGood`. A master on the denylist "is never accepted
  again on any path" (`denylist.ts:17-18`); `addBundle` does not ask the denylist.

`PROJECT.json` quotes the lines of code and documentation that disagree in the
registered one.

## Proofs

`RelayRoom_proofs` proves, for any sockets, caps and times, `RelayInvariant`
(`Spec => []Inv`) and from it type correctness and the safety properties
of a room, those of `relay_room` among them but for its liveness. None of them is
inductive alone. `OwnerSeesAll` needs that a row's id names its body (`IdsNameBodies`, AUTOINCREMENT); `AlarmNeverLate` needs
what holds while `alarm()` is suspended (`AlarmServes`); `WakeCovered` and
`PushSpacing` need bounds on the push deadline against clock and last push
(`WakeBooks`, `PushBooks`); `OnlyOwnersReceive` needs what suspended `auth`
handlers have established (`AuthsOK`). `DeliveryExact` joins it to `OwnerSeesAll`.
One lemma per action shows that the conjunction is kept; `ScheduleNextCovers` and
`FewerRows` are the facts about the alarm and about handlers that only remove rows.

The same module proves of the other end, `RelayClient`, for either kind of client and
any number of sockets, frames and faults, `ClientInvariant`, and from it
`ClientTypeOK`, `OneConnection` (only the socket whose events count is ever open or
opening) and `Disciplined`. `OneSocket` says where a second connection could come
from: every path that opens one looks at the socket it replaces, or has closed it
(`ConnectsOne`). `Books` ties each frame to its promise. That a closed client opens
no connection is `Quiet`: a timer that is pending then was pending at the close,
which is what `Disciplined` excepts. Neither assumes anything of when `close` comes.

`RuntimeLock_proofs` proves, for any set of tabs, with and without the automatic
prompt, `RuntimeInvariant` and from it `TypeOK`, `HolderOnly`, `SingleWriter` and
`ReadsAfterDrain`. The invariant says where a writer can be: it is the latest
messenger of its tab, mounted, or the one that the pending release and the next
unlock both wait for (`WritersKnown`); every running flow of that tab still waits
for it (`FlowsWait`); while a messenger is mounted its tab holds the lock and no
flow runs (`Settledness`); a flow about to open has the lock unless it is stale
(`FlowsHold`). The lemmas `CalmerKeeps`, `FlowStarts` and `FlowMovesOn` carry
the argument once for the three kinds of step a flow takes, and each action's
lemma shows which kind it is.

`AccountStore_proofs` proves, for any number of tabs, records, restores and
generations and any lease, `AccountInvariant` and from it all properties of
`account_store`, and `FencedRecordsStand`. The invariant ties a tab's memory to
the database: what it has
loaded is what it observed unless it has just committed a restore (`GenBooks`); a
write is under way only where no import runs (`WriteBooks`); tokens are unique
(`RestoreBooks`); while the identity is in the stage nothing staged is missing,
since whatever clears the stage takes the identity too (`StageBooks`); a restore
that never lapsed holds the lease and has seen no write (`LeaseBooks`).
`RefusedInv` is the one argument for all transactions that are turned down.

The same module proves of the uploads, `BlobQuota`, for any finite set of uploads and
old objects, any sizes and owners, any requests and any passes beside the alarm's,
`BlobInvariant`, and from it `BlobTypeOK` and `BudgetKept`; the latter assumes
`Sum(Legacy) <= Budget`, since what was there before the quota is in the bucket at the
start. `BudgetKept` is about tables and bucket and says nothing of who may still
change the bucket. The invariant gives an upload one life (`Uploads`): it is opened
in R2, perhaps reserved, and done; while R2 has it open and a client knows it, it has
a row, so a late completion only adds what is reserved. A row goes without a receipt
only where the upload has ended, done and without an object (`Ended`), and that is
what a request knows when it releases (`Requests`) and a pass when it finishes
(`Passes`); R2 keeps no snapshot, so a scan that no row has left is right about what
it has gone past (`Scans`), which makes its sum an upper bound when it is applied.
`Accounts` is then: what is in the bucket without a row is at most the count (unless
the count itself is over the budget), and what is in
the bucket or reserved is within the limits, because `reserve` adds its row to both
sums at once. `Renewed`, `Dropped`, `Promoted`, `Admitted`, `Applied`, `Shrunk` and
`Moved` are the seven things a step does to the tables and the bucket; each
action's lemma says which it is. The sums are folds over sets. What these lemmas need of them
(`SumAdd`, `SumGrows`, `SumUnion`) is proved by the least cardinality of a
counterexample (`Least`, `Smallest`), which takes the place of an induction over sets.

`DeviceList_proofs` proves, for any devices, any number of jobs and any mix of
operations in them, `DeviceListInvariant` and from it `TypeOK`, `NoFork` and
`NoGhost`. `NoFork` is not inductive: a job that holds a snapshot or a grant may
publish it much later. `ListBooks` therefore speaks of every list that is
anywhere, those of grants in the hands of jobs included: the primary's is the
newest, and a version tells the list. A commit compares with the snapshot, so
what it signs is newer than all of them or the list itself (`SignedNews`,
`ListsStand`). `NoGhost` needs that a linking's number is new and that a receipt
means that the relay has that grant (`GrantBooks`), and that a cancellation takes
back the grant of the device it removes (`JobBooks`). `JobStep` is the one
argument for all steps of a job that sign nothing.

The same module proves of the other end of a link, `LinkInstall`, for any number of
attempts, copies and restarts, `LinkInvariant` and from it `LinkTypeOK`, `LinkSafe`
and `ListForward`. `GrantKept`
speaks of the confirmed attempt; what is inductive is that the grant of the attempt at
hand, confirmed or not yet, is in the inbox (`BoxBooks`), that an intent is that
of the attempt at hand (`AttemptBooks`), and that barriers are durable before the
intent is cleared (`InstallBooks`). A discard began before there was an identity
and keeps the installation out, which is why `DiscardFinal` holds.

`GroupRoster_proofs` proves, for any members, dispatchers and revisions,
`GroupInvariant` and from it `TypeOK`, `Told`, `InStep` and `BarrierHolds`. `Due` is
the set of states a person must be told of: those it is in, and the one after, by
which it was removed. The invariant says of each person who missed no removal proof,
dropped no invitation and has not left that it is at the state, or has the row, of every due state but the
one still owed (`Reached`); that before any row, a message's too, there is one for
each earlier due state it is not yet at (`InOrder`); and that rows say what the
chain says (`TrueRows`). The row at hand is then the next that is due, so it
follows what the member holds (`NextDue`, `NextToHeld`), and a stale dispatcher can
only add rows of states that everybody was told of. `JobBooks` says that
what a dispatcher of the last state need no longer send is sent, so clearing the
marker is safe whichever dispatcher does it. That the state between holding and not
being in the roster any more exists is kept along the chain (`ChainBooks`), there
being no induction over it. `Lawful` is what a write may make of a disk; that each
prefix of a task's writes is lawful after the recovery at boot (`InviteLawful`,
`EraseLawful`) gives `BarrierHolds` for every crash.

`DuressVault_proofs` proves, for any tabs, armings, writes, deaths and lost header
updates, `DuressInvariant` and from it `TypeOK`, `Recoverable` and the refinement of
`OneAccount`. Each theorem assumes `Timely` and `Prompt`: `MCDuressReopen` refutes
the refinement without the second. `Recoverable` is about two databases and says
nothing of who may still change them; the invariant says it. A tab in a mutation has
the lease, so it is alone (`LeaseBooks`), and what the databases and the journals are
then follows from the step it is at (`Stage`): the wiped target, the target with the
source's header, with its records, equal to it. With nobody in the mutation the
canonical account is whole unless its journal says `pending`, and then the decoy is
a whole source of the journal's envelope (`RealBooks`, `DecoyBooks`); a deletion is
left in the queue only by a promotion that has copied (`deleting => Copied`), so it
never meets a cover armed since. `Apart` says that nobody shows the decoy before it
is promoted, which keeps a later write from going into the copy's source. `OneTab`
is the one argument for a step of the tab that has the lease, `Quietly` for a step
that changes nothing on the disk; every step maps to a step of the account or to
none (`OneMutation`, `OneWrite`, `OneFill`), and the switch is the promotion's journal
(`OneBind`), not the copy.

`DeviceSession_proofs` proves, for any number of messages and faults and any limits
of the ratchet, `SessionInvariant` and from it `TypeOK`, `KeyOnce`, `CacheBounded` and
the refinement of `MessageChannel`. `KeyOnce` needs to know why a device never comes
back to a chain it has used, although a restart takes its session back. The last
output in a sending chain's root has a key pair of the device's own, and that one was
fresh when the chain was made (`OwnRoot`): a chain that is made again after a restart
is another chain. On the chain a session has, what left the device lies behind its
counter, in memory, on disk and in the candidate of a receive (`Ahead`), because a
frame leaves only after the session that made it is saved. And the two devices have
no chain in common: the one that chose the secret sends on roots of even length, the
other on odd ones. `Queues` and `OpensGenuine` say that a frame that opens is one the
peer made, so a candidate's root has a length and a secret that fit. The ratchet's
own lemmas (`Skipping`, `Turning`, `Reaching`, `Decrypting`) say what its operators
return for every state, and `Opening` what a receive may make of a session. The
refinement needs of the invariant that what is applied came from the relay, and
that a log's entries differ (`Logs`).

The same module proves `MessagesKept` and `Converged`, from a second invariant,
`KeepInv`, which sets the two ratchets of the pair side by side. `Deliverable` says
that a frame opens; what is inductive is where each frame is. For its sender the
frames form a line of chains that ends with the session it has, a chain's length
being its place (`Behind`, `InLine`). For its receiver a frame of the session is in
the chain that the next turn of the ratchet makes, further on in the chain it
receives on, or gone by (`Placed`); the first two open (`Openable`), and what was
gone by was read, or has its key in the cache, or lost it to later keys of its
chain in a full cache (`Heard`). The two sessions of a pair stand one turn apart
(`Met`), and a receiving chain exists because a frame of it was sent (`Grounded`),
so a turn never goes past a chain whose end is not known. The saved session is the
live one but for what was sealed in between (`Saved`), which is why a crash
strands nothing. A candidate is still what the live session would make of its row
when it is committed, and its key pair has left the device in no frame (`Drafted`).
`Secrets` and `Converged` are the tie-break: a frame without a prekey header exists
only when the other device has its session saved. The lemmas `Commit...` give each part
for the one step that changes a session by a receive: by the cache (`ByCache`),
along the chain (`ByChain`), by a turn (`ByTurn`) or from a prekey frame. `Quiet`
is the argument for the steps that save nothing, `RowsKeep` for those that only move
rows; `NothingLost` then needs that a row is acknowledged when its frame is done
with (`Books`), and `DropKeep` that a frame which does not open is excluded, which
is `Deliverable` itself.

`ContactMove_proofs` proves, for any number of masters, messages, crashes and failed
writes, `ContactInvariant` and from it `TypeOK` and `HistoryKept`, and with a second
invariant `HistoryExact`, without any assumption on when the user accepts, removes or
sends. `HistoryKept` is not inductive,
since it does not say why the copy is whole when the original goes. The invariant says
which jobs there are (`Kinds`) and how far the database is at each stage of one
(`Stages`): when the old room's key may go, the new log is the old one, and the new
contact is listed. `Held` says where a message is that the user may still expect: in
the log and in the memory of a contact that no job is about, or in the hands of the
job (`Carries`). `Contacts` and `Views` tie memory to the database as long as no write
has failed, with the exception of the room on its way; `Young` says that what a crash
leaves then boot can pick up, and that of two copies the new room's includes the old
one's. After a failed write, or before boot has read the database, memory says
nothing, and the message is in a log that the next boot reads (`Guarded`); a later move
or merge may still take the place of a log, and `Failing` says that it then loses only
what was put astray. `StageKeeps`, `Advance` and `StillGuarded` are the arguments that
all stages have in common, `AppendInv` and `SaveInv` those for what is saved outside a
job.

`NothingBack` needs the second invariant, `Back`. `Knows` says that what a room holds, on
disk or in memory, is in the user's hands or one of the copies left, unless boot cannot
get past the room's log or the contact is just being removed. When a removal erases a
room, what counts as deleted is what was in no other room, so `Doubles` has to say what
two rooms have in common: it is saved and shown in each of them, or in the hands of a
running job, or a copy that was left. `OldRoom` says the same of the old room, from which
boot moves to one room only; `Unread`, `Claims` and `Handed` say which contacts may be
without a history in memory and what a job holds. `OldRoomLeft` is only model-checked.

The assumptions are the named ASSUMEs of the modules: caps, windows and
bounds are natural numbers, `None` is none of the values it stands beside, a key that
is not genuine is none of the genuine ones (`SymbolAssumption`), a vault that is
there at the start has been created, and uploads and objects are finitely many
and have a positive size (`BlobAssumption`).

Only model-checked: liveness in every run that has it, which is out of the prover's
reach, and the counterexamples.

## Plan

The components whose order of steps matters are modelled. Left, in this order:

1. The wipe of a deleted account (`wipeAccount`, `RESET_MARKER`) beside the
   journals of `DuressVault`.
2. `reconnectContact` and `acceptRotation` in `ContactMove`, and the histories that
   another device mirrors into a room without a contact.

## Not modelled

- Biometric enrolment and changes of the passphrase; the lockout counter, whose
  read-modify-write across tabs is listed as a hazard.
- The client's part of large attachments (chunking and decryption): its requests
  are those of `BlobQuota`.
- Groups of the format before signed states, the bootstrap snapshot of a linked
  device, the exchange that precedes a link's confirmation, device names.
- The relay's retry identifiers, actor charging and subscription records; the
  client's push subscription.
- The user interface, its texts and the decoy's sample content, which are about
  half of the lines of the repository and have no behaviour to check; request
  routing, rate limits, single-row directories (contact codes, the official
  account), administration scripts, the service worker's caches.
- Cryptographic primitives and codecs, which are taken as perfect: a key is a
  symbolic term and opens what it sealed, and nothing else.
