---------------------------- MODULE ContactMove -----------------------------
(***************************************************************************)
(* One conversation and the rooms it moves through (src/src/lib/rekey.ts,  *)
(* store.ts, messages.ts, and their callers in src/src/Messenger.tsx).     *)
(*                                                                         *)
(* A contact and its history are sealed under the room they belong to, so  *)
(* a move to another room copies them and then erases the originals, one   *)
(* record at a time.  Room 0 is the one that an old release derived from   *)
(* device keys; boot moves it to room 1, that of the contact's first       *)
(* master.  Room i is that of the contact's i-th master: a message under a *)
(* new master that names the old one leaves a claim, which the user may    *)
(* accept.                                                                 *)
(*                                                                         *)
(* Moves, removals and boot run in the inbox queue, one at a time.  While  *)
(* one runs, the rooms it is about take no message, but a send that was    *)
(* under way puts its message into its room afterwards, whatever has       *)
(* become of the contact.  The program may die after any write, and any    *)
(* write of a move or a removal may fail, which ends the job where it is.  *)
(*                                                                         *)
(* Left out: sessions (both copies of a contact have the same, and they    *)
(* cancel in the score); logs of a release before room keys, which no      *)
(* crash makes unreadable; what the user does after a boot that failed.    *)
(* Two contacts in memory that have come to share a room count as one.     *)
(***************************************************************************)
EXTENDS Naturals, FiniteSets

CONSTANTS
    MaxMaster,  \* bound on the contact's masters
    MaxMsg,     \* bound on messages
    MaxFault,   \* bound on crashes and failed writes
    None        \* no log in the database, or no history in memory

ASSUME ContactAssumption ==
    /\ {MaxMaster, MaxMsg} \subseteq Nat \ {0} /\ MaxFault \in Nat
    /\ \A S \in SUBSET (1..MaxMsg) : None # S

Master == 1..MaxMaster
Room   == {0} \cup Master
Msg    == 1..MaxMsg

VARIABLES
    cards,    \* the database: rooms with a contact record,
    index,    \*   the rooms that the contact index lists,
    claim,    \*   the record's pendingMaster; 0: none
    log,      \*   the messages of each room, or None,
    ruined,   \*   rooms whose log has lost its key,
    retired,  \*   masters on the denylist
    phase,    \* "off", "boot" or "up"
    live,     \* memory: the contacts, by room,
    view,     \*   the histories,
    typing,   \*   rooms whose send is on the wire and not yet in the log
    job,      \* what the inbox queue is at
    sent,     \* messages so far
    faults,
    failed,   \* whether a write has failed: "never", "before" or "now"
    told,     \* history: the messages the user has not deleted,
    astray,   \*   those that a step has put out of a contact's reach,
    left      \*   those of which a move or a removal has left a copy behind

disk == <<cards, index, claim, log, ruined, retired>>
ram  == <<live, view, typing>>
hist == <<told, astray, left>>
vars == <<disk, phase, ram, job, sent, faults, failed, hist>>

NoJob  == [of |-> "none", from |-> 0, to |-> 0, at |-> "copy"]
Stage  == {"copy", "card", "list", "key", "log", "record", "unlist", "retire"}
Free   == job = NoJob
Locked == IF Free THEN {} ELSE {job.from, job.to}
Moves  == job.of \in {"move", "accept"}
Listed == index \cap cards
Empty  == [r \in Room |-> None]
\* loadMessages
Log(r)  == IF log[r] = None THEN {} ELSE log[r]
\* A history that memory lacks is loaded from the database before it is used.
Read(r) == IF view[r] = None THEN Log(r) ELSE view[r]

\* What a contact both shows and has saved, and what some rooms have saved.
Has(r)   == Log(r) \cap Read(r)
Saved(R) == UNION {Log(r) : r \in R \ ruined}

Init ==
    /\ \E old \in {{0}, {}}, h \in {{}, {1}} :
        /\ cards = old /\ index = old
        /\ told = IF old = {} THEN {} ELSE h
    /\ log = [r \in Room |-> IF r = 0 /\ told # {} THEN told ELSE None]
    /\ claim = [r \in Room |-> 0]
    /\ ruined = {} /\ retired = {} /\ live = {} /\ typing = {}
    /\ phase = "off" /\ job = NoJob /\ view = Empty
    /\ sent = 1 /\ faults = 0 /\ failed = "never"
    /\ astray = {} /\ left = {}

\* Contacts first, then their histories; an unreadable one fails boot for good.
Boot ==
    /\ phase = "off" /\ phase' = "boot"
    /\ live' = Listed
    /\ view' = IF Listed \cap ruined # {} THEN Empty
               ELSE [r \in Room |-> IF r \in Listed THEN Log(r) ELSE None]
    /\ UNCHANGED <<disk, typing, job, sent, faults, failed, hist>>

\* Mutant: the order of the index decides.
OldWinsAnyway == TRUE

\* Two contacts with one target: the longer history stays, in a tie the one
\* that is there already.
OldWins == 1 \notin live \/ Cardinality(view[0]) > Cardinality(view[1])

\* After a failed write a history may be replaced by one that lacks some of it.
GivenUp(r, q) == IF failed = "never" THEN {} ELSE Log(r) \ Log(q)

\* Mutant: the loser is dropped from memory only.
MigrateForgets ==
    /\ phase = "boot" /\ Free /\ 0 \in live /\ live \cap ruined = {}
    /\ live' = (live \ {0}) \cup {1}
    /\ job' = IF OldWins THEN [of |-> "move", from |-> 0, to |-> 1, at |-> "copy"]
                         ELSE NoJob
    /\ astray' = astray \cup IF OldWins THEN GivenUp(1, 0) ELSE GivenUp(0, 1)
    /\ UNCHANGED <<disk, phase, view, typing, sent, faults, failed, told, left>>

Migrate ==
    /\ phase = "boot" /\ Free /\ 0 \in live /\ live \cap ruined = {}
    /\ live' = (live \ {0}) \cup {1}
    /\ job' = [of |-> IF OldWins THEN "move" ELSE "merge", from |-> 0, to |-> 1,
               at |-> IF OldWins THEN "copy" ELSE "key"]
    /\ astray' = astray \cup IF OldWins THEN GivenUp(1, 0) ELSE GivenUp(0, 1)
    /\ UNCHANGED <<disk, phase, view, typing, sent, faults, failed, told, left>>

\* The histories of rooms without a contact are loaded, too, then it connects.
Up ==
    /\ phase = "boot" /\ Free /\ 0 \notin live
    /\ \A r \in ruined : view[r] # None
    /\ phase' = "up"
    /\ view' = [r \in Room |-> IF r \in live \/ log[r] # None THEN Read(r)
                                                              ELSE None]
    /\ UNCHANGED <<disk, live, typing, job, sent, faults, failed, hist>>

Ready == phase = "up" /\ Free

\* appendMessage, which refuses to write over a log it cannot read
Append(r) ==
    /\ r \notin ruined
    /\ sent < MaxMsg /\ sent' = sent + 1
    /\ log' = [log EXCEPT ![r] = Read(r) \cup {sent'}]
    /\ view' = [view EXCEPT ![r] = Read(r) \cup {sent'}]
    /\ told' = told \cup {sent'}
    /\ astray' = astray \cup (IF r \in live \cap Listed' THEN {} ELSE {sent'})
                        \cup (IF failed = "never" THEN {} ELSE Log(r) \ Read(r))

\* saveContact, for a contact in memory that claims j
Save(r, j) ==
    /\ cards' = cards \cup {r} /\ index' = index \cup {r}
    /\ claim' = [claim EXCEPT ![r] = j]

Receive(r) ==
    /\ Ready /\ r \in live
    /\ Save(r, claim[r]) /\ Append(r)
    /\ UNCHANGED <<ruined, retired, phase, live, typing, job, faults, failed,
                   left>>

\* onSend captures the room, encrypts, awaits the relay, and then appends,
Send(r) ==
    /\ Ready /\ r \in live /\ typing = {}
    /\ typing' = {r} /\ Save(r, claim[r])
    /\ UNCHANGED <<log, ruined, retired, phase, live, view, job, sent, faults,
                   failed, hist>>

\* to that room, even if its contact has been moved or removed meanwhile.
Sent(r) ==
    /\ r \in typing \ Locked /\ typing' = {}
    /\ UNCHANGED <<cards, index, claim, ruined, retired, phase, live, job,
                   faults, failed, left>>
    /\ Append(r)

SentRefused(r) ==
    /\ r \in (typing \cap ruined) \ Locked /\ typing' = {}
    /\ UNCHANGED <<disk, phase, live, view, job, sent, faults, failed, hist>>

\* A message under a master without a contact that names the contact's master.
Claim(r, j) ==
    /\ Ready /\ r \in live /\ j \notin live /\ {r, j} \cap retired = {}
    /\ claim[r] = 0 /\ Save(r, j)
    /\ UNCHANGED <<log, ruined, retired, phase, ram, job, sent, faults, failed,
                   hist>>

\* One that names none makes a contact, whose history starts empty;
Greet(j) ==
    /\ Ready /\ j \notin live \cup retired
    /\ live' = live \cup {j} /\ view' = [view EXCEPT ![j] = {}]
    /\ Save(j, 0)
    /\ UNCHANGED <<log, ruined, retired, phase, typing, job, sent, faults,
                   failed, hist>>

\* the user's scan of a code makes one with the history that is there,
AddBundle(j) ==
    /\ Ready /\ j \notin live \cup ruined
    /\ live' = live \cup {j} /\ view' = [view EXCEPT ![j] = Read(j)]
    /\ Save(j, 0)
    /\ UNCHANGED <<log, ruined, retired, phase, typing, job, sent, faults,
                   failed, hist>>

\* or, where that cannot be read, one that is not saved.
AddUnread(j) ==
    /\ Ready /\ j \in ruined \ live
    /\ live' = live \cup {j}
    /\ UNCHANGED <<disk, phase, view, typing, job, sent, faults, failed, hist>>

\* acceptNewIdentity asks neither for a contact of the new master nor for a
\* send; what is in the new room will be overwritten.
Accept(r) ==
    /\ Ready /\ r \in live /\ claim[r] # 0
    /\ live' = (live \ {r}) \cup {claim[r]}
    /\ job' = [of |-> "accept", from |-> r, to |-> claim[r], at |-> "copy"]
    /\ astray' = astray \cup IF claim[r] \in live THEN Log(claim[r]) \ Has(r)
                                                  ELSE GivenUp(claim[r], r)
    /\ UNCHANGED <<disk, phase, view, typing, sent, faults, failed, told, left>>

Delete(r) ==
    /\ Ready /\ r \in live /\ (r \in ruined => view[r] # None)
    /\ live' = live \ {r} /\ view' = [view EXCEPT ![r] = None]
    /\ job' = [of |-> "delete", from |-> r, to |-> r, at |-> "key"]
    /\ UNCHANGED <<disk, phase, typing, sent, faults, failed, hist>>

-----------------------------------------------------------------------------
(* Moves and removals, one record at a time.                               *)

After(at) == [copy |-> "card", card |-> "list", list |-> "key",
              key |-> "log", log |-> "record", record |-> "unlist",
              unlist |-> "retire"][at]

At(at) ==
    /\ ~Free /\ job.at = at
    /\ job' = IF at = "retire" \/ (at = "unlist" /\ job.of # "accept")
              THEN NoJob ELSE [job EXCEPT !.at = After(at)]
    /\ UNCHANGED <<phase, live, typing, sent, faults, failed, astray, left>>

\* loadMessages and saveMessages, which need both logs readable
Copy ==
    /\ At("copy") /\ {job.from, job.to} \cap ruined = {}
    /\ log' = [log EXCEPT ![job.to] = Log(job.from)]
    /\ UNCHANGED <<cards, index, claim, ruined, retired, view, told>>

Card ==
    /\ At("card")
    /\ cards' = cards \cup {job.to} /\ claim' = [claim EXCEPT ![job.to] = 0]
    /\ UNCHANGED <<index, log, ruined, retired, view, told>>

List ==
    /\ At("list")
    /\ index' = index \cup {job.to}
    /\ UNCHANGED <<cards, claim, log, ruined, retired, view, told>>

\* What a removal takes from the user: what no other contact shows and saves.
Gone == Log(job.from)
        \ UNION {Has(r) : r \in (live \cap Listed) \ ruined}

\* Mutant: the key stays.
EraseLogOnly ==
    /\ At("key")
    /\ told' = IF job.of = "delete" THEN told \ Gone ELSE told
    /\ UNCHANGED <<cards, index, claim, log, ruined, retired, view>>

\* cryptoEraseRoom; what the user deletes is gone from here on.
EraseKey ==
    /\ At("key")
    /\ ruined' = ruined \cup {r \in {job.from} : log[r] # None}
    /\ told' = IF job.of = "delete" THEN told \ Gone ELSE told
    /\ UNCHANGED <<cards, index, claim, log, retired, view>>

EraseLog ==
    /\ At("log")
    /\ log' = [log EXCEPT ![job.from] = None] /\ ruined' = ruined \ {job.from}
    /\ UNCHANGED <<cards, index, claim, retired, view, told>>

EraseCard ==
    /\ At("record")
    /\ cards' = cards \ {job.from} /\ claim' = [claim EXCEPT ![job.from] = 0]
    /\ UNCHANGED <<index, log, ruined, retired, view, told>>

\* Mutant: the history stays in memory under the old room.
UnlistBehind ==
    /\ At("unlist")
    /\ index' = index \ {job.from}
    /\ UNCHANGED <<cards, claim, log, ruined, retired, view, told>>

\* and memory follows: reKeyContactInMemory
Unlist ==
    /\ At("unlist")
    /\ index' = index \ {job.from}
    /\ view' = [view EXCEPT ![job.from] = None,
                            ![job.to] = IF Moves THEN view[job.from] ELSE @]
    /\ UNCHANGED <<cards, claim, log, ruined, retired, told>>

Retire ==
    /\ At("retire")
    /\ retired' = retired \cup {job.from}
    /\ UNCHANGED <<cards, index, claim, log, ruined, view, told>>

Step == \/ Copy \/ Card \/ List \/ EraseKey \/ EraseLog \/ EraseCard
        \/ Unlist \/ Retire

\* A write of a move or a removal fails (a copy that is refused is one, too).
\* Memory stays as it is, with the contact in its new room or removed.
Fail ==
    /\ Moves \/ job.of = "delete"
    /\ faults < MaxFault /\ faults' = faults + 1
    /\ job' = NoJob /\ failed' = "now"
    /\ told' = IF job.of = "delete" /\ job.at = "key" THEN told \ Gone ELSE told
    /\ left' = left \cup Log(job.from) \cup Read(job.from) \cup Read(job.to)
    /\ UNCHANGED <<disk, phase, ram, sent, astray>>

\* The copy of a claim's history before its contact: no boot knows of it.
Orphaned == job.of = "accept" /\ job.at \in {"card", "list"}

\* So ends also a boot that fails to remove the loser of a merge.
Crash ==
    /\ phase # "off" /\ phase' = "off"
    /\ faults < MaxFault /\ faults' = faults + 1
    /\ failed' = IF failed = "never" THEN failed ELSE "before"
    /\ live' = {} /\ view' = Empty /\ typing' = {} /\ job' = NoJob
    /\ left' = left \cup IF Orphaned THEN Log(job.from) ELSE {}
    /\ UNCHANGED <<disk, sent, told, astray>>

Next ==
    \/ Boot \/ Migrate \/ Up \/ Step \/ Fail \/ Crash
    \/ \E r \in Room : Receive(r) \/ Send(r) \/ Sent(r) \/ SentRefused(r)
                       \/ Accept(r) \/ Delete(r)
    \/ \E r, j \in Master : Claim(r, j)
    \/ \E j \in Master : Greet(j) \/ AddBundle(j) \/ AddUnread(j)

Spec     == Init /\ [][Next]_vars
\* Boot goes on, and so does what the inbox queue has begun.
FairSpec == Spec /\ WF_vars(Boot) /\ WF_vars(Migrate) /\ WF_vars(Up)
                 /\ WF_vars(Step)

-----------------------------------------------------------------------------
\* Types, and that every contact in memory has its history there.
TypeOK ==
    /\ cards \subseteq Room /\ index \subseteq Room /\ live \subseteq Room
    /\ claim \in [Room -> {0} \cup Master]
    /\ \A r \in Room : /\ log[r] = None \/ log[r] \subseteq Msg
                       /\ view[r] = None \/ view[r] \subseteq Msg
    /\ ruined \subseteq {r \in Room : log[r] # None}
    /\ retired \subseteq Master
    /\ phase \in {"off", "boot", "up"}
    /\ typing \subseteq Room /\ Cardinality(typing) <= 1
    /\ job = NoJob \/ job \in [of : {"move", "merge", "accept", "delete"},
                               from : Room, to : Room, at : Stage]
    /\ sent \in Msg /\ faults \in 0..MaxFault
    /\ failed \in {"never", "before", "now"}
    /\ told \cup astray \cup left \subseteq 1..sent
    /\ Ready /\ failed = "never" => \A r \in live : view[r] # None

\* A message is readable, in a contact that the next boot finds, until the user
\* deletes it there, whatever write a crash or a failure comes after (rekey.ts:
\* "commit before discard").  What a step has put astray is all that may be lost:
\* a message whose contact was moved or removed while it was being sent; the
\* history of a contact whose room another one has accepted; and once a write has
\* failed, what only one of the contact's two records has.
Kept == told \ astray \subseteq Saved(Listed)

\* As long as no write has failed the contacts show it, too.
Shown == Ready /\ failed = "never" =>
            told \ astray \subseteq UNION {Has(r) : r \in live}

HistoryKept == Kept /\ Shown

\* What the user has deleted does not come back, whatever write of the removal a
\* crash comes after (messages.ts:179-180), unless a copy of it was left behind:
\* by an accepted claim that died between the copy and its contact, or by a move
\* or a removal that failed.
NothingBack == Ready => UNION {Read(r) : r \in live} \subseteq told \cup left

\* Both: no message is lost but those astray, and none is back but those left.
HistoryExact == HistoryKept /\ NothingBack

\* Boot comes to an end and leaves the old room for good, from wherever a move or
\* a merge was cut short.  Barred for good is only a boot after a crash between
\* the key and the log of a room, and one in which a write of the move fails
\* leaves the old room to the next.
OldRoomLeft ==
    <>[]\/ ruined # {}
        \/ phase = "up" /\ (failed = "now" \/ (0 \notin Listed /\ log[0] = None))

\* The code does not keep the following.  Of a move cut short boot leaves one
\* contact (rekey.ts:11-12);
Merged ==
    Ready => \A q, r \in live : q # r => Read(q) \cap Read(r) = {}

\* no crash keeps boot from ending;
BootEnds == <>[](phase = "up")

\* a master once left is accepted on no path (denylist.ts:17-18);
RetiredForGood ==
    [][\A r \in retired : r \in live' => r \in live]_vars

\* a message that was sent is in its contact;
ReachesContact == [][\A r \in Room : Sent(r) => r \in live]_vars

\* no move overwrites a message;
NothingOverwritten ==
    Moves /\ job.at = "copy" => Log(job.to) \subseteq Log(job.from)

\* the loser of a merge has no message of its own;
MergeKeeps ==
    job.of = "merge" /\ job.at = "key" => Log(job.from) \subseteq Log(job.to)

\* and nothing that was deleted comes back.
NoneBack == Ready => UNION {Read(r) : r \in live} \subseteq told
=============================================================================
