-------------------------- MODULE ContactMove_proofs --------------------------
(***************************************************************************)
(* A contact's history across moves and removals, for any number of        *)
(* masters, messages, crashes and failed writes.                           *)
(***************************************************************************)
EXTENDS ContactMove, FiniteSetTheorems, TLAPS

JobType == [of : {"move", "merge", "accept", "delete"},
            from : Room, to : Room, at : Stage]

\* The variables' types; what exists has been sent.
History == (SUBSET (1..sent)) \cup {None}
Types ==
    /\ cards \subseteq Room /\ index \subseteq Room /\ live \subseteq Room
    /\ claim \in [Room -> {0} \cup Master]
    /\ sent \in Msg /\ log \in [Room -> History] /\ view \in [Room -> History]
    /\ told \subseteq 1..sent /\ astray \subseteq 1..sent /\ left \subseteq 1..sent
    /\ ruined \subseteq {r \in Room : log[r] # None}
    /\ retired \subseteq Master
    /\ phase \in {"off", "boot", "up"}
    /\ typing = {} \/ \E r \in Master : typing = {r}
    /\ job \in JobType \cup {NoJob}
    /\ faults \in 0..MaxFault /\ failed \in {"never", "before", "now"}

\* Memory is empty before boot, nothing is sent before the application is up,
\* and by then the old room has no contact any more.
Phases ==
    /\ phase = "off" => Free /\ live = {}
    /\ phase # "up" => typing = {}
    /\ phase = "up" => 0 \notin live
    /\ phase = "boot" => \A r \in live \cap ruined : view[r] = None
    /\ phase = "boot" /\ 0 \in live => /\ live \subseteq Listed
                                      /\ \A r \in Room \ live : view[r] = None
    /\ \A r \in Room : claim[r] \in Master => claim[r] # r

\* Which moves there are, and how far the database is at each stage of one.
Copying == {"copy", "card", "list"}
Kinds ==
    Free \/
    /\ job.of \in {"move", "merge"} => phase = "boot" /\ job.from = 0 /\ job.to = 1
    /\ job.of \in {"accept", "delete"} =>
           phase = "up" /\ job.from \in Master /\ job.to \in Master
    /\ job.of \in {"merge", "delete"} => job.at \notin Copying
    /\ job.of # "accept" => job.at # "retire"
    /\ job.of = "delete" <=> job.from = job.to
    /\ job.from \notin live
    /\ job.of # "delete" => job.to \in live
Stages ==
    Free \/ job.of = "delete" \/
    /\ Moves /\ job.at \in {"card", "list", "key"} =>
           Log(job.to) = Log(job.from) /\ job.from \notin ruined
    /\ job.of = "merge" /\ job.at = "key" => job.from \notin ruined
    /\ job.at # "copy" => job.to \notin ruined
    /\ job.at \notin {"copy", "card"} => job.to \in cards
    /\ job.at \notin Copying => job.to \in index

\* What the user may still expect, and the rooms where it lasts.
Owed    == told \ astray
Erasing == ~Free /\ job.at \in {"log", "record", "unlist"}
Lasting == IF Erasing THEN Listed \ {job.from} ELSE Listed

\* After a failed write a move takes the place of a log that holds no more than
\* the moved one does, and a merge erases none that holds more than the winner's.
Failing ==
    failed # "never" =>
        /\ Moves /\ job.at = "copy" => Owed \cap Log(job.to) \subseteq Log(job.from)
        /\ job.of = "merge" /\ job.at = "key" =>
               Owed \cap Log(job.from) \subseteq Log(job.to)

\* As long as no write has failed, what a crash has left boot can pick up.
Young ==
    failed = "never" =>
        /\ ruined \subseteq Listed
        /\ {0, 1} \subseteq Listed => Log(0) \subseteq Log(1)
        /\ phase = "boot" /\ live \cap ruined # {} => Free

\* Then memory agrees with the database, but for the job under way:
Sound == failed = "never" /\ phase # "off" /\ (phase = "boot" => live \cap ruined = {})

\* it has the contacts,
Contacts ==
    Sound =>
        /\ \A r \in Room \ Locked : r \in live <=> r \in Listed
        /\ Free \/ (job.at \in {"unlist", "retire"} /\ job.from \notin Listed)
                \/ (job.at \notin {"unlist", "retire"} /\ job.from \in Listed)
        /\ ruined = {} \/ (~Free /\ job.at = "log" /\ ruined = {job.from})

\* their histories,
Views ==
    Sound =>
        /\ \A r \in live \ Locked : view[r] # None
        /\ Moves /\ job.at # "retire" => view[job.from] # None
        /\ job.of = "merge" \/ job.at = "retire" => view[job.to] # None
        /\ phase = "boot" /\ 0 \in live => \A r \in live : view[r] = Log(r)

\* and what the user may expect is in these, and saved, or in the job's hands.
Carries(m) ==
    ~Free /\
    \/ job.of = "delete" /\ job.at = "key" /\ m \in Log(job.from)
    \/ (job.of = "merge" \/ job.at = "retire") /\ m \in Has(job.to)
    \/ Moves /\ job.at = "copy" /\ m \in Log(job.from) \cap view[job.from]
    \/ Moves /\ job.at \notin {"copy", "retire"} /\ m \in Log(job.to) \cap view[job.from]
Held ==
    Sound => \A m \in Owed : Carries(m) \/ \E r \in live \ Locked : m \in Has(r)

\* Otherwise it is in a log that the next boot reads.
Guarded == ~Sound => \A m \in Owed : \E r \in Lasting \ ruined : m \in Log(r)

\* The inductive invariant.
Inv == /\ Types /\ Phases /\ Kinds /\ Stages /\ Failing /\ Young
       /\ Contacts /\ Views /\ Held /\ Guarded

-----------------------------------------------------------------------------
(* Facts about the state.                                                  *)

LEMMA Rooms ==
    /\ 0 \in Room /\ 1 \in Room /\ 1 \in Master /\ 0 \notin Master
    /\ Master \subseteq Room /\ 1 \in Msg
BY ContactAssumption DEF Room, Master, Msg

\* A set of messages is not mistaken for a history that is not there.
LEMMA Sets ==
    ASSUME Types
    PROVE  /\ None \notin SUBSET (1..sent)
           /\ \A r \in Room : /\ Log(r) \subseteq 1..sent /\ Log(r) # None
                              /\ Read(r) \subseteq 1..sent /\ Read(r) # None
<1>1. sent \in 1..MaxMsg
  BY DEF Types, Msg
<1>2. MaxMsg \in Nat
  BY ContactAssumption
<1>3. 1..sent \subseteq 1..MaxMsg
  BY <1>1, <1>2
<1>4. None \notin SUBSET (1..sent)
  BY <1>3, ContactAssumption
<1>5. \A r \in Room : Log(r) \in SUBSET (1..sent)
  BY DEF Types, History, Log
<1>6. \A r \in Room : Read(r) \in SUBSET (1..sent)
  BY <1>5 DEF Types, History, Read
<1> QED
  BY <1>4, <1>5, <1>6

\* The record that stands for no job is none of a job.
LEMMA Jobs ==
    ASSUME Types
    PROVE  /\ Free => /\ job.of = "none" /\ job.at = "copy" /\ Locked = {} /\ ~Moves
                      /\ ~Erasing /\ Lasting = Listed
           /\ ~Free => /\ job.of \in {"move", "merge", "accept", "delete"}
                       /\ job.from \in Room /\ job.to \in Room /\ job.at \in Stage
                       /\ Locked = {job.from, job.to}
BY DEF Types, JobType, NoJob, Free, Locked, Moves, Erasing, Lasting

\* Whether or not a write has failed, the next boot can read what is owed.
LEMMA Lasts ==
    ASSUME Inv
    PROVE  \A m \in Owed : \E r \in Lasting \ ruined : m \in Log(r)
<1> SUFFICES ASSUME Sound, NEW m \in Owed
             PROVE  \E r \in Lasting \ ruined : m \in Log(r)
  BY DEF Inv, Guarded
<1>1. CASE \E r \in live \ Locked : m \in Has(r)
  <2>1. PICK r \in live \ Locked : m \in Has(r)
    BY <1>1
  <2>2. r \in Listed /\ r \in Room
    BY DEF Inv, Contacts, Types
  <2>3. ~Free => r # job.from
    BY Jobs DEF Inv
  <2>4. r \in Lasting
    BY <2>2, <2>3 DEF Lasting, Erasing
  <2>5. r \notin ruined
    BY <2>3 DEF Inv, Contacts
  <2> QED
    BY <2>1, <2>4, <2>5 DEF Has
<1>2. CASE Carries(m)
  <2>0. /\ ~Free /\ job.of \in {"move", "merge", "accept", "delete"}
        /\ job.at \in Stage
    BY <1>2, Jobs DEF Inv, Carries
  <2>1. CASE job.of = "delete"
    <3>1. /\ job.at = "key" /\ m \in Log(job.from)
      BY <1>2, <2>1 DEF Carries, Moves, Inv, Kinds
    <3>2. job.from \in Listed /\ ruined = {}
      BY <2>0, <3>1 DEF Inv, Contacts
    <3> QED
      BY <3>1, <3>2 DEF Lasting, Erasing
  <2>2. CASE Moves /\ job.at \in Copying
    <3>1. job.from \in Listed /\ ruined = {}
      BY <2>0, <2>2 DEF Inv, Contacts, Copying
    <3>2. m \in Log(job.from)
      BY <1>2, <2>0, <2>2 DEF Carries, Inv, Stages, Copying, Moves
    <3> QED
      BY <2>2, <3>1, <3>2 DEF Lasting, Erasing, Copying
  <2>3. CASE job.of # "delete" /\ ~(Moves /\ job.at \in Copying)
    <3>1. job.at \notin Copying
      BY <2>0, <2>3 DEF Moves, Inv, Kinds
    <3>2. m \in Log(job.to)
      BY <1>2, <2>3, <3>1 DEF Carries, Has, Copying
    <3>3. job.to \in Listed /\ job.to \notin ruined /\ job.from # job.to
      BY <2>0, <2>3, <3>1 DEF Inv, Stages, Kinds, Copying, Listed
    <3> QED
      BY <3>2, <3>3 DEF Lasting
  <2> QED
    BY <2>1, <2>2, <2>3
<1> QED
  BY <1>1, <1>2 DEF Inv, Held

\* Between jobs, in a boot that can end or later, and within a job, memory is
\* sound as long as no write has failed.
LEMMA Calm ==
    ASSUME Inv, failed = "never", phase # "off",
           phase = "up" \/ ~Free \/ live \cap ruined = {}
    PROVE  Sound
BY DEF Inv, Young, Sound

\* What is owed stays where it lasts.
LEMMA StillGuarded ==
    ASSUME Inv, UNCHANGED <<log, ruined>>, told' \subseteq told,
           astray \subseteq astray', Lasting \subseteq Lasting'
    PROVE  Guarded'
<1>1. \A m \in Owed' : m \in Owed
  BY DEF Owed
<1>2. \A r \in Room : Log(r)' = Log(r)
  BY DEF Log
<1>3. Lasting \subseteq Room
  BY DEF Inv, Types, Lasting, Listed
<1> QED
  BY <1>1, <1>2, <1>3, Lasts DEF Guarded

-----------------------------------------------------------------------------
(* Boot.                                                                   *)

LEMMA InitInv == Init => Inv
<1> SUFFICES ASSUME Init PROVE Inv
  OBVIOUS
<1>1. Free /\ phase = "off" /\ job.of = "none" /\ job.at = "copy"
  BY DEF Init, Free, NoJob
<1>2. PICK old \in {{0}, {}}, h \in {{}, {1}} :
          /\ cards = old /\ index = old
          /\ told = IF old = {} THEN {} ELSE h
  BY DEF Init
<1>3. told \subseteq {1} /\ sent = 1 /\ 0 \in 0..MaxFault /\ told \in SUBSET (1..sent)
  BY <1>2, ContactAssumption DEF Init
<1>4. view = [r \in Room |-> None] /\ log = [r \in Room |-> IF r = 0 /\ told # {} THEN told ELSE None]
  BY DEF Init, Empty
<1>5. log \in [Room -> History] /\ view \in [Room -> History]
  BY <1>3, <1>4 DEF History
<1>6. cards \subseteq Room /\ index \subseteq Room
  BY <1>2, Rooms
<1>7. Types
  BY <1>1, <1>3, <1>5, <1>6, Rooms DEF Init, Types, Free
<1>8. Phases
  BY <1>1, Rooms DEF Init, Phases
<1>9. Kinds /\ Stages
  BY <1>1 DEF Kinds, Stages
<1>10. Failing
  BY DEF Init, Failing
<1>11. Young
  BY <1>2 DEF Init, Young, Listed
<1>12. ~Sound
  BY <1>1 DEF Sound
<1>13. Guarded
  <2> SUFFICES ASSUME NEW m \in Owed
               PROVE  \E r \in Lasting \ ruined : m \in Log(r)
    BY DEF Guarded
  <2>1. m \in told /\ 0 \in Listed /\ told # {}
    BY <1>2 DEF Owed, Listed
  <2>2. Lasting = Listed /\ ruined = {}
    BY <1>1 DEF Init, Lasting, Erasing
  <2>3. log[0] = told /\ log[0] # None
    BY <1>3, <1>4, <1>7, <2>1, Rooms, Sets
  <2> QED
    BY <2>1, <2>2, <2>3 DEF Log
<1> QED
  BY <1>7, <1>8, <1>9, <1>10, <1>11, <1>12, <1>13 DEF Inv, Contacts, Views, Held

\* Boot loads what the database lists.
LEMMA BootInv == ASSUME Inv, Boot PROVE Inv'
<1>1. /\ phase = "off" /\ phase' = "boot" /\ live' = Listed
      /\ UNCHANGED <<cards, index, claim, log, ruined, retired>>
      /\ UNCHANGED <<typing, job, sent, faults, failed, told, astray, left>>
  BY DEF Boot, disk, hist
<1>2. /\ Free /\ Lasting = Listed /\ typing = {} /\ Locked = {} /\ ~Moves
      /\ job.of = "none" /\ job.at = "copy"
  BY <1>1, Jobs DEF Inv, Phases
<1>3. Free' /\ Locked' = {} /\ ~Moves' /\ Listed' = Listed /\ Lasting' = Listed
  BY <1>1, <1>2 DEF Free, Locked, Moves, Listed, Lasting, Erasing
<1>4. \A r \in Room : Log(r)' = Log(r)
  BY <1>1 DEF Log
<1>5. Listed \subseteq Room
  BY DEF Inv, Types, Listed
<1>6. /\ Listed \cap ruined # {} => view' = [r \in Room |-> None]
      /\ Listed \cap ruined = {} =>
             view' = [r \in Room |-> IF r \in Listed THEN Log(r) ELSE None]
  BY DEF Boot, Empty
<1>7. Types'
  <2>1. \A r \in Room : Log(r) \in SUBSET (1..sent)
    BY Sets DEF Inv
  <2>2. view' \in [Room -> History]
    BY <1>6, <2>1 DEF History
  <2> QED
    BY <1>1, <1>5, <2>2 DEF Inv, Types, History
<1>8. Phases'
  BY <1>1, <1>2, <1>3, <1>5, <1>6 DEF Inv, Phases
<1>9. Kinds' /\ Stages'
  BY <1>3 DEF Kinds, Stages
<1>10. Failing'
  BY <1>1, <1>2, <1>3 DEF Failing
<1>11. Young'
  BY <1>1, <1>3, <1>4, Rooms DEF Inv, Young
<1>12. Sound' => Listed \cap ruined = {} /\ ruined = {}
  BY <1>1, <1>5 DEF Inv, Young, Sound
<1>13. Contacts'
  BY <1>1, <1>3, <1>12 DEF Contacts
<1>14. Sound' => \A r \in Listed : view'[r] = Log(r) /\ Log(r) # None
  BY <1>5, <1>6, <1>12, Sets DEF Inv
<1>15. Views'
  <2>1. Sound' => \A r \in live' : view'[r] = Log(r)' /\ view'[r] # None
    BY <1>1, <1>4, <1>5, <1>14
  <2> QED
    BY <1>1, <1>2, <1>3, <2>1 DEF Views
<1>16. Held'
  <2> SUFFICES ASSUME Sound', NEW m \in Owed
               PROVE  \E r \in live' \ Locked' : m \in Has(r)'
    BY <1>1 DEF Held, Owed
  <2>1. PICK r \in Listed \ ruined : m \in Log(r)
    BY <1>2, Lasts
  <2>2. r \in Room /\ m \in Log(r)' /\ view'[r] = Log(r) /\ view'[r] # None
    BY <1>4, <1>5, <1>14, <2>1
  <2>3. m \in Has(r)'
    BY <2>1, <2>2 DEF Has, Read
  <2> QED
    BY <1>1, <1>3, <2>1, <2>3
<1>17. Guarded'
  BY <1>1, <1>2, <1>3, StillGuarded
<1> QED
  BY <1>7, <1>8, <1>9, <1>10, <1>11, <1>13, <1>15, <1>16, <1>17 DEF Inv

\* As long as no write has failed boot moves the old room unless its target has
\* the whole of its log.
LEMMA Winner ==
    ASSUME Inv, Sound, phase = "boot", Free, 0 \in live
    PROVE  /\ OldWins <=> 1 \notin live
           /\ 1 \in live => Log(0) \subseteq Log(1)
           /\ view[0] = Log(0) /\ view[0] # None /\ (1 \in live => view[1] = Log(1))
<1>1. \A r \in live : view[r] = Log(r)
  BY DEF Inv, Views
<1>2. live \subseteq Listed
  BY DEF Inv, Phases
<1>3. 1 \in live => Log(0) \subseteq Log(1)
  BY <1>2 DEF Inv, Young, Sound
<1>4. view[0] = Log(0) /\ view[0] # None /\ (1 \in live => view[1] = Log(1))
  BY <1>1, Sets, Rooms DEF Inv
<1>5. 1 \in live => ~OldWins
  <2> SUFFICES ASSUME 1 \in live PROVE ~OldWins
    OBVIOUS
  <2>1. IsFiniteSet(Log(1))
    <3>1. Log(1) \subseteq 1..sent /\ sent \in Int
      BY Sets, Rooms, ContactAssumption DEF Inv, Types, Msg
    <3>2. IsFiniteSet(1..sent)
      BY <3>1, FS_Interval
    <3> QED
      BY <3>1, <3>2, FS_Subset
  <2>2. /\ Cardinality(Log(0)) <= Cardinality(Log(1))
        /\ Cardinality(Log(0)) \in Nat /\ Cardinality(Log(1)) \in Nat
    BY <1>3, <2>1, FS_Subset, FS_CardinalityType
  <2> QED
    BY <1>4, <2>2 DEF OldWins
<1> QED
  BY <1>3, <1>4, <1>5 DEF OldWins

LEMMA MigrateInv == ASSUME Inv, Migrate PROVE Inv'
<1> DEFINE of == IF OldWins THEN "move" ELSE "merge"
           at == IF OldWins THEN "copy" ELSE "key"
<1>1. /\ Free /\ phase = "boot" /\ 0 \in live /\ live \cap ruined = {}
      /\ live' = (live \ {0}) \cup {1}
      /\ job' = [of |-> of, from |-> 0, to |-> 1, at |-> at]
      /\ UNCHANGED <<cards, index, claim, log, ruined, retired>>
      /\ UNCHANGED <<phase, view, typing, sent, faults, failed, told, left>>
  BY DEF Migrate, disk
<1>2. /\ job'.of = of /\ job'.from = 0 /\ job'.to = 1 /\ job'.at = at
      /\ job' \in JobType /\ of \in {"move", "merge"} /\ at \in {"copy", "key"}
      /\ of = "merge" <=> ~OldWins
      /\ at = "key" <=> of = "merge"
  BY <1>1, Rooms DEF JobType, Stage
<1>3. ~OldWins => 1 \in live
  BY DEF OldWins
<1>4. astray' = astray \cup IF OldWins THEN GivenUp(1, 0) ELSE GivenUp(0, 1)
  BY DEF Migrate
<1> HIDE DEF of, at
<1>5. ~Free' /\ Locked' = {0, 1} /\ (Moves' <=> of = "move") /\ ~Erasing'
  BY <1>2 DEF Free, NoJob, Locked, Moves, JobType, Erasing
<1>6. /\ Listed' = Listed /\ Lasting' = Listed /\ Locked = {} /\ Lasting = Listed
      /\ live \subseteq Listed /\ live \subseteq Room /\ \A r \in Room : Log(r)' = Log(r)
  BY <1>1, <1>5, Jobs DEF Inv, Types, Phases, Listed, Lasting, Log
<1>7. Types'
  <2>1. GivenUp(1, 0) \subseteq 1..sent /\ GivenUp(0, 1) \subseteq 1..sent
    BY Sets, Rooms DEF Inv, GivenUp
  <2> QED
    BY <1>1, <1>2, <1>4, <2>1, Rooms DEF Inv, Types, History
<1>8. Phases'
  BY <1>1, <1>5, Rooms DEF Inv, Phases
<1>9. Kinds'
  BY <1>1, <1>2, Rooms DEF Kinds, Copying
<1>10. Stages'
  BY <1>1, <1>2, <1>3, <1>5, <1>6 DEF Stages, Copying, Listed
<1>11. Failing'
  <2>1. CASE failed = "never"
    BY <1>1, <2>1 DEF Failing
  <2>2. CASE failed # "never"
    <3>1. OldWins => Owed' \cap Log(1) \subseteq Log(0)
      BY <1>1, <1>4, <2>2 DEF Owed, GivenUp
    <3>2. ~OldWins => Owed' \cap Log(0) \subseteq Log(1)
      BY <1>1, <1>4, <2>2 DEF Owed, GivenUp
    <3> QED
      BY <1>2, <1>5, <1>6, <3>1, <3>2, Rooms DEF Failing
  <2> QED
    BY <2>1, <2>2
<1>12. Young'
  <2>1. failed = "never" => ruined \cap live' = {}
    BY <1>1, <1>6, Calm DEF Inv, Contacts
  <2> QED
    BY <1>1, <1>6, <2>1, Rooms DEF Inv, Young
<1>13. Sound' => /\ Sound /\ ruined = {} /\ (OldWins <=> 1 \notin live)
                 /\ (1 \in live => Log(0) \subseteq Log(1))
                 /\ view[0] = Log(0) /\ view[0] # None
                 /\ (1 \in live => view[1] = Log(1))
  BY <1>1, Calm, Winner DEF Sound, Inv, Contacts
<1>14. Contacts'
  <2>1. Sound' => \A r \in Room : r \in live <=> r \in Listed
    BY <1>6, <1>13 DEF Inv, Contacts
  <2> QED
    BY <1>1, <1>2, <1>5, <1>6, <1>13, <2>1, Rooms DEF Contacts
<1>15. Views'
  <2>1. Sound' => \A r \in live : view[r] # None
    BY <1>6, <1>13 DEF Inv, Views
  <2> QED
    BY <1>1, <1>2, <1>3, <1>5, <1>6, <1>13, <2>1, Rooms DEF Views
<1>16. Held'
  <2> SUFFICES ASSUME Sound', NEW m \in Owed'
               PROVE  Carries(m)' \/ \E r \in live' \ Locked' : m \in Has(r)'
    BY DEF Held
  <2>1. PICK r \in live : m \in Has(r)
    <3>1. m \in Owed
      BY <1>1, <1>4 DEF Owed
    <3> QED
      BY <1>1, <1>6, <1>13, <3>1 DEF Inv, Held, Carries
  <2>2. m \in Has(r)' /\ m \in Log(r)
    BY <1>1, <1>6, <2>1 DEF Has, Read
  <2>3. CASE r \notin {0, 1}
    BY <1>1, <1>5, <2>1, <2>2, <2>3
  <2>4. CASE of = "move"
    <3>1. r \notin {0, 1} \/ r = 0
      BY <1>2, <1>13, <2>1, <2>4
    <3>2. r = 0 => m \in Log(0)' \cap view'[0]
      BY <1>1, <1>6, <1>13, <2>2, Rooms
    <3> QED
      BY <1>2, <1>5, <2>3, <2>4, <3>1, <3>2 DEF Carries
  <2>5. CASE of = "merge" /\ r \in {0, 1}
    <3>1. m \in Log(1) /\ view[1] = Log(1) /\ Log(1)' = Log(1)
      BY <1>2, <1>3, <1>6, <1>13, <2>2, <2>5, Rooms
    <3>2. m \in Has(1)'
      BY <1>1, <3>1 DEF Has, Read
    <3> QED
      BY <1>2, <1>5, <2>5, <3>2 DEF Carries
  <2> QED
    BY <1>2, <2>3, <2>4, <2>5
<1>17. Guarded'
  BY <1>1, <1>4, <1>6, StillGuarded
<1> QED
  BY <1>7, <1>8, <1>9, <1>10, <1>11, <1>12, <1>14, <1>15, <1>16, <1>17 DEF Inv

LEMMA UpInv == ASSUME Inv, Up PROVE Inv'
<1>1. /\ Free /\ phase = "boot" /\ 0 \notin live /\ \A r \in ruined : view[r] # None
      /\ phase' = "up" /\ UNCHANGED <<cards, index, claim, log, ruined, retired>>
      /\ UNCHANGED <<live, typing, job, sent, faults, failed, told, astray, left>>
      /\ view' = [r \in Room |-> IF r \in live \/ log[r] # None THEN Read(r) ELSE None]
  BY DEF Up, disk, hist
<1>2. /\ Locked = {} /\ ~Moves /\ job.of = "none" /\ job.at = "copy" /\ Lasting = Listed
      /\ live \cap ruined = {} /\ live \subseteq Room
  BY <1>1, Jobs DEF Inv, Phases, Types
<1>3. /\ Free' /\ Locked' = {} /\ ~Moves' /\ Listed' = Listed /\ Lasting' = Listed
      /\ \A r \in Room : Log(r)' = Log(r)
  BY <1>1, <1>2 DEF Free, Locked, Moves, Listed, Lasting, Erasing, Log
<1>4. /\ \A r \in live : view'[r] = Read(r) /\ Read(r)' = Read(r) /\ Has(r)' = Has(r)
                         /\ view'[r] # None
  BY <1>1, <1>2, <1>3, Sets DEF Inv, Read, Has
<1>5. Types'
  <2>1. \A r \in Room : Read(r) \in SUBSET (1..sent)
    BY Sets DEF Inv
  <2>2. view' \in [Room -> History]
    BY <1>1, <2>1 DEF History
  <2> QED
    BY <1>1, <2>2 DEF Inv, Types, History
<1>6. Phases'
  BY <1>1, <1>2 DEF Inv, Phases
<1>7. Kinds' /\ Stages'
  BY <1>3 DEF Kinds, Stages
<1>8. Failing'
  BY <1>1, <1>2, <1>3 DEF Failing
<1>9. Young'
  BY <1>1, <1>3, Rooms DEF Inv, Young
<1>10. Sound' => Sound /\ ruined = {}
  BY <1>1, <1>2, Calm DEF Sound, Inv, Contacts
<1>11. Contacts'
  BY <1>1, <1>2, <1>3, <1>10 DEF Inv, Contacts
<1>12. Views'
  BY <1>1, <1>2, <1>3, <1>4 DEF Views
<1>13. Held'
  <2>1. Sound' => \A m \in Owed : \E r \in live : m \in Has(r)
    BY <1>2, <1>10, <1>1 DEF Inv, Held, Carries
  <2> QED
    BY <1>1, <1>3, <1>4, <2>1 DEF Held, Owed
<1>14. Guarded'
  BY <1>1, <1>2, <1>3, StillGuarded
<1> QED
  BY <1>5, <1>6, <1>7, <1>8, <1>9, <1>11, <1>12, <1>13, <1>14 DEF Inv

-----------------------------------------------------------------------------
(* Messages and contacts.                                                  *)

LEMMA OldRoomUp == ASSUME Inv, phase = "up", failed = "never" PROVE 0 \notin Listed
<1>1. Sound /\ 0 \notin live
  BY Calm DEF Inv, Phases
<1>2. 0 \notin Locked
  BY Jobs, Rooms DEF Inv, Kinds
<1> QED
  BY <1>1, <1>2, Rooms DEF Inv, Contacts

\* A message that memory and log of a room take while no job has it.
LEMMA AppendInv ==
    ASSUME Inv, NEW r \in Master \ Locked, phase = "up", Append(r), typing' \subseteq typing,
           cards \subseteq cards', index \subseteq index', cards' \subseteq Room,
           index' \subseteq Room, Listed' \subseteq Listed \cup {r},
           r \in live \/ Listed' = Listed,
           UNCHANGED <<claim, ruined, retired, phase, live, job, faults, failed, left>>
    PROVE  Inv'
<1> DEFINE h == Read(r) \cup {sent'}
<1>1. /\ r \notin ruined /\ sent' = sent + 1 /\ sent < MaxMsg
      /\ log' = [log EXCEPT ![r] = h] /\ view' = [view EXCEPT ![r] = h]
      /\ told' = told \cup {sent'}
      /\ astray' = astray \cup (IF r \in live \cap Listed' THEN {} ELSE {sent'})
                          \cup (IF failed = "never" THEN {} ELSE Log(r) \ Read(r))
      /\ r \in Room
  BY Rooms DEF Append
<1>2. /\ sent \in Nat /\ sent' \in Msg /\ 1..sent \subseteq 1..sent' /\ sent' \in 1..sent'
      /\ sent' \notin 1..sent
  BY <1>1, ContactAssumption DEF Inv, Types, Msg
<1>3. /\ Free' = Free /\ Locked' = Locked /\ Moves' = Moves /\ Erasing' = Erasing
      /\ Listed \subseteq Listed' /\ Lasting \subseteq Lasting'
      /\ Listed' \subseteq Room
  BY DEF Free, Locked, Moves, Listed, Erasing, Lasting
<1>4. Read(r) \subseteq 1..sent /\ Log(r) \subseteq 1..sent /\ h \subseteq 1..sent'
  BY <1>1, <1>2, Sets DEF Inv
<1> HIDE DEF h
<1>5. Types'
  <2>1. History \subseteq History' /\ h \in History'
    BY <1>2, <1>4 DEF History
  <2>2. log' \in [Room -> History'] /\ view' \in [Room -> History']
    BY <1>1, <2>1 DEF Inv, Types
  <2>3. told' \subseteq 1..sent' /\ astray' \subseteq 1..sent' /\ left' \subseteq 1..sent'
    BY <1>1, <1>2, <1>4 DEF Inv, Types
  <2>4. ruined' \subseteq {q \in Room : log'[q] # None}
    BY <1>1 DEF Inv, Types
  <2>5. typing' = {} \/ \E s \in Master : typing' = {s}
    BY DEF Inv, Types
  <2> QED
    BY <1>2, <2>2, <2>3, <2>4, <2>5 DEF Inv, Types
<1>6. /\ \A q \in Room \ {r} : /\ log'[q] = log[q] /\ view'[q] = view[q]
                              /\ Log(q)' = Log(q) /\ Read(q)' = Read(q) /\ Has(q)' = Has(q)
      /\ log'[r] = h /\ view'[r] = h /\ h # None
  <2>1. h # None
    <3>1. MaxMsg \in Nat /\ sent' \in 1..MaxMsg
      BY <1>2, ContactAssumption DEF Msg
    <3>2. h \in SUBSET (1..MaxMsg)
      BY <1>4, <3>1
    <3> QED
      BY <3>2, ContactAssumption
  <2>2. /\ \A q \in Room \ {r} : log'[q] = log[q] /\ view'[q] = view[q]
        /\ log'[r] = h /\ view'[r] = h
    BY <1>1 DEF Inv, Types
  <2>3. \A q \in Room \ {r} : Log(q)' = Log(q) /\ Read(q)' = Read(q) /\ Has(q)' = Has(q)
    BY <2>2 DEF Log, Read, Has
  <2> QED
    BY <2>1, <2>2, <2>3
<1>7. Log(r)' = h /\ Read(r)' = h /\ Has(r)' = h
  BY <1>6 DEF Log, Read, Has
<1>8. Free \/ (r # job.from /\ r # job.to)
  BY DEF Locked
<1>9. Phases'
  BY <1>3 DEF Inv, Phases
<1>10. Kinds'
  BY <1>3 DEF Inv, Kinds
<1>11. Stages'
  BY <1>3, <1>6, <1>8, Jobs DEF Inv, Stages
<1>12. \A m \in Owed' : m = sent' \/ (m \in Owed /\ m \in 1..sent)
  BY <1>1 DEF Owed, Inv, Types
<1>13. Failing'
  <2>1. Free \/ (Log(job.to) \subseteq 1..sent /\ Log(job.from) \subseteq 1..sent)
    BY Jobs, Sets DEF Inv
  <2>2. Free \/ (Log(job.to)' = Log(job.to) /\ Log(job.from)' = Log(job.from))
    BY <1>6, <1>8, Jobs DEF Inv
  <2>3. Free => ~Moves /\ job.of # "merge"
    BY Jobs DEF Inv
  <2> QED
    BY <1>2, <1>3, <1>12, <2>1, <2>2, <2>3 DEF Inv, Failing
<1>14. Young'
  <2>1. failed = "never" => 0 \notin Listed'
    BY OldRoomUp, Rooms
  <2> QED
    BY <1>3, <2>1 DEF Inv, Young
<1>15. failed = "never" => Sound /\ Sound'
  BY Calm DEF Sound
<1>16. Contacts'
  <2>1. Sound => (r \in live <=> r \in Listed)
    BY <1>1 DEF Inv, Contacts
  <2>2. Sound => Listed' = Listed
    BY <1>3, <2>1
  <2> QED
    BY <1>3, <1>15, <2>2 DEF Inv, Contacts, Sound
<1>17. Views'
  <2>1. Sound => \A q \in live \ Locked : view'[q] # None
    BY <1>6 DEF Inv, Views, Types
  <2>2. CASE Free
    BY <2>1, <2>2, <1>3, <1>15, Jobs DEF Inv, Views, Sound
  <2>3. CASE ~Free
    BY <2>1, <2>3, <1>3, <1>6, <1>8, <1>15, Jobs DEF Inv, Views, Sound
  <2> QED
    BY <2>2, <2>3
<1>18. Held'
  <2> SUFFICES ASSUME Sound', NEW m \in Owed'
               PROVE  Carries(m)' \/ \E q \in live' \ Locked' : m \in Has(q)'
    BY DEF Held
  <2>0. Sound
    BY <1>15 DEF Sound
  <2>1. CASE m = sent'
    <3>1. r \in live
      BY <1>1, <2>1 DEF Owed
    <3> QED
      BY <1>3, <1>7, <2>1, <3>1 DEF h
  <2>2. CASE m \in Owed /\ Carries(m)
    <3>1. ~Free /\ job.from \in Room \ {r} /\ job.to \in Room \ {r}
      BY <1>8, <2>2, Jobs DEF Inv, Carries
    <3> QED
      BY <1>3, <1>6, <2>2, <3>1 DEF Carries
  <2>3. CASE m \in Owed /\ \E q \in live \ Locked : m \in Has(q)
    <3>1. PICK q \in live \ Locked : m \in Has(q)
      BY <2>3
    <3>2. q \in Room /\ (q = r => m \in h)
      BY <3>1 DEF h, Has, Inv, Types
    <3> QED
      BY <1>3, <1>6, <1>7, <3>1, <3>2
  <2> QED
    BY <1>12, <2>0, <2>1, <2>2, <2>3 DEF Inv, Held
<1>19. Guarded'
  <2> SUFFICES ASSUME ~Sound', NEW m \in Owed'
               PROVE  \E q \in Lasting' \ ruined' : m \in Log(q)'
    BY DEF Guarded
  <2>1. failed # "never"
    BY <1>15
  <2>2. CASE m = sent'
    <3>1. r \in Listed'
      BY <1>1, <2>2 DEF Owed
    <3>2. r \in Lasting'
      BY <1>3, <1>8, <3>1 DEF Lasting, Erasing
    <3> QED
      BY <1>1, <1>7, <2>2, <3>2 DEF h
  <2>3. CASE m # sent'
    <3>1. PICK q \in Lasting \ ruined : m \in Log(q)
      BY <1>12, <2>3, Lasts
    <3>2. q \in Room /\ (q = r => m \in h)
      BY <1>1, <2>1, <3>1 DEF Owed, h, Lasting, Listed, Inv, Types
    <3> QED
      BY <1>3, <1>6, <1>7, <3>1, <3>2
  <2> QED
    BY <2>2, <2>3
<1> QED
  BY <1>5, <1>9, <1>10, <1>11, <1>13, <1>14, <1>16, <1>17, <1>18, <1>19 DEF Inv

LEMMA ReceiveInv == ASSUME Inv, NEW r \in Room, Receive(r) PROVE Inv'
<1>1. /\ Free /\ phase = "up" /\ r \in live /\ Append(r) /\ Save(r, claim[r])
      /\ UNCHANGED <<ruined, retired, phase, live, typing, job, faults, failed, left>>
  BY DEF Receive, Ready
<1>2. Locked = {} /\ r \in Master
  BY <1>1, Jobs DEF Inv, Phases, Room
<1>3. /\ cards' = cards \cup {r} /\ index' = index \cup {r} /\ claim' = claim
  BY <1>1 DEF Save, Inv, Types
<1>4. /\ cards' \subseteq Room /\ index' \subseteq Room /\ Listed' \subseteq Listed \cup {r}
  BY <1>3 DEF Inv, Types, Listed
<1> QED
  BY <1>1, <1>2, <1>3, <1>4, AppendInv

LEMMA SentInv == ASSUME Inv, NEW r \in Room, Sent(r) PROVE Inv'
<1>1. /\ r \in typing \ Locked /\ typing' = {} /\ Append(r)
      /\ UNCHANGED <<cards, index, claim, ruined, retired, phase, live, job, faults,
                     failed, left>>
  BY DEF Sent
<1>2. phase = "up" /\ r \in Master
  BY <1>1 DEF Inv, Phases, Types
<1>3. /\ cards \subseteq Room /\ index \subseteq Room /\ Listed' = Listed
  BY <1>1 DEF Inv, Types, Listed
<1> QED
  BY <1>1, <1>2, <1>3, AppendInv

\* A contact is saved between jobs, with the history that it has.
LEMMA SaveInv ==
    ASSUME Inv, Ready, NEW j \in Master, NEW k \in {0} \cup Master, k # j, Save(j, k),
           live' = live \cup {j}, view' \in [Room -> History],
           \A q \in Room \ {j} : view'[q] = view[q],
           (j \in live /\ view'[j] = view[j]) \/ (j \notin live /\ view'[j] # None),
           typing' = typing \/ typing' = {j},
           UNCHANGED <<log, ruined, retired, phase, job, sent, faults, failed>>,
           UNCHANGED <<told, astray, left>>
    PROVE  Inv'
<1>1. /\ Free /\ phase = "up" /\ job.of = "none" /\ job.at = "copy" /\ Locked = {}
      /\ ~Moves /\ Lasting = Listed
  BY Jobs DEF Ready, Inv
<1>2. /\ cards' = cards \cup {j} /\ index' = index \cup {j}
      /\ claim' = [claim EXCEPT ![j] = k] /\ j \in Room /\ j # 0
  BY Rooms DEF Save
<1>3. /\ Free' /\ ~Moves' /\ Locked' = {} /\ Listed' = Listed \cup {j}
      /\ Lasting' = Listed' /\ Listed \subseteq Room
      /\ \A q \in Room : Log(q)' = Log(q)
  BY <1>1, <1>2 DEF Free, Moves, Locked, Listed, Lasting, Erasing, Log, Inv, Types
<1>4. Types'
  BY <1>2 DEF Inv, Types, History
<1>5. Phases'
  <2>1. 0 \notin live'
    BY <1>1, <1>2 DEF Inv, Phases
  <2>2. \A q \in Room : claim'[q] \in Master => claim'[q] # q
    BY <1>2 DEF Inv, Types, Phases
  <2> QED
    BY <1>1, <2>1, <2>2 DEF Phases
<1>6. Kinds' /\ Stages'
  BY <1>3 DEF Kinds, Stages
<1>7. Failing'
  BY <1>1, <1>3 DEF Failing
<1>8. Young'
  <2>1. failed = "never" => 0 \notin Listed'
    BY <1>1, <1>2, <1>3, OldRoomUp
  <2> QED
    BY <1>1, <1>3, <2>1 DEF Inv, Young
<1>9. failed = "never" => Sound /\ Sound'
  BY <1>1, Calm DEF Sound
<1>10. Contacts'
  BY <1>1, <1>3, <1>9 DEF Inv, Contacts, Sound
<1>11. Views'
  BY <1>1, <1>3, <1>9 DEF Inv, Types, Views, Sound
<1>12. Held'
  <2>1. \A q \in live : Has(q)' = Has(q)
    BY <1>3 DEF Has, Read, Inv, Types
  <2>2. Sound => \A m \in Owed : \E q \in live : m \in Has(q)
    BY <1>1 DEF Inv, Held, Carries
  <2> QED
    BY <1>3, <1>9, <2>1, <2>2 DEF Held, Owed, Sound
<1>13. Guarded'
  BY <1>1, <1>3, StillGuarded
<1> QED
  BY <1>4, <1>5, <1>6, <1>7, <1>8, <1>10, <1>11, <1>12, <1>13 DEF Inv

LEMMA SendInv == ASSUME Inv, NEW r \in Room, Send(r) PROVE Inv'
<1>1. /\ Ready /\ r \in live /\ typing' = {r} /\ Save(r, claim[r])
      /\ UNCHANGED <<log, ruined, retired, phase, live, view, job, sent, faults, failed>>
      /\ UNCHANGED <<told, astray, left>>
  BY DEF Send, hist
<1>2. r \in Master
  BY <1>1 DEF Inv, Phases, Ready, Room
<1>3. claim[r] \in {0} \cup Master /\ claim[r] # r
  BY <1>2, Rooms DEF Inv, Types, Phases
<1>4. /\ view' \in [Room -> History] /\ live' = live \cup {r}
      /\ \A q \in Room \ {r} : view'[q] = view[q]
  BY <1>1 DEF Inv, Types
<1> QED
  BY <1>1, <1>2, <1>3, <1>4, SaveInv

LEMMA ClaimInv ==
    ASSUME Inv, NEW r \in Master, NEW j \in Master, Claim(r, j)
    PROVE  Inv'
<1>1. /\ Ready /\ r \in live /\ j \notin live /\ Save(r, j)
      /\ UNCHANGED <<log, ruined, retired, phase, live, view, typing, job>>
      /\ UNCHANGED <<sent, faults, failed, told, astray, left>>
  BY DEF Claim, ram, hist
<1>2. /\ view' \in [Room -> History] /\ live' = live \cup {r}
      /\ \A q \in Room \ {r} : view'[q] = view[q]
  BY <1>1 DEF Inv, Types
<1> QED
  BY <1>1, <1>2, SaveInv

LEMMA GreetInv == ASSUME Inv, NEW j \in Master, Greet(j) PROVE Inv'
<1>1. /\ Ready /\ j \notin live /\ live' = live \cup {j}
      /\ view' = [view EXCEPT ![j] = {}] /\ Save(j, 0)
      /\ UNCHANGED <<log, ruined, retired, phase, typing, job, sent, faults, failed>>
      /\ UNCHANGED <<told, astray, left>>
  BY DEF Greet, hist
<1>2. {} \in History /\ {} # None
  BY Sets DEF History, Inv
<1>3. /\ view' \in [Room -> History] /\ view'[j] # None
      /\ \A q \in Room \ {j} : view'[q] = view[q]
  BY <1>1, <1>2, Rooms DEF Inv, Types
<1> QED
  BY <1>1, <1>3, Rooms, SaveInv

LEMMA AddBundleInv == ASSUME Inv, NEW j \in Master, AddBundle(j) PROVE Inv'
<1>1. /\ Ready /\ j \notin live /\ live' = live \cup {j}
      /\ view' = [view EXCEPT ![j] = Read(j)] /\ Save(j, 0)
      /\ UNCHANGED <<log, ruined, retired, phase, typing, job, sent, faults, failed>>
      /\ UNCHANGED <<told, astray, left>>
  BY DEF AddBundle, hist
<1>2. Read(j) \in History /\ Read(j) # None
  BY Sets, Rooms DEF History, Inv
<1>3. /\ view' \in [Room -> History] /\ view'[j] # None
      /\ \A q \in Room \ {j} : view'[q] = view[q]
  BY <1>1, <1>2, Rooms DEF Inv, Types
<1> QED
  BY <1>1, <1>3, Rooms, SaveInv

\* No log is unreadable between jobs as long as no write has failed.
LEMMA AddUnreadInv == ASSUME Inv, NEW j \in Master, AddUnread(j) PROVE Inv'
<1>1. /\ Free /\ phase = "up" /\ j \in ruined /\ live' = live \cup {j}
      /\ UNCHANGED <<cards, index, claim, log, ruined, retired, view, typing>>
      /\ UNCHANGED <<phase, job, sent, faults, failed, told, astray, left>>
  BY DEF AddUnread, Ready, disk, hist
<1>2. /\ failed # "never" /\ Lasting = Listed /\ ~Moves /\ job.of = "none"
  BY <1>1, Calm, Jobs DEF Inv, Contacts
<1>3. Free' /\ ~Moves' /\ Listed' = Listed /\ Lasting' = Listed /\ ~Sound'
  BY <1>1, <1>2 DEF Free, Moves, Listed, Lasting, Erasing, Sound
<1>4. Types'
  BY <1>1, Rooms DEF Inv, Types, History
<1>5. Phases'
  BY <1>1, Rooms DEF Inv, Phases
<1>6. Kinds' /\ Stages'
  BY <1>3 DEF Kinds, Stages
<1>7. Failing' /\ Young'
  BY <1>1, <1>2, <1>3 DEF Failing, Young
<1>8. Guarded'
  BY <1>1, <1>2, <1>3, StillGuarded
<1> QED
  BY <1>3, <1>4, <1>5, <1>6, <1>7, <1>8 DEF Inv, Contacts, Views, Held

\* Nothing but the end of a send.
LEMMA StillInv ==
    ASSUME Inv, typing' \subseteq typing,
           UNCHANGED <<cards, index, claim, log, ruined, retired, phase, live, view>>,
           UNCHANGED <<job, sent, faults, failed, told, astray, left>>
    PROVE  Inv'
<1>1. /\ Free' = Free /\ Listed' = Listed /\ Locked' = Locked /\ Moves' = Moves
      /\ Erasing' = Erasing /\ Lasting' = Lasting /\ Owed' = Owed /\ Sound' = Sound
      /\ \A r : Log(r)' = Log(r)
  BY DEF Free, Listed, Locked, Moves, Erasing, Lasting, Owed, Sound, Log
<1>2. \A r : Has(r)' = Has(r)
  BY <1>1 DEF Has, Read
<1>3. Types'
  BY DEF Inv, Types, History
<1>4. Phases' /\ Kinds' /\ Stages' /\ Failing' /\ Young'
  BY <1>1 DEF Inv, Phases, Kinds, Stages, Failing, Young
<1>5. Contacts' /\ Views'
  BY <1>1 DEF Inv, Contacts, Views
<1>6. Held'
  BY <1>1, <1>2 DEF Inv, Held, Carries
<1>7. Guarded'
  BY <1>1 DEF Inv, Guarded
<1> QED
  BY <1>3, <1>4, <1>5, <1>6, <1>7 DEF Inv

LEMMA SentRefusedInv == ASSUME Inv, NEW r \in Room, SentRefused(r) PROVE Inv'
BY StillInv DEF SentRefused, disk, hist

LEMMA StutterInv == ASSUME Inv, UNCHANGED vars PROVE Inv'
BY StillInv DEF vars, disk, ram, hist

-----------------------------------------------------------------------------
(* The beginning of a move or a removal.                                   *)

LEMMA AcceptInv == ASSUME Inv, NEW r \in Room, Accept(r) PROVE Inv'
<1> DEFINE to == claim[r]
<1>1. /\ Free /\ phase = "up" /\ r \in live /\ to # 0
      /\ live' = (live \ {r}) \cup {to}
      /\ job' = [of |-> "accept", from |-> r, to |-> to, at |-> "copy"]
      /\ astray' = astray \cup (IF to \in live THEN Log(to) \ Has(r) ELSE GivenUp(to, r))
      /\ UNCHANGED <<cards, index, claim, log, ruined, retired>>
      /\ UNCHANGED <<phase, view, typing, sent, faults, failed, told, left>>
  BY DEF Accept, Ready, disk
<1>2. r \in Master /\ to \in Master /\ r # to /\ to \in Room
  BY <1>1, Rooms DEF Inv, Phases, Types, Room
<1> HIDE DEF to
<1>3. /\ job'.of = "accept" /\ job'.from = r /\ job'.to = to /\ job'.at = "copy"
      /\ job' \in JobType
  BY <1>1, <1>2 DEF JobType, Stage
<1>4. ~Free' /\ Locked' = {r, to} /\ Moves' /\ ~Erasing'
  BY <1>3 DEF Free, NoJob, Locked, Moves, JobType, Erasing
<1>5. /\ Listed' = Listed /\ Lasting' = Listed /\ Locked = {} /\ Lasting = Listed
      /\ \A q \in Room : Log(q)' = Log(q) /\ Has(q)' = Has(q)
  BY <1>1, <1>4, Jobs DEF Inv, Listed, Lasting, Log, Has, Read
<1>6. Types'
  <2>1. GivenUp(to, r) \subseteq 1..sent /\ Log(to) \ Has(r) \subseteq 1..sent
    BY <1>2, Sets DEF Inv, GivenUp
  <2>2. astray' \subseteq 1..sent
    BY <1>1, <2>1 DEF Inv, Types
  <2> QED
    BY <1>1, <1>2, <1>3, <2>2 DEF Inv, Types, History
<1>7. Phases'
  BY <1>1, <1>2, Rooms DEF Inv, Phases
<1>8. Kinds'
  BY <1>1, <1>2, <1>3 DEF Kinds
<1>9. Stages'
  BY <1>3 DEF Stages, Copying
<1>10. Failing'
  <2>1. failed # "never" => Owed' \cap Log(to) \subseteq Log(r)
    BY <1>1 DEF Owed, GivenUp, Has
  <2> QED
    BY <1>1, <1>2, <1>3, <1>5, <2>1 DEF Failing
<1>11. Young'
  BY <1>1, <1>5, Rooms DEF Inv, Young
<1>12. failed = "never" => Sound /\ Sound'
  BY <1>1, Calm DEF Sound
<1>13. Sound => \A q \in Room : q \in live <=> q \in Listed
  BY <1>5 DEF Inv, Contacts
<1>14. Contacts'
  BY <1>1, <1>3, <1>4, <1>5, <1>12, <1>13 DEF Inv, Contacts, Sound
<1>15. Views'
  BY <1>1, <1>3, <1>4, <1>5, <1>12 DEF Inv, Views, Sound
<1>16. Held'
  <2> SUFFICES ASSUME Sound', NEW m \in Owed'
               PROVE  Carries(m)' \/ \E q \in live' \ Locked' : m \in Has(q)'
    BY DEF Held
  <2>0. Sound /\ view[r] # None
    BY <1>1, <1>5, <1>12 DEF Sound, Inv, Views
  <2>1. PICK q \in live : m \in Has(q)
    <3>1. m \in Owed
      BY <1>1 DEF Owed
    <3> QED
      BY <1>1, <2>0, <3>1 DEF Inv, Held, Carries
  <2>2. q \in Room
    BY <2>1 DEF Inv, Types
  <2>3. CASE q \notin {r, to}
    BY <1>1, <1>4, <1>5, <2>1, <2>2, <2>3
  <2>4. CASE m \in Has(r)
    <3>1. m \in Log(r)' \cap view'[r]
      BY <1>1, <1>5, <2>0, <2>4 DEF Has, Read
    <3> QED
      BY <1>3, <1>4, <3>1 DEF Carries
  <2>5. q = to => m \in Has(r)
    BY <1>1, <2>1 DEF Owed, Has
  <2> QED
    BY <2>1, <2>3, <2>4, <2>5
<1>17. Guarded'
  BY <1>1, <1>5, StillGuarded
<1> QED
  BY <1>6, <1>7, <1>8, <1>9, <1>10, <1>11, <1>14, <1>15, <1>16, <1>17 DEF Inv

LEMMA DeleteInv == ASSUME Inv, NEW r \in Room, Delete(r) PROVE Inv'
<1>1. /\ Free /\ phase = "up" /\ r \in live
      /\ live' = live \ {r} /\ view' = [view EXCEPT ![r] = None]
      /\ job' = [of |-> "delete", from |-> r, to |-> r, at |-> "key"]
      /\ UNCHANGED <<cards, index, claim, log, ruined, retired>>
      /\ UNCHANGED <<phase, typing, sent, faults, failed, told, astray, left>>
  BY DEF Delete, Ready, disk, hist
<1>2. r \in Master
  BY <1>1 DEF Inv, Phases, Room
<1>3. /\ job'.of = "delete" /\ job'.from = r /\ job'.to = r /\ job'.at = "key"
      /\ job' \in JobType
  BY <1>1, <1>2 DEF JobType, Stage
<1>4. ~Free' /\ Locked' = {r} /\ ~Moves' /\ ~Erasing'
  BY <1>3 DEF Free, NoJob, Locked, Moves, JobType, Erasing
<1>5. /\ Listed' = Listed /\ Lasting' = Listed /\ Locked = {} /\ Lasting = Listed
      /\ \A q \in Room : Log(q)' = Log(q)
      /\ \A q \in Room \ {r} : view'[q] = view[q] /\ Has(q)' = Has(q)
  BY <1>1, <1>4, Jobs DEF Inv, Types, Listed, Lasting, Log, Has, Read
<1>6. Types'
  BY <1>1, <1>3 DEF Inv, Types, History
<1>7. Phases'
  BY <1>1 DEF Inv, Phases
<1>8. Kinds'
  BY <1>1, <1>2, <1>3 DEF Kinds, Copying
<1>9. Stages'
  BY <1>3 DEF Stages
<1>10. Failing'
  BY <1>3, <1>4 DEF Failing
<1>11. Young'
  BY <1>1, <1>5, Rooms DEF Inv, Young
<1>12. failed = "never" => Sound /\ Sound'
  BY <1>1, Calm DEF Sound
<1>13. Sound => \A q \in Room : q \in live <=> q \in Listed
  BY <1>5 DEF Inv, Contacts
<1>14. Contacts'
  BY <1>1, <1>3, <1>4, <1>5, <1>12, <1>13 DEF Inv, Contacts, Sound
<1>15. Views'
  BY <1>1, <1>3, <1>4, <1>5, <1>12 DEF Inv, Types, Views, Sound
<1>16. Held'
  <2> SUFFICES ASSUME Sound', NEW m \in Owed
               PROVE  Carries(m)' \/ \E q \in live' \ Locked' : m \in Has(q)'
    BY <1>1 DEF Held, Owed
  <2>1. PICK q \in live : m \in Has(q)
    BY <1>1, <1>12 DEF Sound, Inv, Held, Carries
  <2>2. q \in Room
    BY <2>1 DEF Inv, Types
  <2>3. CASE q # r
    BY <1>1, <1>4, <1>5, <2>1, <2>2, <2>3
  <2>4. CASE q = r
    <3>1. m \in Log(r)'
      BY <1>5, <2>1, <2>4 DEF Has
    <3> QED
      BY <1>3, <1>4, <3>1 DEF Carries
  <2> QED
    BY <2>3, <2>4
<1>17. Guarded'
  BY <1>1, <1>5, StillGuarded
<1> QED
  BY <1>6, <1>7, <1>8, <1>9, <1>10, <1>11, <1>14, <1>15, <1>16, <1>17 DEF Inv

-----------------------------------------------------------------------------
(* The stages of a job.                                                    *)

\* A job under way, and its own record in the next stage.
LEMMA Advance ==
    ASSUME Inv, NEW at \in Stage \ {"unlist", "retire"}, At(at)
    PROVE  /\ ~Free /\ job \in JobType /\ job.at = at
           /\ Locked = {job.from, job.to} /\ phase # "off"
           /\ ~Free' /\ job' \in JobType /\ job'.at = After(at)
           /\ job'.of = job.of /\ job'.from = job.from /\ job'.to = job.to
           /\ Locked' = Locked /\ Moves' = Moves
           /\ UNCHANGED <<phase, live, typing, sent, faults, failed, astray, left>>
<1>1. /\ ~Free /\ job.at = at
      /\ UNCHANGED <<phase, live, typing, sent, faults, failed, astray, left>>
      /\ job' = [job EXCEPT !.at = After(at)]
  BY DEF At
<1>2. job \in JobType /\ After(at) \in Stage
  BY <1>1 DEF Inv, Types, Free, After, Stage
<1>3. /\ job' \in JobType /\ job'.at = After(at)
      /\ job'.of = job.of /\ job'.from = job.from /\ job'.to = job.to
  BY <1>1, <1>2 DEF JobType
<1>4. ~Free'
  BY <1>3 DEF JobType, Free, NoJob
<1>5. phase # "off"
  BY <1>1 DEF Inv, Phases
<1> QED
  BY <1>1, <1>2, <1>3, <1>4, <1>5 DEF Locked, Moves

\* What a stage leaves alone.
LEMMA StageKeeps ==
    ASSUME Inv, NEW at \in Stage \ {"unlist", "retire"}, At(at), view' = view,
           ruined' \subseteq ruined \cup {job.from},
           claim' = claim \/ \E r \in Room : claim' = [claim EXCEPT ![r] = 0]
    PROVE  /\ Kinds' /\ Phases' /\ claim' \in [Room -> {0} \cup Master]
           /\ phase = "boot" => 0 \notin live
           /\ failed = "never" => Sound /\ Sound' /\ (phase = "boot" => live \cap ruined' = {})
<1>1. /\ ~Free /\ job \in JobType /\ job.at = at
      /\ ~Free' /\ job'.at = After(at)
      /\ job'.of = job.of /\ job'.from = job.from /\ job'.to = job.to
      /\ phase # "off"
      /\ UNCHANGED <<phase, live, typing, failed>>
  BY Advance
<1>2. Kinds'
  <2>1. After(at) # "retire" /\ (at \notin Copying => After(at) \notin Copying)
    BY DEF After, Stage, Copying
  <2> QED
    BY <1>1, <2>1 DEF Inv, Kinds
<1>3. job.from \notin live /\ (phase = "boot" => 0 \notin live)
  BY <1>1, Rooms DEF Inv, Kinds, JobType
<1>4. /\ claim' \in [Room -> {0} \cup Master]
      /\ \A r \in Room : claim'[r] \in Master => claim'[r] # r
  BY Rooms DEF Inv, Types, Phases
<1>5. Phases'
  BY <1>1, <1>3, <1>4 DEF Inv, Phases
<1>6. failed = "never" => Sound
  BY <1>1, Calm
<1>7. failed = "never" => Sound' /\ (phase = "boot" => live \cap ruined' = {})
  BY <1>1, <1>3, <1>6 DEF Sound
<1> QED
  BY <1>2, <1>3, <1>4, <1>5, <1>6, <1>7

LEMMA CopyInv == ASSUME Inv, Copy PROVE Inv'
<1>1. /\ At("copy") /\ job.from \notin ruined /\ job.to \notin ruined
      /\ log' = [log EXCEPT ![job.to] = Log(job.from)]
      /\ UNCHANGED <<cards, index, claim, ruined, retired, view, told>>
  BY DEF Copy
<1>2. /\ ~Free /\ job \in JobType /\ job.at = "copy"
      /\ Locked = {job.from, job.to} /\ phase # "off"
      /\ ~Free' /\ job' \in JobType /\ job'.at = "card"
      /\ job'.of = job.of /\ job'.from = job.from /\ job'.to = job.to
      /\ Locked' = Locked /\ Moves' = Moves
      /\ UNCHANGED <<phase, live, typing, sent, faults, failed, astray, left>>
  BY <1>1, Advance DEF Stage, After
<1>3. /\ Kinds' /\ Phases' /\ (phase = "boot" => 0 \notin live)
      /\ failed = "never" => Sound /\ Sound' /\ (phase = "boot" => live \cap ruined' = {})
  BY <1>1, StageKeeps DEF Stage
<1>4. /\ job.of \in {"move", "accept"} /\ job.from # job.to /\ Moves
      /\ job.from \in Room /\ job.to \in Room
      /\ phase = "boot" => job.from = 0 /\ job.to = 1
      /\ phase = "boot" \/ phase = "up"
  BY <1>2 DEF Inv, Kinds, Copying, JobType, Moves, Types
<1>5. Log(job.from) \in History /\ Log(job.from) # None
  BY <1>4, Sets DEF Inv, History
<1>6. /\ \A r \in Room \ {job.to} : log'[r] = log[r]
      /\ log'[job.to] = Log(job.from) /\ log' \in [Room -> History]
  BY <1>1, <1>4, <1>5 DEF Inv, Types
<1>7. /\ \A r \in Room \ {job.to} : Log(r)' = Log(r) /\ Has(r)' = Has(r)
      /\ Log(job.to)' = Log(job.from)
      /\ \A r \in Room : r = job.to => Log(r)' = Log(job.from)
  <2>1. \A r \in Room \ {job.to} : Log(r)' = Log(r) /\ Read(r)' = Read(r)
    BY <1>1, <1>6 DEF Log, Read
  <2>2. \A r \in Room : r = job.to => Log(r)' = Log(job.from)
    BY <1>5, <1>6 DEF Log
  <2> QED
    BY <1>2, <1>4, <2>1, <2>2 DEF Has
<1>8. Listed' = Listed /\ Lasting = Listed /\ Lasting' = Listed /\ ~Erasing'
  BY <1>1, <1>2 DEF Listed, Lasting, Erasing
<1>9. Types'
  <2>1. ruined' \subseteq {r \in Room : log'[r] # None}
    BY <1>1, <1>5, <1>6 DEF Inv, Types
  <2> QED
    BY <1>1, <1>2, <1>6, <2>1 DEF Inv, Types, History
<1>10. Stages'
  BY <1>1, <1>2, <1>4, <1>7 DEF Stages, Copying
<1>11. Failing'
  BY <1>2, <1>4 DEF Failing
<1>12. Young'
  <2>1. phase = "up" /\ failed = "never" => 0 \notin Listed
    BY OldRoomUp
  <2>2. phase = "boot" => Log(0)' \subseteq Log(1)'
    BY <1>4, <1>7, Rooms
  <2> QED
    BY <1>1, <1>2, <1>3, <1>4, <1>8, <2>1, <2>2 DEF Inv, Young
<1>13. Contacts'
  BY <1>1, <1>2, <1>3, <1>8 DEF Inv, Contacts, Sound
<1>14. Views'
  BY <1>1, <1>2, <1>3, <1>4 DEF Inv, Views, Sound
<1>15. Held'
  <2> SUFFICES ASSUME Sound', NEW m \in Owed
               PROVE  Carries(m)' \/ \E r \in live' \ Locked' : m \in Has(r)'
    BY <1>1, <1>2 DEF Held, Owed
  <2>1. Carries(m) \/ \E r \in live \ Locked : m \in Has(r)
    BY <1>2, <1>3 DEF Sound, Inv, Held
  <2>2. CASE Carries(m)
    <3>1. m \in Log(job.from) \cap view[job.from]
      BY <1>2, <1>4, <2>2 DEF Carries
    <3> QED
      BY <1>1, <1>2, <1>4, <1>7, <3>1 DEF Carries
  <2>3. CASE \E r \in live \ Locked : m \in Has(r)
    BY <1>2, <1>7, <2>3 DEF Inv, Types
  <2> QED
    BY <2>1, <2>2, <2>3
<1>16. Guarded'
  <2> SUFFICES ASSUME failed # "never", NEW m \in Owed
               PROVE  \E r \in Listed \ ruined : m \in Log(r)'
    BY <1>1, <1>2, <1>3, <1>8 DEF Guarded, Owed
  <2>1. PICK r \in Listed \ ruined : m \in Log(r)
    BY <1>8, Lasts
  <2>2. r = job.to => m \in Log(job.from)
    BY <1>2, <1>4, <2>1 DEF Inv, Failing
  <2>3. m \in Log(r)'
    BY <1>7, <2>1, <2>2 DEF Listed, Inv, Types
  <2> QED
    BY <2>1, <2>3
<1> QED
  BY <1>3, <1>9, <1>10, <1>11, <1>12, <1>13, <1>14, <1>15, <1>16 DEF Inv

\* The new contact and its place in the index.
LEMMA FileInv ==
    ASSUME Inv, NEW at \in {"card", "list"}, At(at),
           cards' = cards \cup IF at = "card" THEN {job.to} ELSE {},
           index' = index \cup IF at = "list" THEN {job.to} ELSE {},
           claim' = claim \/ claim' = [claim EXCEPT ![job.to] = 0],
           UNCHANGED <<log, ruined, retired, view, told>>
    PROVE  Inv'
<1>1. /\ ~Free /\ job \in JobType /\ job.at = at
      /\ Locked = {job.from, job.to} /\ phase # "off"
      /\ ~Free' /\ job' \in JobType /\ job'.at = (IF at = "card" THEN "list" ELSE "key")
      /\ job'.of = job.of /\ job'.from = job.from /\ job'.to = job.to
      /\ Locked' = Locked /\ Moves' = Moves
      /\ UNCHANGED <<phase, live, typing, sent, faults, failed, astray, left>>
  BY Advance DEF Stage, After
<1>2. /\ Kinds' /\ Phases' /\ (phase = "boot" => 0 \notin live)
      /\ claim' \in [Room -> {0} \cup Master]
      /\ failed = "never" => Sound /\ Sound' /\ (phase = "boot" => live \cap ruined' = {})
  BY <1>1, StageKeeps DEF Stage, JobType
<1>3. /\ job.of \in {"move", "accept"} /\ job.from # job.to /\ Moves
      /\ job.from \in Room /\ job.to \in Room
      /\ phase = "boot" => job.from = 0 /\ job.to = 1
      /\ phase = "up" => job.to # 0
      /\ phase = "boot" \/ phase = "up"
  BY <1>1, Rooms DEF Inv, Kinds, Copying, JobType, Moves, Types
<1>4. /\ Listed \subseteq Listed' /\ Listed' \subseteq Listed \cup {job.to}
      /\ Lasting = Listed /\ Lasting' = Listed'
      /\ \A r \in Room : Log(r)' = Log(r) /\ Has(r)' = Has(r)
  BY <1>1 DEF Listed, Lasting, Erasing, Log, Has, Read
<1>5. Types'
  BY <1>1, <1>2, <1>3 DEF Inv, Types, History
<1>6. Log(job.to) = Log(job.from) /\ job.from \notin ruined /\ job.to \notin ruined
      /\ (at = "list" => job.to \in cards)
  BY <1>1, <1>3 DEF Inv, Stages
<1>7. Stages'
  BY <1>1, <1>3, <1>4, <1>6 DEF Stages, Copying
<1>8. Failing'
  BY <1>1, <1>3 DEF Failing
<1>9. Young'
  <2>1. phase = "up" /\ failed = "never" => 0 \notin Listed'
    BY <1>3, <1>4, OldRoomUp
  <2>2. phase = "boot" => Log(0)' \subseteq Log(1)'
    BY <1>3, <1>4, <1>6, Rooms
  <2> QED
    BY <1>1, <1>2, <1>3, <1>4, <2>1, <2>2 DEF Inv, Young
<1>10. Contacts'
  BY <1>1, <1>2, <1>4 DEF Inv, Contacts, Sound
<1>11. Views'
  BY <1>1, <1>2, <1>3 DEF Inv, Views, Sound
<1>12. Held'
  <2>1. \A m : Carries(m) => Carries(m)'
    BY <1>1, <1>3, <1>4 DEF Carries
  <2> QED
    BY <1>1, <1>2, <1>4, <2>1 DEF Inv, Types, Held, Owed, Sound
<1>13. Guarded'
  BY <1>1, <1>4, StillGuarded
<1> QED
  BY <1>2, <1>5, <1>7, <1>8, <1>9, <1>10, <1>11, <1>12, <1>13 DEF Inv

LEMMA CardInv == ASSUME Inv, Card PROVE Inv'
<1> DEFINE at == "card"
<1>1. /\ At(at) /\ cards' = cards \cup IF at = "card" THEN {job.to} ELSE {}
      /\ index' = index \cup IF at = "list" THEN {job.to} ELSE {}
      /\ claim' = claim \/ claim' = [claim EXCEPT ![job.to] = 0]
      /\ UNCHANGED <<log, ruined, retired, view, told>>
  BY DEF Card
<1>2. at \in {"card", "list"}
  OBVIOUS
<1> HIDE DEF at
<1> QED
  BY <1>1, <1>2, FileInv

LEMMA ListInv == ASSUME Inv, List PROVE Inv'
<1> DEFINE at == "list"
<1>1. /\ At(at) /\ cards' = cards \cup IF at = "card" THEN {job.to} ELSE {}
      /\ index' = index \cup IF at = "list" THEN {job.to} ELSE {}
      /\ claim' = claim \/ claim' = [claim EXCEPT ![job.to] = 0]
      /\ UNCHANGED <<log, ruined, retired, view, told>>
  BY DEF List
<1>2. at \in {"card", "list"}
  OBVIOUS
<1> HIDE DEF at
<1> QED
  BY <1>1, <1>2, FileInv

\* The key of the old room: what it takes is in another log.
LEMMA EraseKeyInv == ASSUME Inv, EraseKey PROVE Inv'
<1>1. /\ At("key") /\ ruined' = ruined \cup {r \in {job.from} : log[r] # None}
      /\ told' = IF job.of = "delete" THEN told \ Gone ELSE told
      /\ UNCHANGED <<cards, index, claim, log, retired, view>>
  BY DEF EraseKey
<1>2. /\ ~Free /\ job \in JobType /\ job.at = "key"
      /\ Locked = {job.from, job.to} /\ phase # "off"
      /\ ~Free' /\ job' \in JobType /\ job'.at = "log"
      /\ job'.of = job.of /\ job'.from = job.from /\ job'.to = job.to
      /\ Locked' = Locked /\ Moves' = Moves
      /\ UNCHANGED <<phase, live, typing, sent, faults, failed, astray, left>>
  BY <1>1, Advance DEF Stage, After
<1>3. /\ Kinds' /\ Phases' /\ (phase = "boot" => 0 \notin live)
      /\ failed = "never" => Sound /\ Sound' /\ (phase = "boot" => live \cap ruined' = {})
  BY <1>1, StageKeeps DEF Stage
<1>4. /\ job.of \in {"move", "merge", "accept", "delete"}
      /\ job.from \in Room /\ job.to \in Room /\ job.from \notin live
      /\ job.of = "delete" <=> job.from = job.to
      /\ Moves \/ job.of = "merge" \/ job.of = "delete"
  BY <1>2 DEF Inv, Kinds, JobType, Moves
<1>5. /\ Listed' = Listed /\ Lasting = Listed /\ Lasting' = Listed \ {job.from}
      /\ Listed \subseteq Room
      /\ \A r \in Room : Log(r)' = Log(r) /\ Has(r)' = Has(r)
      /\ ruined' \subseteq ruined \cup {job.from}
  BY <1>1, <1>2 DEF Listed, Lasting, Erasing, Log, Has, Read, Inv, Types
<1>6. /\ Owed' \subseteq Owed
      /\ job.of = "delete" =>
             \A m \in Owed' : m \in Log(job.from) =>
                 \E q \in (live \cap Listed) \ ruined : m \in Has(q)
  BY <1>1, <1>2 DEF Owed, Gone
<1>7. Types'
  BY <1>1, <1>2, <1>4 DEF Inv, Types, History
<1>8. job.of # "delete" => /\ job.to \notin ruined /\ job.to \in Listed
                           /\ (Moves => Log(job.to) = Log(job.from))
  BY <1>2 DEF Inv, Stages, Copying, Listed
<1>9. Stages'
  BY <1>1, <1>2, <1>4, <1>5, <1>8 DEF Stages, Copying, Listed
<1>10. Failing'
  BY <1>2 DEF Failing
<1>11. failed = "never" => ruined = {} /\ job.from \in Listed
  BY <1>2, <1>3 DEF Inv, Contacts
<1>12. Young'
  BY <1>2, <1>3, <1>5, <1>11, Rooms DEF Inv, Young
<1>13. Contacts'
  <2>1. failed = "never" => ruined' = {} \/ ruined' = {job.from}
    BY <1>5, <1>11
  <2> QED
    BY <1>2, <1>3, <1>5, <1>11, <2>1 DEF Inv, Contacts, Sound
<1>14. Views'
  BY <1>1, <1>2, <1>3 DEF Inv, Views, Sound
<1>15. Held'
  <2> SUFFICES ASSUME Sound', NEW m \in Owed'
               PROVE  Carries(m)' \/ \E r \in live' \ Locked' : m \in Has(r)'
    BY DEF Held
  <2>1. Carries(m) \/ \E r \in live \ Locked : m \in Has(r)
    BY <1>2, <1>3, <1>6 DEF Sound, Inv, Held
  <2>2. CASE \E r \in live \ Locked : m \in Has(r)
    BY <1>2, <1>5, <2>2 DEF Inv, Types
  <2>3. CASE Carries(m) /\ job.of # "delete"
    BY <1>1, <1>2, <1>4, <1>5, <2>3 DEF Carries
  <2>4. CASE Carries(m) /\ job.of = "delete"
    <3>1. m \in Log(job.from)
      BY <1>2, <2>4 DEF Carries, Moves
    <3>2. PICK q \in live : m \in Has(q)
      BY <1>6, <2>4, <3>1
    <3>3. q \notin Locked /\ q \in Room
      BY <1>2, <1>4, <2>4 DEF Inv, Types
    <3> QED
      BY <1>2, <1>5, <3>2, <3>3
  <2> QED
    BY <2>1, <2>2, <2>3, <2>4
<1>16. Guarded'
  <2> SUFFICES ASSUME failed # "never", NEW m \in Owed'
               PROVE  \E r \in (Listed \ {job.from}) \ ruined : m \in Log(r)
    BY <1>2, <1>3, <1>5 DEF Guarded
  <2>1. PICK r \in Listed \ ruined : m \in Log(r)
    BY <1>5, <1>6, Lasts
  <2>2. CASE r # job.from
    BY <2>1, <2>2
  <2>3. CASE r = job.from /\ job.of # "delete"
    <3>1. m \in Log(job.to)
      BY <1>2, <1>4, <1>6, <1>8, <2>1, <2>3 DEF Inv, Failing
    <3> QED
      BY <1>4, <1>8, <2>3, <3>1
  <2>4. CASE r = job.from /\ job.of = "delete"
    BY <1>4, <1>6, <2>1, <2>4 DEF Has
  <2> QED
    BY <2>2, <2>3, <2>4
<1> QED
  BY <1>3, <1>7, <1>9, <1>10, <1>12, <1>13, <1>14, <1>15, <1>16 DEF Inv

LEMMA EraseLogInv == ASSUME Inv, EraseLog PROVE Inv'
<1>1. /\ At("log") /\ log' = [log EXCEPT ![job.from] = None]
      /\ ruined' = ruined \ {job.from}
      /\ UNCHANGED <<cards, index, claim, retired, view, told>>
  BY DEF EraseLog
<1>2. /\ ~Free /\ job \in JobType /\ job.at = "log"
      /\ Locked = {job.from, job.to} /\ phase # "off"
      /\ ~Free' /\ job' \in JobType /\ job'.at = "record"
      /\ job'.of = job.of /\ job'.from = job.from /\ job'.to = job.to
      /\ Locked' = Locked /\ Moves' = Moves
      /\ UNCHANGED <<phase, live, typing, sent, faults, failed, astray, left>>
  BY <1>1, Advance DEF Stage, After
<1>3. /\ Kinds' /\ Phases' /\ (phase = "boot" => 0 \notin live)
      /\ failed = "never" => Sound /\ Sound' /\ (phase = "boot" => live \cap ruined' = {})
  BY <1>1, StageKeeps DEF Stage
<1>4. /\ job.of \in {"move", "merge", "accept", "delete"}
      /\ job.from \in Room /\ job.to \in Room
      /\ job.of = "delete" <=> job.from = job.to
      /\ Moves \/ job.of = "merge" \/ job.of = "delete"
      /\ phase = "boot" => job.from = 0
      /\ phase = "boot" \/ phase = "up"
  BY <1>2 DEF Inv, Kinds, JobType, Moves, Types
<1>5. /\ \A r \in Room \ {job.from} : log'[r] = log[r] /\ Log(r)' = Log(r) /\ Has(r)' = Has(r)
      /\ \A r \in Room : r = job.from => Log(r)' = {}
      /\ log' \in [Room -> History]
  BY <1>1, <1>4 DEF Log, Has, Read, Inv, Types, History
<1>6. Listed' = Listed /\ Lasting = Listed \ {job.from} /\ Lasting' = Listed \ {job.from}
  BY <1>1, <1>2 DEF Listed, Lasting, Erasing
<1>7. Types'
  <2>1. ruined' \subseteq {r \in Room : log'[r] # None}
    BY <1>1, <1>5 DEF Inv, Types
  <2> QED
    BY <1>1, <1>2, <1>5, <2>1 DEF Inv, Types, History
<1>8. Stages'
  BY <1>1, <1>2, <1>4 DEF Inv, Stages, Copying
<1>9. Failing'
  BY <1>2 DEF Failing
<1>10. Young'
  <2>1. phase = "up" /\ failed = "never" => 0 \notin Listed
    BY OldRoomUp
  <2>2. phase = "boot" => Log(0)' \subseteq Log(1)'
    BY <1>4, <1>5, Rooms
  <2> QED
    BY <1>1, <1>2, <1>3, <1>4, <1>6, <2>1, <2>2 DEF Inv, Young
<1>11. Contacts'
  BY <1>1, <1>2, <1>3, <1>6 DEF Inv, Contacts, Sound
<1>12. Views'
  BY <1>1, <1>2, <1>3 DEF Inv, Views, Sound
<1>13. Held'
  <2>1. \A m : Carries(m) => Carries(m)'
    <3>1. CASE job.of = "delete"
      BY <1>2, <3>1 DEF Carries, Moves
    <3>2. CASE job.of # "delete"
      <4>1. Log(job.to)' = Log(job.to) /\ Has(job.to)' = Has(job.to)
        BY <1>2, <1>4, <1>5, <3>2
      <4> QED
        BY <1>1, <1>2, <3>2, <4>1 DEF Carries
    <3> QED
      BY <3>1, <3>2
  <2> QED
    BY <1>1, <1>2, <1>3, <1>5, <2>1 DEF Inv, Types, Held, Owed, Sound
<1>14. Guarded'
  <2>1. \A m \in Owed : \E r \in Lasting \ ruined : m \in Log(r)
    BY Lasts
  <2> QED
    BY <1>1, <1>2, <1>5, <1>6, <2>1 DEF Guarded, Owed, Listed, Inv, Types
<1> QED
  BY <1>3, <1>7, <1>8, <1>9, <1>10, <1>11, <1>12, <1>13, <1>14 DEF Inv

LEMMA EraseCardInv == ASSUME Inv, EraseCard PROVE Inv'
<1>1. /\ At("record") /\ cards' = cards \ {job.from}
      /\ claim' = [claim EXCEPT ![job.from] = 0]
      /\ UNCHANGED <<index, log, ruined, retired, view, told>>
  BY DEF EraseCard
<1>2. /\ ~Free /\ job \in JobType /\ job.at = "record"
      /\ Locked = {job.from, job.to} /\ phase # "off"
      /\ ~Free' /\ job' \in JobType /\ job'.at = "unlist"
      /\ job'.of = job.of /\ job'.from = job.from /\ job'.to = job.to
      /\ Locked' = Locked /\ Moves' = Moves
      /\ UNCHANGED <<phase, live, typing, sent, faults, failed, astray, left>>
  BY <1>1, Advance DEF Stage, After
<1>3. /\ Kinds' /\ Phases' /\ (phase = "boot" => 0 \notin live)
      /\ claim' \in [Room -> {0} \cup Master]
      /\ failed = "never" => Sound /\ Sound' /\ (phase = "boot" => live \cap ruined' = {})
  BY <1>1, <1>2, StageKeeps DEF Stage, JobType
<1>4. /\ job.of \in {"move", "merge", "accept", "delete"}
      /\ job.from \in Room /\ job.to \in Room
      /\ job.of = "delete" <=> job.from = job.to
      /\ Moves \/ job.of = "merge" \/ job.of = "delete"
  BY <1>2 DEF Inv, Kinds, JobType, Moves
<1>5. /\ Listed' = Listed \ {job.from} /\ Lasting = Listed' /\ Lasting' = Listed'
      /\ \A r \in Room : Log(r)' = Log(r) /\ Has(r)' = Has(r)
  BY <1>1, <1>2 DEF Listed, Lasting, Erasing, Log, Has, Read
<1>6. Types'
  BY <1>1, <1>2, <1>3 DEF Inv, Types, History
<1>7. Stages'
  BY <1>1, <1>2, <1>4 DEF Inv, Stages, Copying
<1>8. Failing'
  BY <1>2 DEF Failing
<1>9. failed = "never" => ruined = {}
  BY <1>2, <1>3 DEF Inv, Contacts
<1>10. Young'
  BY <1>1, <1>2, <1>5, <1>9, Rooms DEF Inv, Young
<1>11. Contacts'
  BY <1>1, <1>2, <1>3, <1>5, <1>9 DEF Inv, Contacts, Sound
<1>12. Views'
  BY <1>1, <1>2, <1>3 DEF Inv, Views, Sound
<1>13. Held'
  <2>1. \A m : Carries(m) => Carries(m)'
    BY <1>1, <1>2, <1>4, <1>5 DEF Carries
  <2> QED
    BY <1>1, <1>2, <1>3, <1>5, <2>1 DEF Inv, Types, Held, Owed, Sound
<1>14. Guarded'
  BY <1>1, <1>2, <1>5, StillGuarded
<1> QED
  BY <1>3, <1>6, <1>7, <1>8, <1>10, <1>11, <1>12, <1>13, <1>14 DEF Inv

\* The end of a job but for an accepted claim's last record.
LEMMA UnlistInv == ASSUME Inv, Unlist PROVE Inv'
<1>1. /\ ~Free /\ job.at = "unlist" /\ job \in JobType /\ index' = index \ {job.from}
      /\ view' = [view EXCEPT ![job.from] = None,
                              ![job.to] = IF Moves THEN view[job.from] ELSE @]
      /\ UNCHANGED <<cards, claim, log, ruined, retired, told>>
      /\ UNCHANGED <<phase, live, typing, sent, faults, failed, astray, left>>
      /\ job' = IF job.of # "accept" THEN NoJob ELSE [job EXCEPT !.at = After(job.at)]
  BY DEF Unlist, At, Inv, Types, Free
<1>2. /\ job.of \in {"move", "merge", "accept", "delete"}
      /\ job.from \in Room /\ job.to \in Room /\ job.from \notin live
      /\ job.of = "delete" <=> job.from = job.to
      /\ job.of # "delete" => job.to \in live
      /\ phase = "boot" => job.from = 0 /\ job.of \in {"move", "merge"}
      /\ phase = "boot" \/ phase = "up"
      /\ Locked = {job.from, job.to} /\ (Moves <=> job.of \in {"move", "accept"})
  BY <1>1, Jobs DEF Inv, Kinds, JobType, Moves, Types
<1>3. /\ job.of # "accept" => Free' /\ Locked' = {} /\ ~Moves' /\ job'.of = "none"
                              /\ job'.at = "copy"
      /\ job.of = "accept" => /\ ~Free' /\ Locked' = Locked /\ Moves' /\ job' \in JobType
                              /\ job'.of = "accept" /\ job'.at = "retire"
                              /\ job'.from = job.from /\ job'.to = job.to
      /\ job' \in JobType \cup {NoJob} /\ ~Erasing'
  BY <1>1 DEF Free, NoJob, Locked, Moves, JobType, After, Stage, Erasing
<1>4. /\ Listed' = Listed \ {job.from} /\ Lasting = Listed' /\ Lasting' = Listed'
      /\ \A r \in Room : Log(r)' = Log(r)
  BY <1>1, <1>3 DEF Listed, Lasting, Erasing, Log
<1>5. /\ view' \in [Room -> History]
      /\ \A r \in Room \ Locked : view'[r] = view[r]
      /\ Moves => view'[job.to] = view[job.from]
      /\ job.of = "merge" => view'[job.to] = view[job.to]
  BY <1>1, <1>2 DEF Inv, Types, History
<1>6. \A r \in Room \ Locked : Has(r)' = Has(r)
  BY <1>4, <1>5 DEF Has, Read
<1>7. Types'
  BY <1>1, <1>3, <1>5 DEF Inv, Types, History
<1>8. job.of # "delete" => job.to \notin ruined /\ job.to \in Listed
  BY <1>1 DEF Inv, Stages, Copying, Listed
<1>9. Phases'
  <2>1. phase = "boot" => 0 \notin live /\ \A r \in live \cap ruined : view'[r] = None
    BY <1>2, <1>5, <1>8 DEF Inv, Types, Phases
  <2> QED
    BY <1>1, <1>2, <2>1 DEF Inv, Phases
<1>10. Kinds'
  BY <1>1, <1>2, <1>3 DEF Inv, Kinds, Copying
<1>11. Stages'
  BY <1>1, <1>2, <1>3, <1>8 DEF Stages, Copying, Listed
<1>12. Failing'
  BY <1>3 DEF Failing
<1>13. failed = "never" => Sound /\ Sound' /\ ruined = {} /\ job.from \notin Listed
  BY <1>1, <1>2, Calm DEF Sound, Inv, Contacts
<1>14. Young'
  BY <1>1, <1>4, <1>13, Rooms DEF Inv, Young
<1>15. Contacts'
  <2>1. Sound => \A r \in Room \ Locked' : r \in live <=> r \in Listed'
    BY <1>2, <1>3, <1>4, <1>8 DEF Inv, Contacts
  <2> QED
    BY <1>1, <1>3, <1>4, <1>13, <2>1 DEF Contacts, Sound
<1>16. Views'
  <2>1. Sound => \A r \in live \ Locked : view'[r] # None
    BY <1>5 DEF Inv, Views, Types
  <2>2. Sound /\ job.of # "delete" => view'[job.to] # None
    BY <1>1, <1>2, <1>5 DEF Inv, Views
  <2> QED
    BY <1>1, <1>2, <1>3, <1>13, <2>1, <2>2, Rooms DEF Views, Sound
<1>17. Held'
  <2> SUFFICES ASSUME Sound', NEW m \in Owed
               PROVE  Carries(m)' \/ \E r \in live' \ Locked' : m \in Has(r)'
    BY <1>1 DEF Held, Owed
  <2>1. Sound
    BY <1>1, <1>13 DEF Sound
  <2>2. CASE \E r \in live \ Locked : m \in Has(r)
    BY <1>1, <1>3, <1>6, <2>2 DEF Inv, Types
  <2>3. CASE Carries(m)
    <3>1. CASE Moves
      <4>1. m \in Log(job.to) /\ m \in view[job.from]
        BY <1>1, <1>2, <2>3, <3>1 DEF Carries
      <4>2. view[job.from] # None
        BY <1>1, <2>1, <3>1 DEF Inv, Views
      <4>3. \A r \in Room : r = job.to => m \in Has(r)'
        BY <1>2, <1>4, <1>5, <3>1, <4>1, <4>2 DEF Has, Read
      <4>4. CASE job.of = "accept"
        BY <1>2, <1>3, <4>3, <4>4 DEF Carries
      <4>5. CASE job.of = "move"
        BY <1>1, <1>2, <1>3, <4>3, <4>5
      <4> QED
        BY <1>2, <3>1, <4>4, <4>5
    <3>2. CASE job.of = "merge"
      <4>1. m \in Has(job.to)
        BY <1>1, <2>3, <3>2 DEF Carries, Moves
      <4>2. \A r \in Room : r = job.to => m \in Has(r)'
        BY <1>2, <1>4, <1>5, <3>2, <4>1 DEF Has, Read
      <4> QED
        BY <1>1, <1>2, <1>3, <3>2, <4>2
    <3> QED
      BY <1>1, <1>2, <2>3, <3>1, <3>2 DEF Carries
  <2> QED
    BY <2>1, <2>2, <2>3 DEF Inv, Held
<1>18. Guarded'
  BY <1>1, <1>4, StillGuarded
<1> QED
  BY <1>7, <1>9, <1>10, <1>11, <1>12, <1>14, <1>15, <1>16, <1>17, <1>18 DEF Inv

LEMMA RetireInv == ASSUME Inv, Retire PROVE Inv'
<1>1. /\ ~Free /\ job.at = "retire" /\ job \in JobType /\ retired' = retired \cup {job.from}
      /\ UNCHANGED <<cards, index, claim, log, ruined, view, told>>
      /\ UNCHANGED <<phase, live, typing, sent, faults, failed, astray, left>>
      /\ job' = NoJob
  BY DEF Retire, At, Inv, Types, Free
<1>2. /\ job.of = "accept" /\ phase = "up" /\ Moves
      /\ job.from \in Master /\ job.to \in Room /\ job.from \notin live
      /\ job.from # job.to /\ job.to \in live /\ Locked = {job.from, job.to}
  BY <1>1, Jobs DEF Inv, Kinds, JobType, Moves
<1>3. Free' /\ Locked' = {} /\ ~Moves' /\ job'.of = "none" /\ job'.at = "copy"
  BY <1>1 DEF Free, NoJob, Locked, Moves
<1>4. /\ Listed' = Listed /\ Lasting = Listed /\ Lasting' = Listed
      /\ \A r \in Room : Log(r)' = Log(r) /\ Has(r)' = Has(r)
  BY <1>1, <1>3 DEF Listed, Lasting, Erasing, Log, Has, Read
<1>5. Types'
  BY <1>1, <1>2 DEF Inv, Types, History
<1>6. Phases'
  BY <1>1, <1>2 DEF Inv, Phases
<1>7. Kinds' /\ Stages'
  BY <1>3 DEF Kinds, Stages
<1>8. Failing'
  BY <1>3 DEF Failing
<1>9. failed = "never" => Sound /\ Sound' /\ ruined = {} /\ job.from \notin Listed
  BY <1>1, <1>2, Calm DEF Sound, Inv, Contacts
<1>10. job.to \in Listed
  BY <1>1, <1>2 DEF Inv, Stages, Copying, Listed
<1>11. Young'
  BY <1>1, <1>2, <1>4, Rooms DEF Inv, Young
<1>12. Contacts'
  BY <1>1, <1>2, <1>3, <1>4, <1>9, <1>10 DEF Inv, Contacts, Sound
<1>13. Views'
  <2>1. Sound => \A r \in live : view[r] # None
    BY <1>1, <1>2 DEF Inv, Views
  <2> QED
    BY <1>1, <1>2, <1>3, <1>9, <2>1 DEF Views, Sound
<1>14. Held'
  <2>1. Sound => \A m \in Owed : \E r \in live : m \in Has(r)
    BY <1>1, <1>2 DEF Inv, Held, Carries
  <2> QED
    BY <1>1, <1>3, <1>4, <1>9, <2>1 DEF Inv, Types, Held, Owed, Sound
<1>15. Guarded'
  BY <1>1, <1>4, StillGuarded
<1> QED
  BY <1>5, <1>6, <1>7, <1>8, <1>11, <1>12, <1>13, <1>14, <1>15 DEF Inv

-----------------------------------------------------------------------------
(* Failed writes and crashes.                                              *)

LEMMA FailInv == ASSUME Inv, Fail PROVE Inv'
<1>1. /\ ~Free /\ job' = NoJob /\ failed' = "now" /\ faults' \in 0..MaxFault
      /\ told' \subseteq told
      /\ left' = left \cup Log(job.from) \cup Read(job.from) \cup Read(job.to)
      /\ UNCHANGED <<cards, index, claim, log, ruined, retired>>
      /\ UNCHANGED <<phase, live, view, typing, sent, astray>>
  <2>1. faults' \in 0..MaxFault
    BY ContactAssumption DEF Fail, Inv, Types
  <2> QED
    BY <2>1, Jobs DEF Fail, Inv, disk, ram
<1>2. Free' /\ Lasting' = Listed /\ ~Sound' /\ ~Moves' /\ job'.of = "none"
  BY <1>1 DEF Free, Lasting, Erasing, Listed, Sound, Moves, NoJob
<1>3. left' \subseteq 1..sent
  <2>1. job.from \in Room /\ job.to \in Room
    BY <1>1, Jobs DEF Inv
  <2> QED
    BY <1>1, <2>1, Sets DEF Inv, Types
<1>4. Types'
  BY <1>1, <1>3 DEF Inv, Types, History
<1>5. Phases'
  BY <1>1, <1>2 DEF Inv, Phases, Listed
<1>6. Kinds' /\ Stages' /\ Failing' /\ Young'
  BY <1>1, <1>2 DEF Kinds, Stages, Failing, Young
<1>7. Guarded'
  <2>1. Lasting \subseteq Lasting'
    BY <1>2 DEF Lasting
  <2> QED
    BY <1>1, <2>1, StillGuarded
<1> QED
  BY <1>2, <1>4, <1>5, <1>6, <1>7 DEF Inv, Contacts, Views, Held

LEMMA CrashInv == ASSUME Inv, Crash PROVE Inv'
<1>1. /\ phase' = "off" /\ job' = NoJob /\ live' = {} /\ typing' = {}
      /\ view' = [r \in Room |-> None] /\ faults' \in 0..MaxFault
      /\ failed' = (IF failed = "never" THEN failed ELSE "before")
      /\ left' = left \cup IF Orphaned THEN Log(job.from) ELSE {}
      /\ UNCHANGED <<cards, index, claim, log, ruined, retired, sent, told, astray>>
  <2>1. faults' \in 0..MaxFault
    BY ContactAssumption DEF Crash, Inv, Types
  <2> QED
    BY <2>1 DEF Crash, Empty, disk
<1>2. Free' /\ Lasting' = Listed /\ Listed' = Listed /\ ~Sound' /\ ~Moves' /\ job'.of = "none"
  BY <1>1 DEF Free, Lasting, Erasing, Listed, Sound, Moves, NoJob
<1>3. left' \subseteq 1..sent
  <2>1. Orphaned => job.from \in Room
    BY Jobs DEF Inv, Orphaned
  <2> QED
    BY <1>1, <2>1, Sets DEF Inv, Types
<1>4. Types'
  BY <1>1, <1>3 DEF Inv, Types, History
<1>5. Phases'
  BY <1>1, <1>2 DEF Inv, Phases
<1>6. Kinds' /\ Stages' /\ Failing'
  BY <1>2 DEF Kinds, Stages, Failing
<1>7. Young'
  <2>1. Log(0)' = Log(0) /\ Log(1)' = Log(1)
    BY <1>1 DEF Log
  <2> QED
    BY <1>1, <1>2, <2>1 DEF Inv, Young
<1>8. Guarded'
  <2>1. Lasting \subseteq Lasting'
    BY <1>2 DEF Lasting
  <2> QED
    BY <1>1, <2>1, StillGuarded
<1> QED
  BY <1>2, <1>4, <1>5, <1>6, <1>7, <1>8 DEF Inv, Contacts, Views, Held

-----------------------------------------------------------------------------
(* The theorems.                                                           *)

LEMMA NextInv == ASSUME Inv, [Next]_vars PROVE Inv'
<1>1. CASE UNCHANGED vars
  BY <1>1, StutterInv
<1>2. CASE Boot \/ Migrate \/ Up \/ Fail \/ Crash
  BY <1>2, BootInv, MigrateInv, UpInv, FailInv, CrashInv
<1>3. CASE Step
  BY <1>3, CopyInv, CardInv, ListInv, EraseKeyInv, EraseLogInv, EraseCardInv,
     UnlistInv, RetireInv
  DEF Step
<1>4. CASE \E r \in Room : Receive(r) \/ Send(r) \/ Sent(r) \/ SentRefused(r)
  BY <1>4, ReceiveInv, SendInv, SentInv, SentRefusedInv
<1>5. CASE \E r \in Room : Accept(r) \/ Delete(r)
  BY <1>5, AcceptInv, DeleteInv
<1>6. CASE \E r, j \in Master : Claim(r, j)
  BY <1>6, ClaimInv
<1>7. CASE \E j \in Master : Greet(j) \/ AddBundle(j) \/ AddUnread(j)
  BY <1>7, GreetInv, AddBundleInv, AddUnreadInv
<1> QED
  BY <1>1, <1>2, <1>3, <1>4, <1>5, <1>6, <1>7 DEF Next

\* At every stage of every move, removal, crash, failed write and boot what the
\* user may expect is in a contact, or in the hands of the job under way
\* (moveContactStorage, migrateContactsToMaster, rekey.ts:10-31).
THEOREM ContactInvariant == Spec => []Inv
<1>1. Init => Inv
  BY InitInv
<1>2. Inv /\ [Next]_vars => Inv'
  BY NextInv
<1> QED
  BY <1>1, <1>2, PTL DEF Spec

\* Types, and that every contact in memory has its history there.
THEOREM TypeCorrect == Spec => []TypeOK
<1>1. Inv => TypeOK
  <2> SUFFICES ASSUME Inv PROVE TypeOK
    OBVIOUS
  <2>1. 1..sent \subseteq Msg
    BY ContactAssumption DEF Inv, Types, Msg
  <2>2. /\ \A r \in Room : /\ log[r] = None \/ log[r] \subseteq Msg
                           /\ view[r] = None \/ view[r] \subseteq Msg
    BY <2>1 DEF Inv, Types, History
  <2>3. typing \subseteq Room /\ Cardinality(typing) <= 1
    <3>1. CASE typing = {}
      BY <3>1, FS_EmptySet
    <3>2. CASE \E r \in Master : typing = {r}
      <4>1. PICK r \in Master : typing = {r}
        BY <3>2
      <4>2. Cardinality({r}) = 1
        BY FS_Singleton
      <4> QED
        BY <4>1, <4>2, Rooms
    <3> QED
      BY <3>1, <3>2 DEF Inv, Types
  <2>4. Ready /\ failed = "never" => \A r \in live : view[r] # None
    BY Calm, Jobs DEF Ready, Inv, Views
  <2>5. told \cup astray \cup left \subseteq 1..sent
    BY DEF Inv, Types
  <2>6. job = NoJob \/ job \in JobType
    BY DEF Inv, Types
  <2> QED
    BY <2>2, <2>3, <2>4, <2>5, <2>6 DEF Inv, Types, TypeOK, JobType
<1> QED
  BY <1>1, ContactInvariant, PTL

\* Whatever a move or a removal is at, whatever write fails and wherever the
\* program dies, what the user may expect is readable through a contact that the
\* next boot finds; and as long as no write has failed the contacts show it.
THEOREM HistoryIsKept == Spec => []HistoryKept
<1>1. Inv => Kept
  <2> SUFFICES ASSUME Inv PROVE Kept
    OBVIOUS
  <2>1. Lasting \subseteq Listed
    BY DEF Lasting
  <2> QED
    BY <2>1, Lasts DEF Kept, Saved, Owed
<1>2. Inv => Shown
  <2> SUFFICES ASSUME Inv, Ready, failed = "never"
               PROVE  told \ astray \subseteq UNION {Has(r) : r \in live}
    BY DEF Shown
  <2>1. Sound /\ Free
    BY Calm DEF Ready
  <2>2. \A m \in Owed : \E r \in live : m \in Has(r)
    BY <2>1 DEF Inv, Held, Carries
  <2> QED
    BY <2>2 DEF Owed
<1> QED
  BY <1>1, <1>2, ContactInvariant, PTL DEF HistoryKept

-----------------------------------------------------------------------------
(* Nothing comes back.                                                     *)

\* What of a room is saved or shown, and what may be: it is in the hands of the
\* user, or one of the copies left.
Content(r) == Log(r) \cup Read(r)
Known      == told \cup left

\* A log that boot cannot get past,
Barred(r) == r \in ruined /\ phase # "up" /\ view[r] = None
\* and one whose contact is being removed.
Leaving(r) == job.of = "delete" /\ job.from = r /\ job.at = "log"
Knows == \A r \in Room : Content(r) \subseteq Known \/ Barred(r) \/ Leaving(r)

\* What two rooms have in common is both shown and saved in each (so a removal from
\* one does not count as the user's), is being moved, or has been left.
Doubled(x, y) == (Content(x) \cap Content(y)) \ left
Here(x, m) == /\ x \in Listed /\ m \in Has(x)
              /\ phase = "up" => x \notin ruined /\ x \in live \cup Locked
InHand == \/ Moves /\ job.at \notin {"copy", "retire"}
          \/ job.of = "delete" /\ job.at # "key"
Doubles ==
    \A x, y \in Master : \A m \in Doubled(x, y) :
        x = y \/ Barred(x) \/ Barred(y) \/ (InHand /\ x \in Locked) \/ Here(x, m)

\* The old room has nothing in common with a room that boot does not move it to,
\* and nothing in it that boot will not move.
OldRoom ==
    /\ phase = "up" \/ (phase = "boot" /\ Free /\ 0 \notin live) => Content(0) \subseteq left
    /\ phase = "off" \/ ~Free => Content(0) \subseteq left \/ Log(0) = {} \/ 0 \in Listed
    /\ \A y \in Master \ {1} : Doubled(0, y) = {}

Booting ==
    phase = "boot" =>
        /\ Listed \ {0} \subseteq live
        /\ \A r \in ruined \ {0} : view[r] = None
        /\ 0 \in live /\ live \cap ruined = {} => view[0] # None

\* A contact in memory without a history is one whose log cannot be read, or what a
\* failed write has left behind.
Unread ==
    phase = "up" =>
        \A r \in live \ Locked : view[r] = None => r \in ruined \/ Log(r) \subseteq left

Claims ==
    /\ \A r \in Room : claim[r] # 0 => r \in Listed
    /\ ~Free /\ job.at \in {"unlist", "retire"} => claim[job.from] = 0

\* What a job has in hand: the copy has in common with a third room what both its
\* log and the memory of the old room have.
Handed ==
    Free \/
    /\ job.of = "accept" /\ job.at \in {"copy", "card", "list", "key"} =>
           job.from \in Listed
    /\ job.at = "log" => job.from \in ruined \/ log[job.from] = None
    /\ job.at \in {"record", "unlist", "retire"} => log[job.from] = None
    /\ job.of = "delete" \/ job.at = "retire" => view[job.from] = None
    /\ Moves /\ job.at # "retire" /\ view[job.from] = None =>
           \/ job.at = "copy" /\ job.from \in ruined
           \/ Log(job.from) \subseteq left /\ (job.at # "copy" => Log(job.to) \subseteq left)
    /\ job.at = "retire" /\ view[job.to] = None => Log(job.to) \subseteq left
    /\ Moves /\ job.at \notin {"copy", "retire"} =>
           \A y \in Master \ Locked :
               ((Log(job.to) \cup Read(job.from)) \cap Content(y)) \ left
                   \subseteq Log(job.to) \cap Read(job.from)

Back == Knows /\ Doubles /\ OldRoom /\ Booting /\ Unread /\ Claims /\ Handed

LEMMA Contents ==
    ASSUME Types
    PROVE  \A r \in Room : /\ Log(r) \subseteq Content(r) /\ Read(r) \subseteq Content(r)
                           /\ Has(r) \subseteq Content(r) /\ Content(r) \subseteq 1..sent
BY Sets DEF Content, Has

LEMMA InitBack == Init => Back
<1> SUFFICES ASSUME Init PROVE Back
  OBVIOUS
<1>1. /\ phase = "off" /\ Free /\ ruined = {} /\ live = {} /\ job = NoJob
      /\ \A r \in Room : view[r] = None /\ claim[r] = 0
      /\ log = [r \in Room |-> IF r = 0 /\ told # {} THEN told ELSE None]
      /\ told # {} => 0 \in Listed
  BY DEF Init, Free, Empty, Listed
<1>2. \A r \in Room : Log(r) = (IF r = 0 THEN told ELSE {})
  <2>1. told \in SUBSET (1..MaxMsg)
    BY ContactAssumption DEF Init
  <2>2. None # told
    BY <2>1, ContactAssumption
  <2> QED
    BY <1>1, <2>2 DEF Log
<1>3. \A r \in Room : Content(r) = (IF r = 0 THEN told ELSE {})
  BY <1>1, <1>2 DEF Content, Read
<1>4. Knows
  BY <1>3 DEF Knows, Known
<1>5. Doubles
  BY <1>3, Rooms DEF Doubles, Doubled
<1>6. OldRoom
  BY <1>1, <1>2, <1>3, Rooms DEF OldRoom, Doubled
<1> QED
  BY <1>1, <1>4, <1>5, <1>6 DEF Back, Booting, Unread, Claims, Handed

\* The end of a send.
LEMMA StillBack ==
    ASSUME Back,
           UNCHANGED <<cards, index, claim, log, ruined, phase, live, view, job>>,
           UNCHANGED <<told, left>>
    PROVE  Back'
<1>1. /\ Free' = Free /\ Listed' = Listed /\ Locked' = Locked /\ Moves' = Moves
      /\ InHand' = InHand /\ Known' = Known
      /\ \A r : Log(r)' = Log(r)
  BY DEF Free, Listed, Locked, Moves, InHand, Known, Log
<1>2. \A r : Read(r)' = Read(r)
  BY <1>1 DEF Read
<1>3. \A r : Has(r)' = Has(r) /\ Content(r)' = Content(r)
  BY <1>1, <1>2 DEF Has, Content
<1>4. \A x, y : Doubled(x, y)' = Doubled(x, y)
  BY <1>3 DEF Doubled
<1>5. \A r : Barred(r)' = Barred(r) /\ Leaving(r)' = Leaving(r)
  BY DEF Barred, Leaving
<1>6. \A x, m : Here(x, m)' = Here(x, m)
  BY <1>1, <1>3 DEF Here
<1>7. Knows' /\ Doubles'
  BY <1>1, <1>3, <1>4, <1>5, <1>6 DEF Back, Knows, Doubles
<1>8. OldRoom' /\ Booting' /\ Unread' /\ Claims'
  BY <1>1, <1>3, <1>4 DEF Back, OldRoom, Booting, Unread, Claims
<1>9. Handed'
  BY <1>1, <1>2, <1>3 DEF Back, Handed
<1> QED
  BY <1>7, <1>8, <1>9 DEF Back

\* Between jobs, contacts and histories are added, or a job begins.
LEMMA CalmBack ==
    ASSUME Inv, Back, Ready, UNCHANGED <<log, ruined, phase, told, left>>,
           job'.at \in {"copy", "key"}, live \subseteq live' \cup Locked',
           Listed \subseteq Listed',
           \A r \in Room : \/ view'[r] = view[r] \/ view'[r] = None
                           \/ r \notin live /\ view'[r] \in {Read(r), {}}
    PROVE  Knows' /\ Doubles' /\ OldRoom' /\ Booting'
<1>1. /\ phase = "up" /\ Free /\ job.of = "none" /\ ~Moves /\ Locked = {}
  BY Jobs DEF Ready, Inv
<1>2. \A r \in Room : Log(r)' = Log(r)
  BY DEF Log
<1>3. \A r \in Room : Read(r)' \in {Read(r), Log(r), {}}
  BY <1>2 DEF Read
<1>4. \A r \in Room : Content(r)' \subseteq Content(r)
  BY <1>2, <1>3 DEF Content
<1>5. \A r \in live : Has(r) \subseteq Has(r)'
  <2>1. \A r \in live : Read(r)' \in {Read(r), Log(r)}
    BY <1>2 DEF Read, Inv, Types
  <2> QED
    BY <1>2, <2>1 DEF Has, Inv, Types
<1>6. Known' = Known /\ \A r \in Room : ~Barred(r) /\ ~Leaving(r)
  BY <1>1 DEF Known, Barred, Leaving
<1>7. Knows'
  BY <1>4, <1>6 DEF Back, Knows
<1>8. Doubles'
  <2> SUFFICES ASSUME NEW x \in Master, NEW y \in Master, NEW m \in Doubled(x, y)', x # y
               PROVE  Here(x, m)'
    BY DEF Doubles
  <2>1. m \in Doubled(x, y)
    BY <1>4, Rooms DEF Doubled
  <2>2. Here(x, m)
    BY <1>1, <1>6, <2>1, Rooms DEF Back, Doubles, InHand
  <2>3. x \in Listed' /\ x \in live /\ m \in Has(x)'
    BY <1>1, <1>5, <2>2 DEF Here
  <2> QED
    BY <1>1, <2>2, <2>3 DEF Here
<1>9. OldRoom' /\ Booting'
  <2>1. Content(0)' \subseteq left'
    BY <1>1, <1>4, Rooms DEF Back, OldRoom
  <2> QED
    BY <1>1, <2>1 DEF OldRoom, Booting, Doubled
<1> QED
  BY <1>7, <1>8, <1>9

LEMMA SaveBack ==
    ASSUME Inv, Back, Ready, NEW j \in Master, NEW k, Save(j, k),
           live' = live \cup {j},
           \A r \in Room \ {j} : view'[r] = view[r],
           (j \in live /\ view'[j] = view[j])
               \/ (j \notin live /\ view'[j] \in {Read(j), {}}),
           UNCHANGED <<log, ruined, phase, job, told, left>>
    PROVE  Back'
<1>1. /\ phase = "up" /\ Free /\ job.at = "copy" /\ Locked = {} /\ live \subseteq Room
  BY Jobs DEF Ready, Inv, Types
<1>2. /\ Free' /\ Locked' = {} /\ Listed' = Listed \cup {j}
      /\ claim' = [claim EXCEPT ![j] = k] /\ \A r \in Room : Log(r)' = Log(r)
  BY <1>1 DEF Save, Free, Locked, Listed, Log
<1>3. Knows' /\ Doubles' /\ OldRoom' /\ Booting'
  BY <1>1, <1>2, CalmBack
<1>4. Unread'
  <2>1. j \in live \/ view'[j] # None
    BY Sets, Rooms DEF Inv
  <2>2. \A r \in live' : view'[r] = None => r \in live /\ view[r] = None
    BY <1>1, <2>1
  <2> QED
    BY <1>1, <1>2, <2>2 DEF Back, Unread
<1>5. Claims' /\ Handed'
  BY <1>1, <1>2 DEF Back, Claims, Handed, Inv, Types
<1> QED
  BY <1>3, <1>4, <1>5 DEF Back

LEMMA SendBack == ASSUME Inv, Back, NEW r \in Room, Send(r) PROVE Back'
<1>1. /\ Ready /\ r \in live /\ Save(r, claim[r]) /\ live' = live \cup {r}
      /\ UNCHANGED <<log, ruined, phase, view, job, told, left>>
  BY DEF Send, hist
<1>2. r \in Master
  BY <1>1 DEF Inv, Phases, Ready, Room
<1> QED
  BY <1>1, <1>2, SaveBack

LEMMA ClaimBack ==
    ASSUME Inv, Back, NEW r \in Master, NEW j \in Master, Claim(r, j)
    PROVE  Back'
<1>1. /\ Ready /\ r \in live /\ Save(r, j) /\ live' = live \cup {r}
      /\ UNCHANGED <<log, ruined, phase, view, job, told, left>>
  BY DEF Claim, ram, hist
<1> QED
  BY <1>1, SaveBack

LEMMA GreetBack == ASSUME Inv, Back, NEW j \in Master, Greet(j) PROVE Back'
<1>1. /\ Ready /\ j \notin live /\ Save(j, 0) /\ live' = live \cup {j}
      /\ view' = [view EXCEPT ![j] = {}]
      /\ UNCHANGED <<log, ruined, phase, job, told, left>>
  BY DEF Greet, hist
<1>2. view'[j] = {} /\ \A r \in Room \ {j} : view'[r] = view[r]
  BY <1>1, Rooms DEF Inv, Types
<1> QED
  BY <1>1, <1>2, SaveBack

LEMMA AddBundleBack == ASSUME Inv, Back, NEW j \in Master, AddBundle(j) PROVE Back'
<1>1. /\ Ready /\ j \notin live /\ Save(j, 0) /\ live' = live \cup {j}
      /\ view' = [view EXCEPT ![j] = Read(j)]
      /\ UNCHANGED <<log, ruined, phase, job, told, left>>
  BY DEF AddBundle, hist
<1>2. view'[j] = Read(j) /\ \A r \in Room \ {j} : view'[r] = view[r]
  BY <1>1, Rooms DEF Inv, Types
<1> QED
  BY <1>1, <1>2, SaveBack

LEMMA AddUnreadBack == ASSUME Inv, Back, NEW j \in Master, AddUnread(j) PROVE Back'
<1>1. /\ Ready /\ j \in ruined /\ live' = live \cup {j}
      /\ UNCHANGED <<cards, index, claim, log, ruined, phase, view, job, told, left>>
  BY DEF AddUnread, disk, hist
<1>2. /\ phase = "up" /\ Free /\ job.at = "copy" /\ Locked = {}
  BY <1>1, Jobs DEF Ready, Inv
<1>3. /\ Free' /\ Locked' = {} /\ Listed' = Listed /\ \A r : Log(r)' = Log(r)
  BY <1>1, <1>2 DEF Free, Locked, Listed, Log
<1>4. Knows' /\ Doubles' /\ OldRoom' /\ Booting'
  BY <1>1, <1>2, <1>3, CalmBack
<1> QED
  BY <1>1, <1>2, <1>3, <1>4 DEF Back, Unread, Claims, Handed

LEMMA AcceptBack == ASSUME Inv, Back, NEW r \in Room, Accept(r) PROVE Back'
<1> DEFINE to == claim[r]
<1>1. /\ Ready /\ r \in live /\ to # 0 /\ live' = (live \ {r}) \cup {to}
      /\ job' = [of |-> "accept", from |-> r, to |-> to, at |-> "copy"]
      /\ UNCHANGED <<cards, index, claim, log, ruined, phase, view, told, left>>
  BY DEF Accept, disk
<1>2. /\ phase = "up" /\ Free /\ Locked = {} /\ r \in Listed
  BY <1>1, Jobs DEF Ready, Inv, Back, Claims
<1> HIDE DEF to
<1>3. /\ job'.of = "accept" /\ job'.from = r /\ job'.to = to /\ job'.at = "copy"
      /\ ~Free' /\ Locked' = {r, to} /\ Listed' = Listed /\ \A q : Log(q)' = Log(q)
  BY <1>1 DEF Free, NoJob, Locked, Listed, Log
<1>4. Knows' /\ Doubles' /\ OldRoom' /\ Booting'
  BY <1>1, <1>3, CalmBack
<1>5. Unread'
  BY <1>1, <1>2, <1>3 DEF Back, Unread
<1>6. Claims'
  BY <1>1, <1>3 DEF Back, Claims
<1>7. Handed'
  <2>1. view[r] = None => r \in ruined \/ Log(r) \subseteq left
    BY <1>1, <1>2 DEF Back, Unread
  <2> QED
    BY <1>1, <1>2, <1>3, <2>1 DEF Handed
<1> QED
  BY <1>4, <1>5, <1>6, <1>7 DEF Back

LEMMA DeleteBack == ASSUME Inv, Back, NEW r \in Room, Delete(r) PROVE Back'
<1>1. /\ Ready /\ r \in live /\ live' = live \ {r} /\ view' = [view EXCEPT ![r] = None]
      /\ job' = [of |-> "delete", from |-> r, to |-> r, at |-> "key"]
      /\ UNCHANGED <<cards, index, claim, log, ruined, phase, told, left>>
  BY DEF Delete, disk, hist
<1>2. /\ phase = "up" /\ Free /\ Locked = {}
      /\ view'[r] = None /\ \A q \in Room \ {r} : view'[q] = view[q]
  BY <1>1, Jobs DEF Ready, Inv, Types
<1>3. /\ job'.of = "delete" /\ job'.from = r /\ job'.to = r /\ job'.at = "key"
      /\ ~Free' /\ ~Moves' /\ Locked' = {r} /\ Listed' = Listed
      /\ \A q : Log(q)' = Log(q)
  BY <1>1 DEF Free, NoJob, Moves, Locked, Listed, Log
<1>4. Knows' /\ Doubles' /\ OldRoom' /\ Booting'
  BY <1>1, <1>2, <1>3, CalmBack
<1>5. Unread'
  BY <1>1, <1>2, <1>3 DEF Back, Unread, Inv, Types
<1>6. Claims' /\ Handed'
  BY <1>1, <1>2, <1>3 DEF Back, Claims, Handed
<1> QED
  BY <1>4, <1>5, <1>6 DEF Back

\* A message that a room takes while no job has it.
LEMMA AppendBack ==
    ASSUME Inv, Back, NEW r \in Master \ Locked, phase = "up", Append(r),
           Listed \subseteq Listed',
           UNCHANGED <<claim, ruined, phase, live, job, left>>
    PROVE  Back'
<1> DEFINE h == Read(r) \cup {sent'}
<1>1. /\ sent' = sent + 1 /\ told' = told \cup {sent'} /\ r \in Room /\ r # 0
      /\ log' = [log EXCEPT ![r] = h] /\ view' = [view EXCEPT ![r] = h] /\ r \notin ruined
  BY Rooms DEF Append
<1>2. sent' \notin 1..sent
  BY <1>1, ContactAssumption DEF Inv, Types, Msg
<1>3. /\ Free' = Free /\ Locked' = Locked /\ Moves' = Moves /\ InHand' = InHand
      /\ Known' = Known \cup {sent'} /\ \A q \in Room : Leaving(q)' = Leaving(q)
  BY <1>1 DEF Free, Locked, Moves, InHand, Known, Leaving
<1>4. h # None
  <2>1. sent' \in 1..MaxMsg /\ 1..sent \subseteq 1..MaxMsg /\ Read(r) \subseteq 1..sent
    BY <1>1, ContactAssumption, Sets DEF Append, Inv, Types, Msg
  <2>2. h \in SUBSET (1..MaxMsg)
    BY <2>1
  <2> QED
    BY <2>2, ContactAssumption
<1> HIDE DEF h
<1>5. /\ \A q \in Room \ {r} : /\ log'[q] = log[q] /\ view'[q] = view[q]
                              /\ Log(q)' = Log(q) /\ Read(q)' = Read(q)
                              /\ Has(q)' = Has(q) /\ Content(q)' = Content(q)
      /\ log'[r] = h /\ view'[r] = h
  <2>1. /\ \A q \in Room \ {r} : log'[q] = log[q] /\ view'[q] = view[q]
        /\ log'[r] = h /\ view'[r] = h
    BY <1>1 DEF Inv, Types
  <2> QED
    BY <2>1 DEF Log, Read, Has, Content
<1>6. Has(r)' = h /\ Content(r)' = h
  BY <1>4, <1>5 DEF Log, Read, Has, Content
<1>7. Free \/ (job.from \in Room \ {r} /\ job.to \in Room \ {r})
  BY Jobs DEF Inv
<1>8. \A q \in Room : /\ Content(q) \subseteq 1..sent /\ Has(q) \subseteq Has(q)'
                      /\ Content(q)' \subseteq Content(q) \cup {sent'}
  BY <1>5, <1>6, Contents DEF h, Inv, Content, Has
<1>9. \A q \in Room : ~Barred(q) /\ ~Barred(q)'
  BY DEF Barred
<1>10. Knows'
  BY <1>3, <1>8, <1>9 DEF Back, Knows
<1>11. Doubles'
  <2> SUFFICES ASSUME NEW x \in Master, NEW y \in Master, NEW m \in Doubled(x, y)', x # y
               PROVE  (InHand' /\ x \in Locked') \/ Here(x, m)'
    BY DEF Doubles
  <2>1. m # sent'
    BY <1>2, <1>5, <1>8, Rooms DEF Doubled
  <2>2. m \in Doubled(x, y)
    BY <1>8, <2>1, Rooms DEF Doubled
  <2>3. (InHand /\ x \in Locked) \/ Here(x, m)
    BY <1>9, <2>2, Rooms DEF Back, Doubles
  <2>4. Has(x) \subseteq Has(x)'
    BY <1>8, Rooms
  <2> QED
    BY <1>3, <2>3, <2>4 DEF Here
<1>12. OldRoom' /\ Booting'
  <2>1. Content(0)' \subseteq left'
    BY <1>1, <1>5, Rooms DEF Back, OldRoom
  <2> QED
    BY <2>1 DEF OldRoom, Booting, Doubled
<1>13. Unread'
  BY <1>3, <1>4, <1>5 DEF Back, Unread, Inv, Types
<1>14. Claims'
  BY <1>3 DEF Back, Claims
<1>15. Handed'
  <2>1. CASE Free
    BY <1>3, <2>1 DEF Handed
  <2>2. CASE ~Free
    <3>1. /\ log'[job.from] = log[job.from] /\ view'[job.from] = view[job.from]
          /\ view'[job.to] = view[job.to]
          /\ Log(job.from)' = Log(job.from) /\ Log(job.to)' = Log(job.to)
          /\ Read(job.from)' = Read(job.from)
          /\ Log(job.to) \subseteq 1..sent /\ Read(job.from) \subseteq 1..sent
      BY <1>5, <1>7, <2>2, Sets DEF Inv
    <3>2. Moves /\ job.at \notin {"copy", "retire"} =>
             \A y \in Master \ Locked :
                 ((Log(job.to) \cup Read(job.from)) \cap Content(y)') \ left
                     \subseteq Log(job.to) \cap Read(job.from)
      BY <1>2, <1>8, <2>2, <3>1, Rooms DEF Back, Handed
    <3> QED
      BY <1>3, <2>2, <3>1, <3>2 DEF Back, Handed
  <2> QED
    BY <2>1, <2>2
<1> QED
  BY <1>10, <1>11, <1>12, <1>13, <1>14, <1>15 DEF Back

LEMMA ReceiveBack == ASSUME Inv, Back, NEW r \in Room, Receive(r) PROVE Back'
<1>1. /\ Free /\ phase = "up" /\ r \in live /\ Append(r) /\ Save(r, claim[r])
      /\ UNCHANGED <<ruined, phase, live, job, left>>
  BY DEF Receive, Ready
<1>2. Locked = {} /\ r \in Master
  BY <1>1, Jobs DEF Inv, Phases, Room
<1>3. Listed \subseteq Listed' /\ claim' = claim
  BY <1>1 DEF Save, Listed, Inv, Types
<1> QED
  BY <1>1, <1>2, <1>3, AppendBack

LEMMA SentBack == ASSUME Inv, Back, NEW r \in Room, Sent(r) PROVE Back'
<1>1. /\ r \in typing \ Locked /\ Append(r) /\ Listed' = Listed
      /\ UNCHANGED <<claim, ruined, phase, live, job, left>>
  BY DEF Sent, Listed
<1>2. phase = "up" /\ r \in Master
  BY <1>1 DEF Inv, Phases, Types
<1> QED
  BY <1>1, <1>2, AppendBack

\* A contact is filed or its record erased.
LEMMA FileBack ==
    ASSUME Inv, Back, NEW at \in {"card", "list", "record"}, At(at),
           at # "record" => Listed \subseteq Listed',
           Listed \ {job.from} \subseteq Listed', Listed' \subseteq Listed \cup {job.to},
           \A r \in Room : claim'[r] = claim[r] \/ claim'[r] = 0,
           at = "record" => claim'[job.from] = 0,
           UNCHANGED <<log, ruined, view, told>>
    PROVE  Back'
<1>1. /\ ~Free /\ job \in JobType /\ job.at = at /\ Locked = {job.from, job.to}
      /\ ~Free' /\ job'.at = After(at)
      /\ job'.of = job.of /\ job'.from = job.from /\ job'.to = job.to
      /\ Locked' = Locked /\ Moves' = Moves /\ UNCHANGED <<phase, live, left>>
  BY Advance DEF Stage
<1>2. /\ After(at) \in {"list", "key", "unlist"} /\ at # "copy"
      /\ (at = "record" <=> After(at) = "unlist")
      /\ InHand' = InHand
  <2>1. /\ After(at) \in {"list", "key", "unlist"} /\ at \notin {"copy", "key", "retire"}
        /\ (at = "record" <=> After(at) = "unlist")
        /\ (at = "card" <=> After(at) = "list") /\ (at = "list" <=> After(at) = "key")
    BY DEF After
  <2>2. job.of = "delete" => at = "record"
    BY <1>1 DEF Inv, Kinds, Copying
  <2> QED
    BY <1>1, <2>1, <2>2 DEF InHand
<1>3. /\ \A r : Log(r)' = Log(r) /\ Read(r)' = Read(r)
      /\ Known' = Known
      /\ \A r : Leaving(r)' = Leaving(r) /\ Barred(r)' = Barred(r)
  BY <1>1, <1>2 DEF Log, Read, Known, Leaving, Barred
<1>4. \A r : Has(r)' = Has(r) /\ Content(r)' = Content(r)
  BY <1>3 DEF Has, Content
<1>5. \A x, y : Doubled(x, y)' = Doubled(x, y)
  BY <1>1, <1>4 DEF Doubled
<1>6. job.from = 0 \/ InHand
  BY <1>1, <1>2 DEF JobType, Moves, InHand, Inv, Kinds
<1>7. Knows'
  BY <1>3, <1>4 DEF Back, Knows
<1>8. Doubles'
  <2> SUFFICES ASSUME NEW x \in Master, NEW y \in Master, NEW m \in Doubled(x, y), x # y,
                      ~Barred(x), ~Barred(y), ~(InHand /\ x \in Locked)
               PROVE  Here(x, m)'
    BY <1>1, <1>2, <1>3, <1>5 DEF Doubles
  <2>1. Here(x, m) /\ x # job.from
    BY <1>1, <1>6, Rooms DEF Back, Doubles
  <2> QED
    BY <1>1, <1>4, <2>1 DEF Here
<1>9. OldRoom'
  <2>1. 0 \in Listed => 0 \in Listed' \/ Log(0) = {}
    BY <1>1 DEF Back, Handed, Log
  <2> QED
    BY <1>1, <1>3, <1>4, <1>5, <2>1 DEF Back, OldRoom
<1>10. Booting'
  <2>1. phase = "boot" => job.to \in live
    BY <1>1, <1>2 DEF Inv, Kinds, JobType
  <2> QED
    BY <1>1, <2>1 DEF Back, Booting
<1>11. Unread'
  BY <1>1, <1>3 DEF Back, Unread
<1>12. Claims'
  BY <1>1, <1>2 DEF Back, Claims
<1>13. Handed'
  BY <1>1, <1>2, <1>3, <1>4 DEF Back, Handed
<1> QED
  BY <1>7, <1>8, <1>9, <1>10, <1>11, <1>12, <1>13 DEF Back

LEMMA CardBack == ASSUME Inv, Back, Card PROVE Back'
<1> DEFINE at == "card"
<1>1. /\ At(at) /\ Listed \subseteq Listed' /\ Listed' \subseteq Listed \cup {job.to}
      /\ \A r \in Room : claim'[r] = claim[r] \/ claim'[r] = 0
      /\ UNCHANGED <<log, ruined, view, told>> /\ at # "record"
  BY DEF Card, Listed, Inv, Types
<1> HIDE DEF at
<1>2. at \in {"card", "list", "record"}
  BY DEF at
<1> QED
  BY <1>1, <1>2, FileBack

LEMMA ListBack == ASSUME Inv, Back, List PROVE Back'
<1> DEFINE at == "list"
<1>1. /\ At(at) /\ Listed \subseteq Listed' /\ Listed' \subseteq Listed \cup {job.to}
      /\ \A r \in Room : claim'[r] = claim[r] \/ claim'[r] = 0
      /\ UNCHANGED <<log, ruined, view, told>> /\ at # "record"
  BY DEF List, Listed
<1> HIDE DEF at
<1>2. at \in {"card", "list", "record"}
  BY DEF at
<1> QED
  BY <1>1, <1>2, FileBack

LEMMA EraseCardBack == ASSUME Inv, Back, EraseCard PROVE Back'
<1> DEFINE at == "record"
<1>1. /\ At(at) /\ Listed \ {job.from} \subseteq Listed'
      /\ Listed' \subseteq Listed \cup {job.to} /\ at = "record"
      /\ \A r \in Room : claim'[r] = claim[r] \/ claim'[r] = 0
      /\ UNCHANGED <<log, ruined, view, told>>
  BY DEF EraseCard, Listed, Inv, Types
<1>2. claim'[job.from] = 0
  BY Jobs DEF EraseCard, At, Inv, Types
<1> HIDE DEF at
<1>3. at \in {"card", "list", "record"}
  BY DEF at
<1> QED
  BY <1>1, <1>2, <1>3, FileBack

LEMMA CopyBack == ASSUME Inv, Back, Copy PROVE Back'
<1>1. /\ At("copy") /\ job.from \notin ruined /\ job.to \notin ruined
      /\ log' = [log EXCEPT ![job.to] = Log(job.from)]
      /\ UNCHANGED <<cards, index, claim, ruined, view, told>>
  BY DEF Copy
<1>2. /\ ~Free /\ job \in JobType /\ job.at = "copy"
      /\ Locked = {job.from, job.to} /\ ~Free' /\ job'.at = "card"
      /\ job'.of = job.of /\ job'.from = job.from /\ job'.to = job.to
      /\ Locked' = Locked /\ Moves' = Moves
      /\ UNCHANGED <<phase, live, left>>
  BY <1>1, Advance DEF Stage, After
<1>3. /\ job.of \in {"move", "accept"} /\ job.from # job.to /\ Moves /\ InHand'
      /\ job.from \in Room /\ job.to \in Master
      /\ job.from = 0 => job.to = 1 /\ phase = "boot"
      /\ phase = "boot" => job.from = 0
  BY <1>2, Rooms DEF Inv, Kinds, Copying, JobType, Moves, InHand
<1>4. /\ log'[job.to] = Log(job.from) /\ Log(job.to)' = Log(job.from)
      /\ \A r \in Room \ {job.to} : /\ log'[r] = log[r] /\ Log(r)' = Log(r)
                                   /\ Read(r)' = Read(r) /\ Has(r)' = Has(r)
                                   /\ Content(r)' = Content(r)
  <2>1. \A r \in Room \ {job.to} : log'[r] = log[r]
    BY <1>1, <1>3 DEF Inv, Types
  <2>2. log'[job.to] = Log(job.from) /\ Log(job.from) # None
    BY <1>1, <1>3, Sets, Rooms DEF Inv, Types
  <2>3. Log(job.to)' = Log(job.from)
    BY <1>2, <2>2 DEF Log
  <2> QED
    BY <1>1, <2>1, <2>2, <2>3 DEF Log, Read, Has, Content
<1>5. \A r \in Room : r = job.to => Content(r)' \subseteq Log(job.from) \cup Content(r)
  <2>1. \A r \in Room : r = job.to => Log(r)' = Log(job.from)
    BY <1>4, Sets, <1>3 DEF Log, Inv
  <2>2. \A r \in Room : Read(r)' \in {Read(r), Log(r)'}
    BY <1>1 DEF Read
  <2> QED
    BY <2>1, <2>2 DEF Content
<1>6. /\ Known' = Known /\ Listed' = Listed
      /\ \A r \in Room : Barred(r)' = Barred(r) /\ ~Leaving(r)
      /\ ~Barred(job.from) /\ ~Barred(job.to)
  BY <1>1, <1>2 DEF Known, Listed, Barred, Leaving
<1>7. view[job.from] = None => Log(job.from) \subseteq left
  BY <1>1, <1>2, <1>3 DEF Back, Handed
<1>8. Knows'
  <2>1. Log(job.from) \subseteq Known /\ Content(job.to) \subseteq Known
    BY <1>3, <1>6, Contents, Rooms DEF Inv, Back, Knows
  <2> QED
    BY <1>4, <1>5, <1>6, <2>1, Rooms DEF Back, Knows
\* What the old room has in common with a third one.
<1>9. \A y \in Master \ Locked : \A m \in Content(job.from) \cap Content(y) :
          m \in left \/ Barred(y)
          \/ (job.from # 0 /\ Here(job.from, m) /\ Here(y, m))
  <2> SUFFICES ASSUME NEW y \in Master \ Locked,
                      NEW m \in (Content(job.from) \cap Content(y)) \ left, ~Barred(y)
               PROVE  job.from # 0 /\ Here(job.from, m) /\ Here(y, m)
    OBVIOUS
  <2>1. job.from # 0
    BY <1>2, <1>3 DEF Back, OldRoom, Doubled
  <2>2. job.from \in Master /\ y # job.from /\ ~InHand
    BY <1>2, <1>3, <2>1 DEF Room, InHand
  <2>3. m \in Doubled(job.from, y) /\ m \in Doubled(y, job.from)
    BY DEF Doubled
  <2> QED
    BY <1>6, <2>1, <2>2, <2>3 DEF Back, Doubles
<1>10. Doubles'
  <2> SUFFICES ASSUME NEW x \in Master, NEW y \in Master, NEW m \in Doubled(x, y)', x # y,
                      x \notin Locked, ~Barred(x), ~Barred(y)
               PROVE  Here(x, m)'
    BY <1>2, <1>3, <1>6, Rooms DEF Doubles
  <2>1. m \in Content(x) /\ Content(x)' = Content(x) /\ m \notin left
    BY <1>2, <1>4, Rooms DEF Doubled
  <2>2. m \in Content(y) \/ (y = job.to /\ m \in Log(job.from))
    BY <1>4, <1>5, Rooms DEF Doubled
  <2>3. CASE m \in Content(y)
    <3>1. m \in Doubled(x, y) /\ ~InHand
      BY <1>2, <1>3, <2>1, <2>3 DEF Doubled, InHand
    <3>2. Here(x, m)
      BY <3>1 DEF Back, Doubles
    <3> QED
      BY <1>1, <1>2, <1>4, <1>6, <3>2, Rooms DEF Here
  <2>4. CASE m \in Log(job.from)
    <3>1. Here(x, m)
      BY <1>2, <1>3, <1>9, <2>1, <2>4, Contents DEF Inv
    <3> QED
      BY <1>1, <1>2, <1>4, <1>6, <3>1, Rooms DEF Here
  <2> QED
    BY <2>2, <2>3, <2>4
<1>11. OldRoom'
  <2>1. Content(0)' = Content(0) /\ Log(0)' = Log(0)
    BY <1>3, <1>4, Rooms
  <2>2. \A y \in Master \ {1} : Doubled(0, y)' = {}
    <3>1. CASE phase = "boot"
      BY <1>2, <1>3, <1>4, <2>1, <3>1, Rooms DEF Back, OldRoom, Doubled
    <3>2. CASE phase = "up"
      BY <1>2, <2>1, <3>2 DEF Back, OldRoom, Doubled
    <3> QED
      BY <1>2, <3>1, <3>2 DEF Inv, Phases, Types
  <2> QED
    BY <1>2, <1>6, <2>1, <2>2 DEF Back, OldRoom
<1>12. Booting' /\ Unread' /\ Claims'
  BY <1>1, <1>2, <1>4, <1>6 DEF Back, Booting, Unread, Claims, Inv, Types
<1>13. Handed'
  <2>1. \A y \in Master \ Locked :
            ((Log(job.from) \cup Read(job.from)) \cap Content(y)) \ left
                \subseteq Log(job.from) \cap Read(job.from)
    <3> SUFFICES ASSUME NEW y \in Master \ Locked,
                        NEW m \in (Content(job.from) \cap Content(y)) \ left
                 PROVE  m \in Has(job.from)
      BY DEF Content, Has
    <3>1. CASE Barred(y)
      <4>1. phase = "boot" /\ job.from = 0 /\ y # 1
        BY <1>2, <1>3, <3>1 DEF Barred, Inv, Phases, Types
      <4> QED
        BY <4>1 DEF Back, OldRoom, Doubled
    <3>2. CASE ~Barred(y)
      BY <1>9, <3>2 DEF Here
    <3> QED
      BY <3>1, <3>2
  <2>2. /\ \A y \in Master \ Locked : Content(y)' = Content(y)
        /\ Log(job.from)' = Log(job.from) /\ Read(job.from)' = Read(job.from)
    BY <1>2, <1>3, <1>4, Rooms
  <2> QED
    BY <1>1, <1>2, <1>3, <1>4, <1>6, <1>7, <2>1, <2>2 DEF Back, Handed
<1> QED
  BY <1>8, <1>10, <1>11, <1>12, <1>13 DEF Back

\* What the user takes away is left in no other room.
LEMMA GoneForGood ==
    ASSUME Inv, Back, job.of = "delete", job.at = "key"
    PROVE  \A r \in Room \ {job.from} : Content(r) \subseteq (Known \ Gone) \cup left
<1>1. /\ ~Free /\ phase = "up" /\ job.from \in Master /\ job.to = job.from
      /\ Locked = {job.from} /\ ~InHand
  BY Jobs DEF Inv, Kinds, Moves, InHand
<1> SUFFICES ASSUME NEW r \in Room \ {job.from}, NEW m \in Content(r), m \notin left
             PROVE  m \in Known \ Gone
  OBVIOUS
<1>2. m \in Known /\ r \in Master
  BY <1>1 DEF Back, Knows, Barred, Leaving, OldRoom, Room
<1>3. CASE m \in Log(job.from)
  <2>1. m \in Doubled(r, job.from)
    BY <1>3 DEF Doubled, Content
  <2>2. Here(r, m)
    BY <1>1, <1>2, <2>1 DEF Back, Doubles, Barred
  <2>3. r \in (live \cap Listed) \ ruined /\ m \in Has(r)
    BY <1>1, <2>2 DEF Here
  <2> QED
    BY <1>2, <2>3 DEF Gone
<1> QED
  BY <1>2, <1>3 DEF Gone

LEMMA EraseKeyBack == ASSUME Inv, Back, EraseKey PROVE Back'
<1>1. /\ At("key") /\ ruined \subseteq ruined' /\ ruined' \subseteq ruined \cup {job.from}
      /\ told' = (IF job.of = "delete" THEN told \ Gone ELSE told)
      /\ UNCHANGED <<cards, index, claim, log, view>>
  BY DEF EraseKey
<1>2. /\ ~Free /\ job \in JobType /\ job.at = "key"
      /\ Locked = {job.from, job.to} /\ ~Free' /\ job'.at = "log"
      /\ job'.of = job.of /\ job'.from = job.from /\ job'.to = job.to
      /\ Locked' = Locked /\ Moves' = Moves
      /\ UNCHANGED <<phase, live, left>>
  BY <1>1, Advance DEF Stage, After
<1>3. /\ \A r : Log(r)' = Log(r) /\ Read(r)' = Read(r)
      /\ Listed' = Listed
      /\ \A r : Barred(r) => Barred(r)'
  BY <1>1, <1>2 DEF Log, Read, Listed, Barred
<1>4. \A r : Has(r)' = Has(r) /\ Content(r)' = Content(r)
  BY <1>3 DEF Has, Content
<1>5. \A x, y : Doubled(x, y)' = Doubled(x, y)
  BY <1>2, <1>4 DEF Doubled
<1>6. (job.from = 0 \/ InHand') /\ (InHand => InHand')
  BY <1>2 DEF JobType, Moves, InHand, Inv, Kinds
<1>7. Knows'
  <2>1. CASE job.of = "delete"
    <3>1. \A r \in Room \ {job.from} : Content(r) \subseteq Known'
      BY <1>1, <1>2, <2>1, GoneForGood DEF Known
    <3>2. \A r \in Room : r = job.from => Leaving(r)'
      BY <1>2, <2>1 DEF Leaving
    <3> QED
      BY <1>4, <3>1, <3>2 DEF Knows
  <2>2. CASE job.of # "delete"
    BY <1>1, <1>2, <1>3, <1>4, <2>2 DEF Back, Knows, Known, Leaving
  <2> QED
    BY <2>1, <2>2
<1>8. Doubles'
  <2> SUFFICES ASSUME NEW x \in Master, NEW y \in Master, NEW m \in Doubled(x, y), x # y,
                      ~Barred(x), ~Barred(y), ~(InHand' /\ x \in Locked)
               PROVE  Here(x, m)'
    BY <1>2, <1>3, <1>5 DEF Doubles
  <2>1. Here(x, m) /\ x # job.from
    BY <1>2, <1>6, Rooms DEF Back, Doubles
  <2> QED
    BY <1>1, <1>2, <1>3, <1>4, <2>1 DEF Here
<1>9. OldRoom'
  BY <1>2, <1>3, <1>4, <1>5 DEF Back, OldRoom
<1>10. Booting'
  <2>1. phase = "boot" => job.from = 0 /\ 0 \notin live
    BY <1>2 DEF Inv, Kinds, JobType
  <2> QED
    BY <1>1, <1>2, <1>3, <2>1 DEF Back, Booting
<1>11. Unread' /\ Claims'
  BY <1>1, <1>2, <1>3 DEF Back, Unread, Claims
<1>12. Handed'
  <2>1. job.from \in ruined' \/ log[job.from] = None
    BY DEF EraseKey
  <2> QED
    BY <1>1, <1>2, <1>3, <1>4, <2>1 DEF Back, Handed
<1> QED
  BY <1>7, <1>8, <1>9, <1>10, <1>11, <1>12 DEF Back

LEMMA EraseLogBack == ASSUME Inv, Back, EraseLog PROVE Back'
<1>1. /\ At("log") /\ log' = [log EXCEPT ![job.from] = None]
      /\ ruined' = ruined \ {job.from}
      /\ UNCHANGED <<cards, index, claim, view, told>>
  BY DEF EraseLog
<1>2. /\ ~Free /\ job \in JobType /\ job.at = "log"
      /\ Locked = {job.from, job.to} /\ ~Free' /\ job'.at = "record"
      /\ job'.of = job.of /\ job'.from = job.from /\ job'.to = job.to
      /\ Locked' = Locked /\ Moves' = Moves /\ job.from \in Room
      /\ UNCHANGED <<phase, live, left>>
  BY <1>1, Advance DEF Stage, After, JobType
<1>3. /\ \A r \in Room \ {job.from} : /\ log'[r] = log[r] /\ Log(r)' = Log(r)
                                     /\ Read(r)' = Read(r) /\ Has(r)' = Has(r)
                                     /\ Content(r)' = Content(r)
                                     /\ Barred(r)' = Barred(r)
      /\ log'[job.from] = None /\ Log(job.from)' = {}
      /\ Read(job.from)' = (IF view[job.from] = None THEN {} ELSE Read(job.from))
  <2>1. log'[job.from] = None /\ \A r \in Room \ {job.from} : log'[r] = log[r]
    BY <1>1, <1>2 DEF Inv, Types
  <2> QED
    BY <1>1, <1>2, <2>1 DEF Log, Read, Has, Content, Barred
<1>4. /\ Content(job.from)' = (IF view[job.from] = None THEN {} ELSE Read(job.from))
      /\ \A r \in Room : Content(r)' \subseteq Content(r)
  <2>1. Content(job.from)' = (IF view[job.from] = None THEN {} ELSE Read(job.from))
    BY <1>3 DEF Content
  <2> QED
    BY <1>2, <1>3, <2>1, Contents DEF Inv
<1>5. InHand' = InHand /\ (job.from = 0 \/ InHand) /\ Listed' = Listed /\ Known' = Known
  BY <1>1, <1>2 DEF JobType, Moves, InHand, Inv, Kinds, Listed, Known
<1>6. \A r \in Room : Barred(r) \/ Leaving(r) => Barred(r)' \/ Content(r)' = {}
  BY <1>2, <1>3, <1>4 DEF Back, Handed, Barred, Leaving
<1>7. Knows'
  BY <1>4, <1>5, <1>6 DEF Back, Knows
<1>8. Doubles'
  <2> SUFFICES ASSUME NEW x \in Master, NEW y \in Master, NEW m \in Doubled(x, y)', x # y,
                      ~Barred(x)', ~Barred(y)', ~(InHand /\ x \in Locked)
               PROVE  Here(x, m)'
    BY <1>2, <1>5 DEF Doubles
  <2>1. m \in Doubled(x, y) /\ ~Barred(x) /\ ~Barred(y)
    BY <1>2, <1>4, <1>6, Rooms DEF Doubled
  <2>2. Here(x, m) /\ x # job.from
    BY <1>2, <1>5, <2>1, Rooms DEF Back, Doubles
  <2> QED
    BY <1>1, <1>2, <1>3, <1>5, <2>2, Rooms DEF Here
<1>9. OldRoom'
  <2>1. Log(0)' = {} \/ Log(0)' = Log(0)
    BY <1>3, Rooms DEF Log
  <2> QED
    BY <1>2, <1>4, <1>5, <2>1, Rooms DEF Back, OldRoom, Doubled
<1>10. Booting'
  <2>1. phase = "boot" => 0 \notin live
    BY <1>2 DEF Inv, Kinds, JobType
  <2> QED
    BY <1>1, <1>2, <1>5, <2>1 DEF Back, Booting
<1>11. Unread' /\ Claims'
  BY <1>1, <1>2, <1>3, <1>5 DEF Back, Unread, Claims, Inv, Types
<1>12. Handed'
  <2>1. Moves => job.to \in Room \ {job.from} /\ Log(job.to)' = Log(job.to)
    BY <1>2, <1>3 DEF Moves, JobType, Inv, Kinds
  <2>2. \A y \in Master \ Locked : Content(y)' = Content(y)
    BY <1>2, <1>3, Rooms
  <2>3. Moves /\ view[job.from] = None => Log(job.to) \subseteq left
    BY <1>2 DEF Back, Handed
  <2>4. Moves => \A y \in Master \ Locked :
                    ((Log(job.to) \cup Read(job.from)') \cap Content(y)) \ left
                        \subseteq Log(job.to) \cap Read(job.from)'
    <3>1. CASE view[job.from] = None
      BY <1>3, <2>3, <3>1
    <3>2. CASE view[job.from] # None
      BY <1>2, <1>3, <3>2 DEF Back, Handed
    <3> QED
      BY <3>1, <3>2
  <2> QED
    BY <1>1, <1>2, <1>3, <2>1, <2>2, <2>3, <2>4 DEF Back, Handed
<1> QED
  BY <1>7, <1>8, <1>9, <1>10, <1>11, <1>12 DEF Back

\* Memory follows: what the two rooms had is where both had it.
LEMMA UnlistBack == ASSUME Inv, Back, Unlist PROVE Back'
<1>1. /\ ~Free /\ job.at = "unlist" /\ job \in JobType /\ index' = index \ {job.from}
      /\ view' = [view EXCEPT ![job.from] = None,
                              ![job.to] = IF Moves THEN view[job.from] ELSE @]
      /\ UNCHANGED <<cards, claim, log, ruined, told, phase, live, left>>
      /\ job' = IF job.of # "accept" THEN NoJob ELSE [job EXCEPT !.at = After(job.at)]
  BY DEF Unlist, At, Inv, Types, Free
<1>2. /\ job.of \in {"move", "merge", "accept", "delete"}
      /\ job.from \in Room /\ job.to \in Room /\ job.from \notin live
      /\ (job.of = "delete" <=> job.from = job.to)
      /\ job.of # "delete" => job.to \in live
      /\ phase = "boot" => job.from = 0 /\ job.of \in {"move", "merge"}
      /\ phase = "up" => job.from # 0 /\ job.to # 0 /\ job.of \in {"accept", "delete"}
      /\ phase = "boot" \/ phase = "up"
      /\ Locked = {job.from, job.to} /\ (Moves <=> job.of \in {"move", "accept"})
  BY <1>1, Jobs, Rooms DEF Inv, Kinds, JobType, Moves, Types
<1>3. /\ job.of # "accept" => Free' /\ Locked' = {} /\ job'.of = "none" /\ job'.at = "copy"
      /\ job.of = "accept" => /\ ~Free' /\ Locked' = Locked
                              /\ job'.of = "accept" /\ job'.at = "retire"
                              /\ job'.from = job.from /\ job'.to = job.to
  BY <1>1 DEF Free, NoJob, Locked, JobType, After, Stage
<1>4. /\ Listed' = Listed \ {job.from} /\ Known' = Known /\ ~InHand'
      /\ \A r \in Room : Log(r)' = Log(r) /\ ~Leaving(r) /\ ~Leaving(r)'
  BY <1>1, <1>2, <1>3 DEF Listed, Known, InHand, Moves, Log, Leaving
<1>5. /\ view'[job.from] = None \/ Moves
      /\ Moves => view'[job.to] = view[job.from] /\ view'[job.from] = None
      /\ \A r \in Room \ Locked : view'[r] = view[r]
      /\ job.of = "merge" => view'[job.to] = view[job.to]
      /\ view'[job.from] = None
  BY <1>1, <1>2 DEF Inv, Types
<1>6. \A r \in Room : (r \notin Locked \/ (job.of = "merge" /\ r = job.to)) =>
          /\ view'[r] = view[r] /\ Read(r)' = Read(r) /\ Has(r)' = Has(r)
          /\ Content(r)' = Content(r) /\ Barred(r)' = Barred(r)
  <2>1. \A r \in Room : (r \notin Locked \/ (job.of = "merge" /\ r = job.to)) =>
            view'[r] = view[r]
    BY <1>5
  <2> QED
    BY <1>1, <1>4, <2>1 DEF Read, Has, Content, Barred
<1>7. \A r \in Room : r = job.from => Content(r)' = {}
  <2>1. log[job.from] = None
    BY <1>1 DEF Back, Handed
  <2> QED
    BY <1>1, <1>5, <2>1 DEF Content, Read, Log
<1>8. Moves /\ view[job.from] # None =>
          \A r \in Room : r = job.to => /\ Content(r)' = Log(r) \cup Read(job.from)
                                       /\ Has(r)' = Log(r) \cap Read(job.from)
  BY <1>4, <1>5 DEF Content, Has, Read
<1>9. Moves /\ view[job.from] = None =>
          \A r \in Room : r = job.to => /\ Content(r)' = Log(r)
                                       /\ Log(r) \subseteq left
  <2>1. Moves /\ view[job.from] = None => Log(job.to) \subseteq left
    BY <1>1 DEF Back, Handed
  <2> QED
    BY <1>4, <1>5, <2>1 DEF Content, Read
<1>10. job.of # "delete" => job.to \notin ruined /\ job.to \in Listed /\ job.from # job.to
  BY <1>1, <1>2 DEF Inv, Stages, Copying, Listed
<1>11. Knows'
  <2> SUFFICES ASSUME NEW r \in Room
               PROVE  Content(r)' \subseteq Known' \/ Barred(r)' \/ Leaving(r)'
    BY DEF Knows
  <2>1. CASE r \notin Locked \/ (job.of = "merge" /\ r = job.to)
    BY <1>4, <1>6, <2>1 DEF Back, Knows
  <2>2. CASE Moves /\ r = job.to
    <3>1. Log(r) \subseteq Known
      <4>1. ~Barred(r)
        BY <1>2, <1>10, <2>2 DEF Barred
      <4> QED
        BY <1>4, <4>1 DEF Back, Knows, Content
    <3>2. view[job.from] # None => Read(job.from) \subseteq Known
      BY <1>2, <1>4 DEF Back, Knows, Content, Barred
    <3> QED
      BY <1>4, <1>8, <1>9, <2>2, <3>1, <3>2
  <2> QED
    BY <1>2, <1>7, <2>1, <2>2
<1>12. Doubles'
  <2> SUFFICES ASSUME NEW x \in Master, NEW y \in Master, NEW m \in Doubled(x, y)', x # y,
                      ~Barred(x)', ~Barred(y)'
               PROVE  Here(x, m)'
    BY DEF Doubles
  <2>1. x \in Room /\ y \in Room /\ m \in Content(x)' /\ m \in Content(y)' /\ m \notin left
    BY <1>1, Rooms DEF Doubled
  <2>2. x # job.from /\ y # job.from
    BY <1>7, <2>1
  <2>3. ASSUME Here(x, m), x \notin Locked \/ job.of = "merge"
        PROVE  Here(x, m)'
    <3>1. m \in Has(x)' /\ x \in Listed'
      BY <1>2, <1>4, <1>6, <2>1, <2>2, <2>3 DEF Here
    <3> QED
      BY <1>1, <1>2, <2>3, <3>1 DEF Here
  <2>4. CASE ~Moves \/ (x # job.to /\ y # job.to)
    <3>1. /\ x \notin Locked \/ (job.of = "merge" /\ x = job.to)
          /\ y \notin Locked \/ (job.of = "merge" /\ y = job.to)
      BY <1>2, <2>2, <2>4
    <3>2. m \in Doubled(x, y) /\ ~Barred(x) /\ ~Barred(y)
      BY <1>6, <2>1, <3>1 DEF Doubled
    <3>3. ~(InHand /\ x \in Locked)
      BY <1>2, <3>1 DEF InHand
    <3> QED
      BY <2>3, <3>1, <3>2, <3>3 DEF Back, Doubles
  <2>5. CASE Moves /\ x = job.to
    <3>1. y \in Master \ Locked /\ m \in Content(y)
      BY <1>2, <1>6, <2>1, <2>2, <2>5
    <3>2. view[job.from] # None
      BY <1>9, <2>1, <2>5
    <3>3. m \in Log(x) \cap Read(job.from)
      BY <1>1, <1>8, <2>1, <2>5, <3>1, <3>2 DEF Back, Handed
    <3>4. m \in Has(x)' /\ x \in Listed'
      BY <1>2, <1>4, <1>8, <1>10, <2>1, <2>2, <2>5, <3>2, <3>3
    <3> QED
      BY <1>1, <1>2, <1>10, <2>5, <3>4 DEF Here
  <2>6. CASE Moves /\ y = job.to
    <3>1. x \in Master \ Locked /\ m \in Content(x) /\ ~Barred(x)
      BY <1>2, <1>6, <2>1, <2>2, <2>6
    <3>2. view[job.from] # None
      BY <1>9, <2>1, <2>6
    <3>3. m \in Log(y)
      BY <1>1, <1>8, <2>1, <2>6, <3>1, <3>2 DEF Back, Handed
    <3>4. m \in Doubled(x, y) /\ ~Barred(y)
      BY <1>2, <1>10, <2>1, <2>6, <3>1, <3>3 DEF Doubled, Content, Barred
    <3> QED
      BY <2>3, <3>1, <3>4 DEF Back, Doubles
  <2> QED
    BY <2>4, <2>5, <2>6
<1>13. OldRoom'
  <2>1. Content(0)' \subseteq left
    BY <1>2, <1>6, <1>7, Rooms DEF Back, OldRoom
  <2> QED
    BY <1>1, <1>2, <2>1 DEF OldRoom, Doubled
<1>14. Booting'
  BY <1>1, <1>2, <1>4, <1>5, <1>10 DEF Back, Booting, Inv, Types
<1>15. Unread'
  <2> SUFFICES ASSUME phase = "up", NEW r \in live \ Locked', view'[r] = None
               PROVE  r \in ruined \/ Log(r)' \subseteq left
    BY <1>1 DEF Unread
  <2>1. r \in Room \ Locked
    BY <1>2, <1>3 DEF Inv, Types
  <2> QED
    BY <1>4, <1>6, <2>1 DEF Back, Unread
<1>16. Claims'
  BY <1>1, <1>3, <1>4 DEF Back, Claims
<1>17. Handed'
  <2>1. CASE job.of # "accept"
    BY <1>3, <2>1 DEF Handed
  <2>2. CASE job.of = "accept"
    <3>1. view'[job.to] = None => Log(job.to)' \subseteq left'
      BY <1>1, <1>2, <1>3, <1>4, <1>5, <1>9, <2>2
    <3>2. log'[job.from] = None /\ view'[job.from] = None
      BY <1>1, <1>5 DEF Back, Handed
    <3> QED
      BY <1>3, <2>2, <3>1, <3>2 DEF Handed, Log
  <2> QED
    BY <2>1, <2>2
<1> QED
  BY <1>11, <1>12, <1>13, <1>14, <1>15, <1>16, <1>17 DEF Back

LEMMA RetireBack == ASSUME Inv, Back, Retire PROVE Back'
<1>1. /\ ~Free /\ job.at = "retire" /\ job \in JobType /\ job' = NoJob
      /\ UNCHANGED <<cards, index, claim, log, ruined, view, told, phase, live, left>>
  BY DEF Retire, At, Inv, Types, Free
<1>2. /\ job.of = "accept" /\ phase = "up" /\ job.from \in Master /\ job.from \notin live
      /\ job.to \in live /\ Locked = {job.from, job.to}
  BY <1>1, Jobs DEF Inv, Kinds, JobType
<1>3. Free' /\ Locked' = {} /\ Listed' = Listed /\ Known' = Known
  BY <1>1 DEF Free, Locked, Listed, Known
<1>4. \A r : Log(r)' = Log(r) /\ Read(r)' = Read(r)
  BY <1>1 DEF Log, Read
<1>5. \A r : Has(r)' = Has(r) /\ Content(r)' = Content(r)
  BY <1>4 DEF Has, Content
<1>6. \A x, y : Doubled(x, y)' = Doubled(x, y)
  BY <1>1, <1>5 DEF Doubled
<1>7. /\ ~InHand /\ \A r : ~Barred(r) /\ ~Leaving(r)
      /\ Content(job.from) = {}
  <2>1. log[job.from] = None /\ view[job.from] = None
    BY <1>1 DEF Back, Handed
  <2> QED
    BY <1>1, <1>2, <2>1 DEF InHand, Barred, Leaving, Content, Read, Log
<1>8. Knows'
  BY <1>3, <1>5, <1>7 DEF Back, Knows
<1>9. Doubles'
  <2> SUFFICES ASSUME NEW x \in Master, NEW y \in Master, NEW m \in Doubled(x, y), x # y
               PROVE  Here(x, m)'
    BY <1>6 DEF Doubles
  <2>1. Here(x, m) /\ x # job.from
    BY <1>7 DEF Back, Doubles, Doubled
  <2> QED
    BY <1>1, <1>2, <1>3, <1>5, <2>1 DEF Here
<1>10. OldRoom' /\ Booting'
  BY <1>1, <1>2, <1>3, <1>5, <1>6 DEF Back, OldRoom, Booting
<1>11. Unread'
  BY <1>1, <1>2, <1>3, <1>4 DEF Back, Unread, Handed
<1>12. Claims' /\ Handed'
  BY <1>1, <1>3 DEF Back, Claims, Handed
<1> QED
  BY <1>8, <1>9, <1>10, <1>11, <1>12 DEF Back

\* A write fails: what the job had in hand is left.
LEMMA FailBack == ASSUME Inv, Back, Fail PROVE Back'
<1>1. /\ ~Free /\ job' = NoJob /\ job.of \in {"move", "accept", "delete"}
      /\ told' = (IF job.of = "delete" /\ job.at = "key" THEN told \ Gone ELSE told)
      /\ left' = left \cup Log(job.from) \cup Read(job.from) \cup Read(job.to)
      /\ UNCHANGED <<cards, index, claim, log, ruined, phase, live, view>>
  BY Jobs DEF Fail, Inv, Moves, disk, ram
<1>2. /\ job.from \in Room /\ job.to \in Room /\ job.from \notin live
      /\ (job.of = "delete" <=> job.from = job.to)
      /\ job.of # "delete" => job.to \in live
      /\ phase \in {"boot", "up"} /\ (phase = "boot" => job.from = 0)
      /\ Locked = {job.from, job.to} /\ (Moves <=> job.of \in {"move", "accept"})
  BY <1>1, Jobs DEF Inv, Kinds, Moves, Types, Phases
<1>3. Free' /\ Locked' = {} /\ Listed' = Listed /\ left \subseteq left'
      /\ \A r : ~Leaving(r)' /\ Barred(r)' = Barred(r)
  BY <1>1 DEF Free, Locked, Listed, Leaving, NoJob, Barred
<1>4. \A r : Log(r)' = Log(r) /\ Read(r)' = Read(r)
  BY <1>1 DEF Log, Read
<1>5. \A r : Has(r)' = Has(r) /\ Content(r)' = Content(r)
  BY <1>4 DEF Has, Content
<1>6. Content(job.from) \subseteq left' /\ Read(job.to) \subseteq left'
  BY <1>1 DEF Content
<1>7. \A x, y : Doubled(x, y)' \subseteq Doubled(x, y)
  BY <1>3, <1>5 DEF Doubled
<1>8. Knows'
  <2>1. CASE job.of = "delete" /\ job.at = "key"
    <3>1. Known \ Gone \subseteq Known'
      BY <1>1, <1>3, <2>1 DEF Known
    <3>2. \A r \in Room \ {job.from} : Content(r) \subseteq Known'
      BY <1>3, <2>1, <3>1, GoneForGood DEF Known
    <3> QED
      BY <1>5, <1>6, <3>2 DEF Knows, Known
  <2>2. CASE ~(job.of = "delete" /\ job.at = "key")
    <3>1. Known \subseteq Known' /\ left' \subseteq Known'
      BY <1>1, <1>3, <2>2 DEF Known
    <3> QED
      BY <1>3, <1>5, <1>6, <3>1 DEF Back, Knows, Leaving
  <2> QED
    BY <2>1, <2>2
<1>9. Doubles'
  <2> SUFFICES ASSUME NEW x \in Master, NEW y \in Master, NEW m \in Doubled(x, y)', x # y,
                      ~Barred(x), ~Barred(y)
               PROVE  Here(x, m)'
    BY <1>3 DEF Doubles
  <2>1. m \in Doubled(x, y) /\ m \notin left' /\ m \in Content(x) /\ m \in Content(y)
    BY <1>5, <1>7 DEF Doubled
  <2>2. x # job.from /\ y # job.from
    BY <1>6, <2>1
  <2>3. ~(InHand /\ x \in Locked)
    <3> SUFFICES ASSUME InHand, x = job.to PROVE FALSE
      BY <1>2, <2>2
    <3>1. Moves /\ job.at \notin {"copy", "retire"} /\ y \in Master \ Locked
      BY <1>2, <2>2 DEF InHand
    <3>2. m \in Log(job.to)
      BY <1>6, <2>1 DEF Content
    <3>3. m \in Read(job.from)
      BY <1>1, <1>3, <2>1, <3>1, <3>2 DEF Back, Handed
    <3> QED
      BY <1>6, <2>1, <3>3 DEF Content
  <2>4. Here(x, m)
    BY <2>1, <2>3 DEF Back, Doubles
  <2> QED
    BY <1>1, <1>2, <1>3, <1>5, <2>2, <2>4 DEF Here
<1>10. OldRoom'
  <2>1. Content(0) \subseteq left'
    BY <1>2, <1>3, <1>6, <1>1 DEF Back, OldRoom, Inv, Kinds
  <2>2. \A y \in Master \ {1} : Doubled(0, y)' = {}
    BY <1>7 DEF Back, OldRoom
  <2> QED
    BY <1>1, <1>2, <1>3, <1>5, <2>1, <2>2 DEF OldRoom
<1>11. Booting'
  BY <1>1, <1>3 DEF Back, Booting
<1>12. Unread'
  <2>1. view[job.to] = None => Log(job.to) \subseteq left'
    BY <1>6 DEF Read
  <2> QED
    BY <1>1, <1>2, <1>3, <1>4, <2>1 DEF Back, Unread
<1>13. Claims' /\ Handed'
  BY <1>1, <1>3 DEF Back, Claims, Handed
<1> QED
  BY <1>8, <1>9, <1>10, <1>11, <1>12, <1>13 DEF Back

\* A crash: what the job had in hand boot finds in a listed room, or cannot read, or
\* it is left.
LEMMA CrashBack == ASSUME Inv, Back, Crash PROVE Back'
<1>1. /\ phase # "off" /\ phase' = "off" /\ job' = NoJob
      /\ view' = [r \in Room |-> None]
      /\ left' = left \cup IF Orphaned THEN Log(job.from) ELSE {}
      /\ UNCHANGED <<cards, index, claim, log, ruined, told>>
  BY DEF Crash, Empty, disk
<1>2. /\ Free' /\ Locked' = {} /\ Listed' = Listed /\ left \subseteq left'
      /\ Known \subseteq Known' /\ ~InHand'
  BY <1>1 DEF Free, Locked, Listed, Known, InHand, Moves, NoJob
<1>3. \A r \in Room : /\ Log(r)' = Log(r) /\ Has(r)' = Log(r) /\ Content(r)' = Log(r)
                      /\ (Barred(r)' <=> r \in ruined) /\ Log(r) \subseteq Content(r)
  BY <1>1 DEF Log, Read, Has, Content, Barred
<1>4. ASSUME NEW x \in Master, NEW y \in Master, x # y, InHand, x \in Locked,
             NEW m \in (Log(x) \cap Log(y)) \ left', x \notin ruined
      PROVE  x \in Listed
  <2>1. /\ ~Free /\ Locked = {job.from, job.to} /\ x # 0
        /\ job.at \in {"card", "list", "key", "log", "record", "unlist"}
        /\ job.of = "delete" => job.at \notin {"card", "list", "key"} /\ x = job.from
    BY <1>4, Jobs, Rooms DEF InHand, Moves, Inv, Kinds, Copying, Stage
  <2>2. x = job.from => job.at \notin {"log", "record", "unlist"}
    BY <1>4, <2>1 DEF Back, Handed, Log
  <2>3. Moves
    BY <1>4, <2>1, <2>2 DEF InHand
  <2>4. CASE job.at \in {"card", "list"}
    <3>1. m \in Log(job.from)
      BY <1>4, <2>1, <2>3, <2>4 DEF Inv, Stages
    <3>2. job.of # "accept"
      BY <1>1, <1>4, <2>4, <3>1 DEF Orphaned
    <3>3. job.from = 0 /\ job.to = 1 /\ x = 1
      BY <1>4, <2>1, <2>3, <3>2 DEF Moves, Inv, Kinds
    <3>4. m \in Doubled(0, y) /\ y \in Master \ {1}
      BY <1>2, <1>3, <1>4, <3>1, <3>3, Rooms DEF Doubled
    <3> QED
      BY <3>4 DEF Back, OldRoom
  <2>5. CASE job.at \notin {"card", "list"}
    <3>1. CASE x = job.from
      BY <2>1, <2>2, <2>3, <2>5, <3>1 DEF Moves, Inv, Kinds, Back, Handed
    <3>2. CASE x = job.to
      BY <2>1, <2>3, <2>5, <3>2 DEF Moves, Inv, Stages, Copying, Listed
    <3> QED
      BY <1>4, <2>1, <3>1, <3>2
  <2> QED
    BY <2>4, <2>5
<1>5. Knows'
  <2>1. \A r \in Room : Leaving(r) => r \in ruined \/ Log(r) = {}
    BY Jobs DEF Back, Handed, Leaving, Log, Inv
  <2> QED
    BY <1>2, <1>3, <2>1 DEF Back, Knows, Barred
<1>6. Doubles'
  <2> SUFFICES ASSUME NEW x \in Master, NEW y \in Master, NEW m \in Doubled(x, y)', x # y,
                      x \notin ruined, y \notin ruined
               PROVE  Here(x, m)'
    BY <1>3, Rooms DEF Doubles
  <2>1. m \in (Log(x) \cap Log(y)) \ left' /\ m \in Doubled(x, y)
    BY <1>2, <1>3, Rooms DEF Doubled
  <2>2. x \in Listed
    BY <1>4, <2>1 DEF Back, Doubles, Barred, Here
  <2> QED
    BY <1>1, <1>2, <1>3, <2>1, <2>2, Rooms DEF Here
<1>7. OldRoom'
  <2>1. Log(0) \subseteq left \/ Log(0) = {} \/ 0 \in Listed
    BY <1>1, <1>3, Rooms DEF Back, OldRoom, Inv, Phases, Types
  <2>2. \A y \in Master \ {1} : Doubled(0, y)' \subseteq Doubled(0, y)
    BY <1>2, <1>3, Rooms DEF Doubled
  <2> QED
    BY <1>1, <1>2, <1>3, <2>1, <2>2, Rooms DEF Back, OldRoom
<1>8. Booting' /\ Unread' /\ Claims' /\ Handed'
  BY <1>1, <1>2 DEF Back, Booting, Unread, Claims, Handed
<1> QED
  BY <1>5, <1>6, <1>7, <1>8 DEF Back

LEMMA BootBack == ASSUME Inv, Back, Boot PROVE Back'
<1>1. /\ phase = "off" /\ phase' = "boot" /\ live' = Listed
      /\ UNCHANGED <<cards, index, claim, log, ruined, job, told, left>>
      /\ Listed \cap ruined # {} => view' = [r \in Room |-> None]
      /\ Listed \cap ruined = {} =>
             view' = [r \in Room |-> IF r \in Listed THEN Log(r) ELSE None]
  BY DEF Boot, Empty, disk, hist
<1>2. /\ Free /\ Free' /\ Listed' = Listed /\ Known' = Known
      /\ ~InHand /\ \A r : ~Leaving(r)
  BY <1>1, Jobs DEF Inv, Phases, Free, Listed, Known, InHand, Moves, Leaving
<1>3. \A r \in Room : Log(r)' = Log(r) /\ view'[r] \in {None, Log(r)}
  BY <1>1 DEF Log
<1>4. \A r \in Room : Has(r)' = Log(r) /\ Content(r)' = Log(r) /\ Log(r) \subseteq Content(r)
  BY <1>3 DEF Read, Has, Content
<1>5. \A r \in Room : (Barred(r) => r \in ruined) /\ (r \in ruined => Barred(r)')
  BY <1>1 DEF Barred
<1>6. Knows'
  BY <1>2, <1>4, <1>5 DEF Back, Knows
<1>7. Doubles'
  <2> SUFFICES ASSUME NEW x \in Master, NEW y \in Master, NEW m \in Doubled(x, y)', x # y,
                      x \notin ruined, y \notin ruined
               PROVE  Here(x, m)'
    BY <1>5, Rooms DEF Doubles
  <2>1. m \in Log(x) /\ m \in Doubled(x, y)
    BY <1>1, <1>4, Rooms DEF Doubled
  <2>2. x \in Listed
    BY <1>2, <2>1, Rooms DEF Back, Doubles, Barred, Here
  <2> QED
    BY <1>1, <1>2, <1>4, <2>1, <2>2, Rooms DEF Here
<1>8. OldRoom'
  <2>1. 0 \notin Listed => Log(0) \subseteq left
    BY <1>1, <1>4, Rooms DEF Back, OldRoom
  <2>2. \A y \in Master \ {1} : Doubled(0, y)' \subseteq Doubled(0, y)
    BY <1>1, <1>4, Rooms DEF Doubled
  <2> QED
    BY <1>1, <1>2, <1>4, <2>1, <2>2, Rooms DEF Back, OldRoom
<1>9. Booting'
  <2>1. Log(0) # None
    BY Sets, Rooms DEF Inv
  <2> QED
    BY <1>1, <1>2, <2>1, Rooms DEF Booting, Inv, Types
<1>10. Unread' /\ Claims' /\ Handed'
  BY <1>1, <1>2 DEF Back, Unread, Claims, Handed
<1> QED
  BY <1>6, <1>7, <1>8, <1>9, <1>10 DEF Back

LEMMA MigrateBack == ASSUME Inv, Back, Migrate PROVE Back'
<1> DEFINE of == IF OldWins THEN "move" ELSE "merge"
           at == IF OldWins THEN "copy" ELSE "key"
<1>1. /\ Free /\ phase = "boot" /\ 0 \in live /\ live \cap ruined = {}
      /\ live' = (live \ {0}) \cup {1}
      /\ job' = [of |-> of, from |-> 0, to |-> 1, at |-> at]
      /\ UNCHANGED <<cards, index, claim, log, ruined, phase, view, told, left>>
  BY DEF Migrate, disk
<1>2. /\ job'.of = of /\ job'.from = 0 /\ job'.to = 1 /\ job'.at = at
      /\ of \in {"move", "merge"} /\ at \in {"copy", "key"}
      /\ (of = "move" <=> at = "copy")
  BY <1>1
<1> HIDE DEF of, at
<1>3. /\ ~Free' /\ Listed' = Listed /\ Known' = Known /\ 0 \in Listed
      /\ ~InHand /\ ~InHand' /\ (Moves' => at = "copy")
      /\ \A r : Barred(r)' = Barred(r) /\ ~Leaving(r) /\ ~Leaving(r)'
  BY <1>1, <1>2, Jobs DEF Inv, Phases, Free, NoJob, Listed, Known, InHand, Moves, Barred,
     Leaving
<1>4. \A r : Log(r)' = Log(r) /\ Read(r)' = Read(r)
  BY <1>1 DEF Log, Read
<1>5. \A r : Has(r)' = Has(r) /\ Content(r)' = Content(r)
  BY <1>4 DEF Has, Content
<1>6. \A x, y : Doubled(x, y)' = Doubled(x, y)
  BY <1>1, <1>5 DEF Doubled
<1>7. \A x, m : Here(x, m)' = Here(x, m)
  BY <1>1, <1>3, <1>5 DEF Here
<1>8. Knows' /\ Doubles'
  BY <1>3, <1>5, <1>6, <1>7 DEF Back, Knows, Doubles
<1>9. OldRoom'
  BY <1>1, <1>3, <1>6 DEF Back, OldRoom
<1>10. Booting' /\ Unread'
  BY <1>1, <1>3, Rooms DEF Back, Booting, Unread
<1>11. Claims'
  BY <1>1, <1>2, <1>3 DEF Back, Claims
<1>12. Handed'
  <2>1. view[0] # None
    BY <1>1 DEF Back, Booting
  <2> QED
    BY <1>1, <1>2, <1>3, <2>1 DEF Handed
<1> QED
  BY <1>8, <1>9, <1>10, <1>11, <1>12 DEF Back

LEMMA UpBack == ASSUME Inv, Back, Up PROVE Back'
<1>1. /\ Free /\ phase = "boot" /\ 0 \notin live /\ \A r \in ruined : view[r] # None
      /\ phase' = "up"
      /\ UNCHANGED <<cards, index, claim, log, ruined, live, job, told, left>>
      /\ view' = [r \in Room |-> IF r \in live \/ log[r] # None THEN Read(r) ELSE None]
  BY DEF Up, disk, hist
<1>2. /\ ruined \subseteq {0} /\ Listed \ {0} \subseteq live
      /\ Free' /\ Listed' = Listed /\ Known' = Known /\ ~InHand
      /\ \A r : ~Barred(r) /\ ~Leaving(r)
  BY <1>1, Jobs DEF Inv, Back, Booting, Free, Listed, Known, InHand, Moves, Barred, Leaving
<1>3. \A r \in Room : /\ Log(r)' = Log(r) /\ Content(r)' \subseteq Content(r)
                      /\ r \in live => view'[r] # None /\ Has(r)' = Has(r)
  <2>1. \A r \in Room : Log(r)' = Log(r)
    BY <1>1 DEF Log
  <2>2. \A r \in Room : Read(r)' \in {Read(r), Log(r)}
    BY <1>1, <2>1 DEF Read
  <2>3. \A r \in Room : r \in live => view'[r] # None /\ Read(r)' = Read(r)
    BY <1>1, Sets DEF Inv, Read
  <2> QED
    BY <2>1, <2>2, <2>3 DEF Content, Has
<1>4. Knows'
  BY <1>2, <1>3 DEF Back, Knows
<1>5. Doubles'
  <2> SUFFICES ASSUME NEW x \in Master, NEW y \in Master, NEW m \in Doubled(x, y)', x # y
               PROVE  Here(x, m)'
    BY DEF Doubles
  <2>1. m \in Doubled(x, y) /\ x \in Room /\ x # 0
    BY <1>1, <1>3, Rooms DEF Doubled
  <2>2. Here(x, m)
    BY <1>2, <2>1 DEF Back, Doubles
  <2> QED
    BY <1>1, <1>2, <1>3, <2>1, <2>2 DEF Here
<1>6. OldRoom' /\ Booting'
  <2>1. Content(0)' \subseteq left
    BY <1>1, <1>3, Rooms DEF Back, OldRoom
  <2> QED
    BY <1>1, <1>2, <2>1 DEF OldRoom, Booting, Doubled
<1>7. Unread'
  BY <1>1, <1>3 DEF Unread, Inv, Types
<1>8. Claims' /\ Handed'
  BY <1>1, <1>2 DEF Back, Claims, Handed
<1> QED
  BY <1>4, <1>5, <1>6, <1>7, <1>8 DEF Back

LEMMA NextBack == ASSUME Inv, Back, [Next]_vars PROVE Back'
<1>1. CASE UNCHANGED vars
  BY <1>1, StillBack DEF vars, disk, ram, hist
<1>2. CASE Boot \/ Migrate \/ Up \/ Fail \/ Crash
  BY <1>2, BootBack, MigrateBack, UpBack, FailBack, CrashBack
<1>3. CASE Step
  BY <1>3, CopyBack, CardBack, ListBack, EraseKeyBack, EraseLogBack, EraseCardBack,
     UnlistBack, RetireBack
  DEF Step
<1>4. CASE \E r \in Room : Receive(r) \/ Send(r) \/ Sent(r) \/ Accept(r) \/ Delete(r)
  BY <1>4, ReceiveBack, SendBack, SentBack, AcceptBack, DeleteBack
<1>5. CASE \E r \in Room : SentRefused(r)
  BY <1>5, StillBack DEF SentRefused, disk, hist
<1>6. CASE \E r, j \in Master : Claim(r, j)
  BY <1>6, ClaimBack
<1>7. CASE \E j \in Master : Greet(j) \/ AddBundle(j) \/ AddUnread(j)
  BY <1>7, GreetBack, AddBundleBack, AddUnreadBack
<1> QED
  BY <1>1, <1>2, <1>3, <1>4, <1>5, <1>6, <1>7 DEF Next

\* No message is lost but those that a step has put astray, and none is back that
\* the user has deleted but those of which a step has left a copy.
THEOREM HistoryIsExact == Spec => []HistoryExact
<1>1. Init => Inv /\ Back
  BY InitInv, InitBack
<1>2. Inv /\ Back /\ [Next]_vars => (Inv /\ Back)'
  BY NextInv, NextBack
<1>3. Spec => [](Inv /\ Back)
  BY <1>1, <1>2, PTL DEF Spec
<1>4. Inv /\ Back => NothingBack
  <2> SUFFICES ASSUME Inv, Back, Ready, NEW r \in live
               PROVE  Read(r) \subseteq told \cup left
    BY DEF NothingBack
  <2>1. r \in Room /\ ~Barred(r) /\ ~Leaving(r)
    BY Jobs DEF Ready, Inv, Types, Barred, Leaving
  <2> QED
    BY <2>1 DEF Back, Knows, Known, Content
<1> QED
  BY <1>3, <1>4, HistoryIsKept, PTL DEF HistoryExact

=============================================================================
