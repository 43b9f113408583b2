----------------------------- MODULE BlobQuota ------------------------------
(***************************************************************************)
(* Uploads of large attachments: the quota (src/worker/blob-quota.ts, a    *)
(* Durable Object), the upload requests of src/worker/index.ts that use it *)
(* and the R2 bucket, which is modelled from how they use it.              *)
(*                                                                         *)
(* The quota's transactions are atomic and interleave wherever it awaits   *)
(* R2.  A worker's request calls the quota and R2 in turn and may die in   *)
(* between.  A deadline is a flag, `due': expires_at <= now.  The limits   *)
(* on bytes are modelled; those on counts are comparisons of the same      *)
(* form.  One part an upload: it claims all of the reserved bytes.         *)
(***************************************************************************)
EXTENDS Naturals, FiniteSetsExt

CONSTANTS
    Key,          \* uploads: object key, upload id and token
    Legacy,       \* objects from before the quota
    Actor,
    Owner,        \* who makes each upload
    Bytes,        \* the size of each object
    Budget, ActorBudget,
    Req,          \* worker requests that may run at a time
    Aside,        \* cleanup passes that may run beside the alarm's
    MaxStale,     \* bound on the hours that pass between reconciliations
    MaxFault,     \* bound on failed or lost calls, deaths and restarts
    None

Object == Key \cup Legacy

VARIABLES
    rows,     \* upload_reservations
    parts,    \* upload_parts: the uploads whose bytes are claimed
    ledger,   \* completed_objects: the receipt's op_version; 0: no row
    total,    \* completed_bytes
    fresh,    \* baseline_ready, and reconciled_at is not an hour old
    scan,     \* the reconciliation under way
    scanLock, \* reconcile_lock_until > now
    clean,    \* cleanup passes: what they settle and how far they are
    mpu,      \* R2: the multipart uploads,
    stored,   \*   those with their part,
    late,     \*   completions it has accepted and not yet applied,
    bucket,   \*   and the objects
    aged,     \* objects old enough for the ledger and for R2 to drop
    req,      \* the requests
    tokens,   \* uploads whose client was told
    acked,    \* uploads answered with success
    hours, faults

table    == <<rows, parts, ledger, total>>
recon    == <<fresh, scan, scanLock>>
r2       == <<mpu, stored, late, bucket, aged>>
client   == <<tokens, acked>>
counts   == <<hours, faults>>
blobVars == <<table, recon, clean, r2, req, client, counts>>

RowState == {"active", "completing", "abort_pending", "completion_cleanup"}
Row      == [state : RowState, op : Nat, due : BOOLEAN]
\* alarm() and the passes that reserve and reservePart leave behind.
Pass     == {"alarm"} \cup Aside
Scan     == [left : SUBSET Object, seen : SUBSET Object, dirty : BOOLEAN]
Idle     == [pc |-> "idle"]
Settling == [state : {"abort_pending", "completion_cleanup"}, op : Nat,
             pc : {"head", "headed", "delete", "finish", "abort", "rehead",
                   "reheaded"},
             hit : BOOLEAN]

ASSUME BlobAssumption ==
    /\ Key \cap Legacy = {} /\ IsFiniteSet(Object)
    /\ Owner \in [Key -> Actor]
    /\ Bytes \in [Object -> Nat \ {0}]
    /\ {Budget, ActorBudget, MaxStale, MaxFault} \subseteq Nat
    /\ None \notin Row \cup Scan

Sum(S) == MapThenSumSet(LAMBDA k : Bytes[k], S)

BlobInit ==
    /\ rows = [k \in Key |-> None]
    /\ parts = {} /\ total = 0
    /\ ledger = [k \in Key |-> 0]
    /\ fresh = FALSE /\ scan = None /\ scanLock = FALSE
    /\ clean = [p \in Pass |-> [k \in Key |-> Idle]]
    /\ mpu = [k \in Key |-> "none"]
    /\ stored = {} /\ late = {} /\ bucket = Legacy /\ aged = Legacy
    /\ req = [r \in Req |-> Idle]
    /\ tokens = {} /\ acked = {}
    /\ hours = 0 /\ faults = 0

Fault ==
    /\ faults < MaxFault
    /\ faults' = faults + 1
    /\ UNCHANGED hours

-----------------------------------------------------------------------------
(* The quota's tables.                                                     *)

Reserved == {k \in Key : rows[k] # None}
In(k, s) == rows[k] # None /\ rows[k].state = s

Unsettled(R) ==
    \E k \in Key : R[k] # None
                   /\ R[k].state \in {"completing", "completion_cleanup"}

\* bumpMutation: the scan under way is out of date.
Bump == scan' = IF scan = None THEN None ELSE [scan EXCEPT !.dirty = TRUE]

Overdue(row) ==
    IF row = None \/ ~row.due THEN row
    ELSE CASE row.state = "active"     -> [row EXCEPT !.state = "abort_pending"]
           [] row.state = "completing" -> [row EXCEPT !.state = "completion_cleanup"]
           [] OTHER                    -> row

\* markExpired
Marked     == [k \in Key |-> Overdue(rows[k])]
MarkExpired == IF Marked = rows THEN UNCHANGED scan ELSE Bump

Put(R, k, state, op) ==
    rows' = [R EXCEPT ![k] = [state |-> state, op |-> op, due |-> FALSE]]

\* Mutant: the parts stay.
DropRow(k) ==
    /\ rows' = [rows EXCEPT ![k] = None]
    /\ Bump
    /\ UNCHANGED parts

\* Deletes the reservation and its parts.
Drop(k) ==
    /\ rows' = [rows EXCEPT ![k] = None]
    /\ parts' = parts \ {k}
    /\ Bump

\* promoteCompleted: the size is what was reserved, and so are the parts.
Promotable(k) == k \in parts /\ ledger[k] = 0

Promote(k) ==
    /\ Drop(k)
    /\ ledger' = [ledger EXCEPT ![k] = rows[k].op]
    /\ total' = total + Bytes[k]

-----------------------------------------------------------------------------
(* Reconciliation with the bucket.                                         *)

StartScan ==
    /\ scan' = [left |-> Object, seen |-> {}, dirty |-> FALSE]
    /\ scanLock' = TRUE

\* A page at a time, in the order of the names: no snapshot of the bucket.
\* A scan that has seen more than the budget goes no further.
Overfull(seen) == Sum(seen) > Budget

ScanPage ==
    /\ scan # None /\ scan.left # {}
    /\ LET k    == CHOOSE x \in scan.left : TRUE
           seen == scan.seen \cup ({k} \cap bucket)
       IN scan' = [scan EXCEPT !.left = IF Overfull(seen) THEN {} ELSE @ \ {k},
                               !.seen = seen]
    /\ UNCHANGED <<table, fresh, scanLock, clean, r2, req, client, counts>>

\* Mutant: a scan is applied whatever happened meanwhile.
ScanStandsAnyway == TRUE

ScanStands == ~scan.dirty /\ ~Unsettled(rows)

EndScan ==
    /\ scan # None /\ scan.left = {}
    /\ IF ScanStands
       THEN /\ fresh' = TRUE
            /\ total' = Sum(scan.seen)
            /\ ledger' = [k \in Key |->
                  IF k \in aged \ scan.seen /\ ~Overfull(scan.seen) THEN 0
                  ELSE ledger[k]]
       ELSE UNCHANGED <<fresh, total, ledger>>
    /\ scan' = None /\ scanLock' = FALSE
    /\ UNCHANGED <<rows, parts, clean, r2, req, client, counts>>

ScanFails ==
    /\ scan # None
    /\ Fault
    /\ scan' = None /\ scanLock' = FALSE
    /\ UNCHANGED <<table, fresh, clean, r2, req, client>>

\* An hour passes.
Stale ==
    /\ fresh /\ hours < MaxStale
    /\ fresh' = FALSE /\ hours' = hours + 1
    /\ UNCHANGED <<table, scan, scanLock, clean, r2, req, client, faults>>

\* Five minutes after a scan that died with its instance.
LockExpires ==
    /\ scanLock /\ scan = None
    /\ scanLock' = FALSE
    /\ UNCHANGED <<table, fresh, scan, clean, r2, req, client, counts>>

-----------------------------------------------------------------------------
(* Cleanup: alarm, cleanupDue, settleCleanup.                              *)

Cleanable(row) ==
    /\ row # None /\ row.due
    /\ row.state \in {"abort_pending", "completion_cleanup"}

\* cleanupDue: marks, and settles every row that is due, each on its own.
Sweep(p) ==
    /\ rows' = Marked
    /\ MarkExpired
    /\ clean' = [clean EXCEPT ![p] = [k \in Key |->
          IF ~Cleanable(Marked[k]) THEN Idle
          ELSE [state |-> Marked[k].state, op |-> Marked[k].op, hit |-> FALSE,
                pc |-> IF Marked[k].state = "abort_pending" THEN "abort"
                       ELSE "head"]]]

Resting(p) == \A k \in Key : clean[p][k] = Idle

\* waitUntil(cleanupDue()).  If all passes are busy it only marks.
SweepAside ==
    IF \E p \in Aside : Resting(p)
    THEN \E p \in Aside : Resting(p) /\ Sweep(p)
    ELSE rows' = Marked /\ MarkExpired /\ UNCHANGED clean

\* scheduleNext keeps the alarm at the earliest deadline.
Alarm ==
    /\ Resting("alarm")
    /\ \E k \in Key : rows[k] # None /\ rows[k].due
    /\ Sweep("alarm")
    /\ UNCHANGED <<parts, ledger, total, fresh, scanLock, r2, req, client, counts>>

At(p, k, pc) == clean[p][k] # Idle /\ clean[p][k].pc = pc
Go(p, k, pc) == clean' = [clean EXCEPT ![p][k].pc = pc, ![p][k].hit = FALSE]
Rest(p, k)   == clean' = [clean EXCEPT ![p][k] = Idle]

\* The row is still the one this pass has read.
Same(p, k) == rows[k] # None /\ rows[k].op = clean[p][k].op

\* retryCleanup
Retry(p, k) ==
    /\ rows' = IF Same(p, k) /\ rows[k].state = clean[p][k].state
               THEN [rows EXCEPT ![k].due = FALSE] ELSE rows
    /\ Rest(p, k)
    /\ UNCHANGED <<parts, ledger, total, scan>>

\* finishCleanup
Finish(p, k) ==
    /\ IF Same(p, k) /\ rows[k].state \in {"abort_pending", "completion_cleanup"}
       THEN Drop(k) ELSE UNCHANGED <<rows, parts, scan>>
    /\ Rest(p, k)
    /\ UNCHANGED <<ledger, total>>

\* promoteRecovered
Recoverable(p, k) ==
    /\ Same(p, k) /\ rows[k].state = "completion_cleanup"
    /\ Promotable(k)

Head(p, k) ==
    /\ \/ At(p, k, "head") /\ clean' = [clean EXCEPT ![p][k].hit = k \in bucket,
                                                     ![p][k].pc = "headed"]
       \/ At(p, k, "rehead") /\ clean' = [clean EXCEPT ![p][k].hit = k \in bucket,
                                                       ![p][k].pc = "reheaded"]
    /\ UNCHANGED <<table, recon, r2, req, client, counts>>

Headed(p, k) ==
    /\ At(p, k, "headed")
    /\ IF clean[p][k].hit /\ Recoverable(p, k)
       THEN Promote(k) /\ Rest(p, k)
       ELSE /\ Go(p, k, IF clean[p][k].hit THEN "delete" ELSE "abort")
            /\ UNCHANGED <<table, scan>>
    /\ UNCHANGED <<fresh, scanLock, r2, req, client, counts>>

\* Mutant: an upload that R2 does not know is tried again.
MissingForever(p, k) == Retry(p, k)

\* The upload is unknown to R2 and there is no object.
Missing(p, k) == Finish(p, k)

ReHeaded(p, k) ==
    /\ At(p, k, "reheaded")
    /\ CASE clean[p][k].hit /\ Recoverable(p, k) -> Promote(k) /\ Rest(p, k)
         [] ~clean[p][k].hit -> Missing(p, k)
         [] clean[p][k].hit /\ clean[p][k].state = "abort_pending" ->
               Go(p, k, "delete") /\ UNCHANGED <<table, scan>>
         [] OTHER -> Retry(p, k)
    /\ UNCHANGED <<fresh, scanLock, r2, req, client, counts>>

Delete(p, k) ==
    /\ At(p, k, "delete")
    /\ bucket' = bucket \ {k}
    /\ Go(p, k, "finish")
    /\ UNCHANGED <<table, recon, mpu, stored, late, aged, req, client, counts>>

Abort(p, k) ==
    /\ At(p, k, "abort")
    /\ IF mpu[k] = "open"
       THEN mpu' = [mpu EXCEPT ![k] = "done"] /\ Go(p, k, "finish")
       ELSE Go(p, k, "rehead") /\ UNCHANGED mpu
    /\ UNCHANGED <<table, recon, stored, late, bucket, aged, req, client, counts>>

Finished(p, k) ==
    /\ At(p, k, "finish")
    /\ Finish(p, k)
    /\ UNCHANGED <<fresh, scanLock, r2, req, client, counts>>

CleanupFails(p, k) ==
    /\ clean[p][k] # Idle
    /\ clean[p][k].pc \in {"head", "rehead", "delete", "abort"}
    /\ Fault
    /\ Retry(p, k)
    /\ UNCHANGED <<fresh, scanLock, r2, req, client>>

Settle(p, k) ==
    \/ Head(p, k) \/ Headed(p, k) \/ ReHeaded(p, k)
    \/ Delete(p, k) \/ Abort(p, k) \/ Finished(p, k)

-----------------------------------------------------------------------------
(* The worker's requests.                                                  *)

On(r, op, pc) == req[r].pc = pc /\ req[r].op = op
Task(op, k, pc, n) == [op |-> op, key |-> k, pc |-> pc, n |-> n, hit |-> FALSE]
Step(r, pc) == req' = [req EXCEPT ![r].pc = pc]
Reply(r)    == req' = [req EXCEPT ![r] = Idle]

\* /api/blob/create opens the multipart upload, then reserves.
Create(r, k) ==
    /\ req[r] = Idle /\ mpu[k] = "none"
    /\ mpu' = [mpu EXCEPT ![k] = "open"]
    /\ req' = [req EXCEPT ![r] = Task("create", k, "reserve", 0)]
    /\ UNCHANGED <<table, recon, clean, stored, late, bucket, aged, client, counts>>

\* Mutant: what is reserved for the actor is left out.
FitsLedgerOnly(R, k) ==
    LET charged == {j \in Key : R[j] # None} IN
    /\ total + Sum(charged) + Bytes[k] <= Budget
    /\ Sum({j \in Key : ledger[j] # 0 /\ Owner[j] = Owner[k]}) + Bytes[k]
          <= ActorBudget

\* The limits, over what is complete and what is reserved.
Fits(R, k) ==
    LET charged == {j \in Key : R[j] # None} IN
    /\ total + Sum(charged) + Bytes[k] <= Budget
    /\ Sum({j \in Key : ledger[j] # 0 /\ Owner[j] = Owner[k]})
       + Sum({j \in charged : Owner[j] = Owner[k]}) + Bytes[k] <= ActorBudget

\* The transaction of reserve.
Admit(r, R) ==
    LET k == req[r].key IN
    IF ~Unsettled(R) /\ Fits(R, k)
    THEN /\ Put(R, k, "active", 0)
         /\ tokens' = tokens \cup {k}
         /\ Reply(r)
    ELSE /\ rows' = R
         /\ Step(r, "undo")
         /\ UNCHANGED tokens

\* reserve, up to completedState.
Reserve(r) ==
    /\ On(r, "create", "reserve")
    /\ \/ /\ fresh
          /\ Admit(r, Marked)
          /\ MarkExpired
          /\ UNCHANGED <<scanLock, clean>>
       \/ /\ ~fresh /\ scan # None
          /\ rows' = Marked /\ MarkExpired
          /\ Step(r, "wait")
          /\ UNCHANGED <<scanLock, clean, tokens>>
       \/ /\ ~fresh /\ scan = None /\ ~scanLock /\ ~Unsettled(Marked)
          /\ rows' = Marked
          /\ StartScan
          /\ Step(r, "wait")
          /\ UNCHANGED <<clean, tokens>>
       \/ /\ ~fresh /\ scan = None /\ (scanLock \/ Unsettled(Marked))
          /\ SweepAside
          /\ Step(r, "undo")
          /\ UNCHANGED <<scanLock, tokens>>
    /\ UNCHANGED <<parts, ledger, total, fresh, r2, acked, counts>>

\* reserve, once the reconciliation it waited for has ended.
Reconciled(r) ==
    /\ On(r, "create", "wait") /\ scan = None
    /\ IF fresh
       THEN Admit(r, rows) /\ UNCHANGED <<clean, scan>>
       ELSE SweepAside /\ Step(r, "undo") /\ UNCHANGED tokens
    /\ UNCHANGED <<parts, ledger, total, fresh, scanLock, r2, acked, counts>>

\* The answer of reserve is lost, or the quota restarted: the upload is
\* taken back, whatever was reserved for it.
ReserveLost(r) ==
    /\ On(r, "create", "reserve") /\ fresh
    /\ ~Unsettled(Marked) /\ Fits(Marked, req[r].key)
    /\ Fault
    /\ Put(Marked, req[r].key, "active", 0)
    /\ MarkExpired
    /\ Step(r, "undo")
    /\ UNCHANGED <<parts, ledger, total, fresh, scanLock, clean, r2, client>>

Undo(r) ==
    /\ On(r, "create", "undo")
    /\ mpu' = [mpu EXCEPT ![req[r].key] = "done"]
    /\ Reply(r)
    /\ UNCHANGED <<table, recon, clean, stored, late, bucket, aged, client, counts>>

\* /api/blob/part: reservePart, which also moves the deadline.
Part(r, k) ==
    /\ req[r] = Idle /\ k \in tokens
    /\ IF Marked[k] # None /\ Marked[k].state = "active" /\ ~Marked[k].due
          /\ k \notin parts
       THEN /\ Put(Marked, k, "active", Marked[k].op)
            /\ MarkExpired
            /\ parts' = parts \cup {k}
            /\ req' = [req EXCEPT ![r] = Task("part", k, "upload", 0)]
            /\ UNCHANGED clean
       ELSE SweepAside /\ UNCHANGED <<parts, req>>
    /\ UNCHANGED <<ledger, total, fresh, scanLock, r2, client, counts>>

Upload(r) ==
    /\ On(r, "part", "upload")
    /\ mpu[req[r].key] = "open"
    /\ stored' = stored \cup {req[r].key}
    /\ Reply(r)
    /\ UNCHANGED <<table, recon, clean, mpu, late, bucket, aged, client, counts>>

UploadFails(r) ==
    /\ On(r, "part", "upload")
    /\ IF mpu[req[r].key] = "open" THEN Fault ELSE UNCHANGED counts
    /\ Step(r, "claim")
    /\ UNCHANGED <<table, recon, clean, r2, client>>

\* claimAbort, of a failed part or of /api/blob/abort.
ClaimAbort(r, k, next) ==
    /\ IF Marked[k] # None /\ Marked[k].state = "active" /\ ~Marked[k].due
       THEN Put(Marked, k, "abort_pending", Marked[k].op + 1) /\ Bump /\ next
       ELSE rows' = Marked /\ MarkExpired /\ Reply(r)
    /\ UNCHANGED <<parts, ledger, total, fresh, scanLock, clean, r2, client, counts>>

PartAbort(r) ==
    /\ On(r, "part", "claim")
    /\ ClaimAbort(r, req[r].key, req' = [req EXCEPT ![r] =
          Task("abort", req[r].key, "abort", 0)])

AbortUpload(r, k) ==
    /\ req[r] = Idle /\ k \in tokens
    /\ ClaimAbort(r, k, req' = [req EXCEPT ![r] = Task("abort", k, "abort", 0)])

\* R2 aborts it, or says that it has no such upload.
R2Abort(r) ==
    /\ On(r, "abort", "abort")
    /\ IF mpu[req[r].key] = "open"
       THEN mpu' = [mpu EXCEPT ![req[r].key] = "done"] /\ Step(r, "release")
       ELSE Step(r, "defer") /\ UNCHANGED mpu
    /\ UNCHANGED <<table, recon, clean, stored, late, bucket, aged, client, counts>>

R2AbortFails(r) ==
    /\ On(r, "abort", "abort")
    /\ Fault
    /\ Step(r, "defer")
    /\ UNCHANGED <<table, recon, clean, r2, client>>

\* release, after R2 has confirmed the abort or the deletion.
Release(r) ==
    /\ req[r].pc = "release"
    /\ IF rows[req[r].key] # None THEN Drop(req[r].key)
       ELSE UNCHANGED <<rows, parts, scan>>
    /\ Reply(r)
    /\ UNCHANGED <<ledger, total, fresh, scanLock, clean, r2, client, counts>>

DeferAbort(r) ==
    /\ On(r, "abort", "defer")
    /\ rows' = IF In(req[r].key, "abort_pending")
               THEN [rows EXCEPT ![req[r].key].due = FALSE] ELSE rows
    /\ Reply(r)
    /\ UNCHANGED <<parts, ledger, total, recon, clean, r2, client, counts>>

\* /api/blob/complete: claimComplete.
Complete(r, k) ==
    /\ req[r] = Idle /\ k \in stored
    /\ IF Marked[k] # None /\ Marked[k].state = "active" /\ ~Marked[k].due
          /\ k \in parts
       THEN /\ Put(Marked, k, "completing", Marked[k].op + 1)
            /\ Bump
            /\ req' = [req EXCEPT ![r] =
                          Task("complete", k, "r2", Marked[k].op + 1)]
       ELSE rows' = Marked /\ MarkExpired /\ UNCHANGED req
    /\ UNCHANGED <<parts, ledger, total, fresh, scanLock, clean, r2, client, counts>>

\* What R2 does with a completion: nothing if the upload is gone.
Apply(k) ==
    IF mpu[k] = "open" THEN /\ bucket' = bucket \cup {k}
                            /\ mpu' = [mpu EXCEPT ![k] = "done"]
    ELSE UNCHANGED <<bucket, mpu>>

R2Complete(r) ==
    /\ On(r, "complete", "r2")
    /\ Apply(req[r].key)
    /\ Step(r, IF mpu[req[r].key] = "open" THEN "commit" ELSE "head")
    /\ UNCHANGED <<table, recon, clean, stored, late, aged, client, counts>>

\* The call fails: R2 has done it, has not, or will.
R2CompleteFails(r) ==
    /\ On(r, "complete", "r2")
    /\ Fault
    /\ \/ Apply(req[r].key) /\ UNCHANGED late
       \/ UNCHANGED <<bucket, mpu, late>>
       \/ late' = late \cup {req[r].key} /\ UNCHANGED <<bucket, mpu>>
    /\ Step(r, "head")
    /\ UNCHANGED <<table, recon, clean, stored, aged, client>>

R2Late(k) ==
    /\ k \in late
    /\ late' = late \ {k}
    /\ Apply(k)
    /\ UNCHANGED <<table, recon, clean, stored, aged, req, client, counts>>

\* Did R2 complete it after all?
CompleteHead(r) ==
    /\ On(r, "complete", "head")
    /\ req' = [req EXCEPT ![r].hit = req[r].key \in bucket,
                          ![r].pc = IF req[r].key \in bucket THEN "commit"
                                    ELSE "restore"]
    /\ UNCHANGED <<table, recon, clean, r2, client, counts>>

CompleteHeadFails(r) ==
    /\ On(r, "complete", "head")
    /\ Fault
    /\ Step(r, "deferclean")
    /\ UNCHANGED <<table, recon, clean, r2, client>>

\* The row is this claim's.
Claimed(r) == LET k == req[r].key
              IN In(k, "completing") /\ rows[k].op = req[r].n

\* commit: a row that is gone was perhaps committed before.
Committed(r) == IF rows[req[r].key] = None THEN ledger[req[r].key] = req[r].n
                ELSE Claimed(r) /\ ~rows[req[r].key].due /\ Promotable(req[r].key)

CommitEffect(r) ==
    IF rows[req[r].key] # None /\ Committed(r) THEN Promote(req[r].key)
    ELSE UNCHANGED <<table, scan>>

\* Refused: after a plain completion the object is deleted again, after a
\* doubtful one the quota is left to settle it.
Commit(r) ==
    /\ req[r].pc \in {"commit", "again"}
    /\ CommitEffect(r)
    /\ IF Committed(r)
       THEN acked' = acked \cup {req[r].key} /\ Reply(r)
       ELSE /\ Step(r, IF req[r].hit THEN "deferclean" ELSE "delete")
            /\ UNCHANGED acked
    /\ UNCHANGED <<fresh, scanLock, clean, r2, tokens, counts>>

\* The call or its answer is lost: commitBlobQuota asks once more.
CommitLost(r) ==
    /\ req[r].pc \in {"commit", "again"}
    /\ Fault
    /\ CommitEffect(r) \/ UNCHANGED <<table, scan>>
    /\ IF req[r].pc = "commit" THEN Step(r, "again") ELSE Reply(r)
    /\ UNCHANGED <<fresh, scanLock, clean, r2, client>>

R2Delete(r) ==
    /\ On(r, "complete", "delete")
    /\ bucket' = bucket \ {req[r].key}
    /\ Step(r, "release")
    /\ UNCHANGED <<table, recon, clean, mpu, stored, late, aged, client, counts>>

R2DeleteFails(r) ==
    /\ On(r, "complete", "delete")
    /\ Fault
    /\ Step(r, "deferclean")
    /\ UNCHANGED <<table, recon, clean, r2, client>>

\* restoreActive is for this claim alone.
Restorable(r) == Claimed(r)

RestoreActive(r) ==
    /\ On(r, "complete", "restore")
    /\ IF Restorable(r)
       THEN Put(rows, req[r].key, "active", rows[req[r].key].op) /\ Bump
       ELSE UNCHANGED <<rows, scan>>
    /\ Reply(r)
    /\ UNCHANGED <<parts, ledger, total, fresh, scanLock, clean, r2, client, counts>>

DeferCompletionCleanup(r) ==
    /\ On(r, "complete", "deferclean")
    /\ IF Claimed(r)
       THEN Put(rows, req[r].key, "completion_cleanup", rows[req[r].key].op) /\ Bump
       ELSE UNCHANGED <<rows, scan>>
    /\ Reply(r)
    /\ UNCHANGED <<parts, ledger, total, fresh, scanLock, clean, r2, client, counts>>

Work(r) ==
    \/ Reserve(r) \/ Reconciled(r) \/ Undo(r)
    \/ Upload(r) \/ PartAbort(r)
    \/ R2Abort(r) \/ Release(r) \/ DeferAbort(r)
    \/ R2Complete(r) \/ CompleteHead(r) \/ Commit(r) \/ R2Delete(r)
    \/ RestoreActive(r) \/ DeferCompletionCleanup(r)

Mishap(r) ==
    \/ ReserveLost(r) \/ UploadFails(r) \/ R2AbortFails(r)
    \/ R2CompleteFails(r) \/ CompleteHeadFails(r) \/ CommitLost(r)
    \/ R2DeleteFails(r)

-----------------------------------------------------------------------------
(* Time, deaths and the bucket's own rules.                                *)

\* A reservation reaches its deadline.
Elapse(k) ==
    /\ rows[k] # None /\ ~rows[k].due
    /\ rows' = [rows EXCEPT ![k].due = TRUE]
    /\ UNCHANGED <<parts, ledger, total, recon, clean, r2, req, client, counts>>

Age(k) ==
    /\ ledger[k] # 0 /\ k \notin aged
    /\ aged' = aged \cup {k}
    /\ UNCHANGED <<table, recon, clean, mpu, stored, late, bucket, req, client, counts>>

\* r2-lifecycle.json
Lifecycle(k) ==
    /\ k \in aged \cap bucket
    /\ bucket' = bucket \ {k}
    /\ UNCHANGED <<table, recon, clean, mpu, stored, late, aged, req, client, counts>>

WorkerDies(r) ==
    /\ req[r] # Idle
    /\ Fault
    /\ Reply(r)
    /\ UNCHANGED <<table, recon, clean, r2, client>>

\* The Durable Object restarts: its passes and its scan are gone.
Restart ==
    /\ scan # None \/ \E p \in Pass : ~Resting(p)
    /\ Fault
    /\ scan' = None
    /\ clean' = [p \in Pass |-> [k \in Key |-> Idle]]
    /\ req' = [r \in Req |-> IF On(r, "create", "wait")
                             THEN [req[r] EXCEPT !.pc = "undo"] ELSE req[r]]
    /\ UNCHANGED <<table, fresh, scanLock, r2, client>>

-----------------------------------------------------------------------------

BlobNext ==
    \/ ScanPage \/ EndScan \/ ScanFails \/ Stale \/ LockExpires
    \/ Alarm \/ Restart
    \/ \E p \in Pass, k \in Key : Settle(p, k)
    \/ \E p \in Pass, k \in Key : CleanupFails(p, k)
    \/ \E r \in Req, k \in Key : Create(r, k) \/ Part(r, k) \/ AbortUpload(r, k)
                                 \/ Complete(r, k)
    \/ \E r \in Req : Work(r)
    \/ \E r \in Req : Mishap(r)
    \/ \E r \in Req : WorkerDies(r)
    \/ \E k \in Key : R2Late(k)
    \/ \E k \in Key : Elapse(k)
    \/ \E k \in Key : Age(k)
    \/ \E k \in Object : Lifecycle(k)

BlobSpec == BlobInit /\ [][BlobNext]_blobVars

\* Time passes, alarms fire again until they succeed, calls return.  Nothing
\* is assumed of what clients ask for.
BlobFairness ==
    /\ WF_blobVars(Alarm)
    /\ \A k \in Key : WF_blobVars(Elapse(k))
    /\ \A p \in Pass, k \in Key : WF_blobVars(Settle(p, k))

BlobFairSpec == BlobSpec /\ BlobFairness

-----------------------------------------------------------------------------

\* The quota's tables, the passes and the requests have their types.
BlobTypeOK ==
    /\ rows \in [Key -> Row \cup {None}]
    /\ \A k \in Key : rows[k] = None => k \notin parts
    /\ ledger \in [Key -> Nat] /\ total \in Nat
    /\ fresh \in BOOLEAN /\ scanLock \in BOOLEAN
    /\ scan \in Scan \cup {None} /\ (scan # None => scanLock)
    /\ clean \in [Pass -> [Key -> Settling \cup {Idle}]]
    /\ mpu \in [Key -> {"none", "open", "done"}]
    /\ stored \cup late \cup tokens \cup acked \subseteq Key
    /\ bucket \cup aged \subseteq Object

\* However completions, aborts, cleanups and reconciliations interleave and
\* fail, the bucket never holds more than the account may, nor an actor's
\* objects more than an actor may.
WithinBudget ==
    /\ Sum(bucket) <= Budget
    /\ \A a \in Actor :
          Sum({k \in bucket \cap Key : Owner[k] = a}) <= ActorBudget

\* What is in the bucket is charged: from the first reconciliation on, the
\* count of completed bytes and the reservations cover every object, also one
\* whose completion failed, was answered late or was cleaned up half-way.
Charged ==
    fresh \/ hours > 0 => Sum(bucket) <= total + Sum(Reserved)

\* Together: what is in the bucket is charged, and within the limits.
BudgetKept == WithinBudget /\ Charged

\* Every reservation is settled: committed, released or cleaned up.
Settles == \A k \in Key : []<>(rows[k] = None)

\* blob-quota.ts: the receipt keeps an accounted, successfully completed
\* object from being deleted.  An upload that was answered with success stays
\* in the bucket until it is old.
AcknowledgedKept == acked \subseteq bucket \cup aged
=============================================================================
