--------------------------- MODULE FileProcessing ---------------------------
(***************************************************************************)
(* The document processing pipeline of apps/api/src/modules/files: the     *)
(* rows of files, file_processing_attempts and document_versions in        *)
(* Postgres, the BullMQ jobs that carry attempts to workers, the API call  *)
(* chains (requests and cron sweeps) that insert and dispatch attempts,    *)
(* and the worker that claims an attempt, runs the pipeline and publishes. *)
(*                                                                         *)
(* Each action is one SQL statement or transaction, one Redis command, or  *)
(* one local step between two awaits.  Clocks are abstract: a lease may    *)
(* be found expired at any moment unless AccurateLeases says that a lease  *)
(* outlives its holder's work.                                             *)
(***************************************************************************)
EXTENDS Naturals, Sequences, FiniteSets

CONSTANTS
  Files,                \* file ids
  Attempts,             \* attempt ids (random UUIDs, never reused)
  FileOf,               \* the file each attempt id is drawn for
  Workers,              \* concurrent executions of the BullMQ worker
  Callers,              \* concurrent API call chains: requests and crons
  None,                 \* no attempt, file, worker or key
  MaxRetries,           \* RetryPolicy.MAX_RETRIES
  MaxDispatchAttempts,  \* MAX_DISPATCH_ATTEMPTS of the reconciler
  MaxGen,               \* bound: claims of one attempt
  AccurateLeases,       \* TRUE: no lease expires while its holder works
  Requests,             \* which user requests the environment issues
  InSubject,            \* files whose subjectId names the one subject
  FaultKinds, MaxFaults \* which faults may happen, and how many in all

ASSUME IdAssumption ==
  /\ FileOf \in [Attempts -> Files]
  /\ None \notin Files \cup Attempts \cup Workers
  /\ Files \cap Attempts = {}
ASSUME BoundAssumption ==
  /\ \A n \in {MaxRetries, MaxDispatchAttempts, MaxGen, MaxFaults} : n \in Nat
  /\ AccurateLeases \in BOOLEAN /\ InSubject \subseteq Files
ASSUME FiniteAssumption == IsFiniteSet(Attempts) /\ IsFiniteSet(Callers)

VARIABLES
  fileStatus,  \* files.processing_status; "absent" before, "deleted" after
  attempt,     \* rows of file_processing_attempts
  versions,    \* document_versions of a file: version n is by attempt [n]
  fileCount,   \* subjects.file_count of that subject
  job,         \* BullMQ jobs, by job id
  worker,      \* local state of each worker execution
  caller,      \* local state of each API call chain
  faults       \* faults so far

vars == <<fileStatus, attempt, versions, fileCount, job, worker, caller, faults>>

-----------------------------------------------------------------------------
(* Types and null values.                                                  *)

JobKeys == Attempts \cup Files \* "file-processing_" + attempt id, or file id

ActiveStatuses ==
  {"enqueue_pending", "dispatching", "queued", "processing", "retrying"}
TerminalStatuses == {"completed", "failed", "enqueue_failed"}

AttemptRow == [status : ActiveStatuses \cup TerminalStatuses \cup {"absent"},
               key : JobKeys \cup {None}, gen : Nat, dispatches : Nat]
NoRow == [status |-> "absent", key |-> None, gen |-> 0, dispatches |-> 0]

JobRecord == [state : {"none", "waiting", "active", "failed"},
              attempt : Attempts \cup {None},
              holder : Workers \cup {None}, stalled : BOOLEAN]
NoJob == [state |-> "none", attempt |-> None, holder |-> None, stalled |-> FALSE]

WorkerRecord ==
  [pc : {"idle", "claim", "exhausted", "begin", "pipeline", "count",
         "retry", "fail", "finish"},
   key : JobKeys \cup {None}, attempt : Attempts \cup {None}, gen : Nat]
IdleWorker == [pc |-> "idle", key |-> None, attempt |-> None, gen |-> 0]

CallerRecord ==
  [pc : {"idle", "dispatch", "claimed", "enqueue", "rollback", "expired",
         "insert", "rename", "delete", "uncount"},
   attempt : Attempts \cup {None}, file : Files \cup {None},
   key : JobKeys \cup {None}, seen : Nat]
IdleCaller ==
  [pc |-> "idle", attempt |-> None, file |-> None, key |-> None, seen |-> 0]

TypeOK ==
  /\ fileStatus \in [Files -> {"absent", "pending", "processing",
                               "completed", "failed", "deleted"}]
  /\ attempt \in [Attempts -> AttemptRow]
  /\ versions \in [Files -> Seq(Attempts)]
  /\ fileCount \in Nat
  /\ job \in [JobKeys -> JobRecord]
  /\ worker \in [Workers -> WorkerRecord]
  /\ caller \in [Callers -> CallerRecord]
  /\ faults \in Nat

Init ==
  /\ fileStatus = [f \in Files |-> "absent"]
  /\ attempt = [a \in Attempts |-> NoRow]
  /\ versions = [f \in Files |-> <<>>]
  /\ fileCount = 0
  /\ job = [k \in JobKeys |-> NoJob]
  /\ worker = [w \in Workers |-> IdleWorker]
  /\ caller = [c \in Callers |-> IdleCaller]
  /\ faults = 0

(* A fault of a kind the scenario allows, within its budget.               *)
Fault(kind) ==
  /\ kind \in FaultKinds
  /\ faults < MaxFaults
  /\ faults' = faults + 1

FileExists(f) == fileStatus[f] \notin {"absent", "deleted"}
Published(a) == \E n \in DOMAIN versions[FileOf[a]] : versions[FileOf[a]][n] = a
Active(a) == attempt[a].status \in ActiveStatuses

(* Mutant of ActiveIndexAllows: the index forgets the status retrying.     *)
ActiveIndexWithoutRetrying(a) ==
  \A b \in Attempts \ {a} :
    FileOf[b] = FileOf[a] => ~Active(b) \/ attempt[b].status = "retrying"

(* The partial unique index file_processing_active_attempt_idx.            *)
ActiveIndexAllows(a) ==
  \A b \in Attempts \ {a} : FileOf[b] = FileOf[a] => ~Active(b)

-----------------------------------------------------------------------------
(* FileProcessingDispatcherService.dispatchAttempt                         *)

(* UPDATE ... SET status = to WHERE id = a AND status = from               *)
Moved(a, from, to) ==
  IF attempt[a].status = from THEN [attempt EXCEPT ![a].status = to] ELSE attempt

(* The claim: enqueue_pending -> dispatching RETURNING queue_job_id.       *)
Dispatch(c) ==
  LET a == caller[c].attempt IN
  /\ caller[c].pc = "dispatch"
  /\ attempt' = Moved(a, "enqueue_pending", "dispatching")
  /\ caller' = [caller EXCEPT ![c] =
       IF attempt[a].status = "enqueue_pending"
       THEN [IdleCaller EXCEPT !.pc = "claimed", !.attempt = a,
                               !.key = attempt[a].key]
       ELSE IdleCaller]
  /\ UNCHANGED <<fileStatus, versions, fileCount, job, worker, faults>>

(* The file is looked up, then dispatching -> queued; the number of rows   *)
(* updated is not looked at, so the job is enqueued either way.            *)
MarkQueued(c) ==
  LET a == caller[c].attempt IN
  /\ caller[c].pc = "claimed"
  /\ IF FileExists(FileOf[a])
     THEN /\ attempt' = Moved(a, "dispatching", "queued")
          /\ caller' = [caller EXCEPT ![c].pc = "enqueue"]
     ELSE /\ caller' = [caller EXCEPT ![c] = IdleCaller]
          /\ UNCHANGED attempt
  /\ UNCHANGED <<fileStatus, versions, fileCount, job, worker, faults>>

(* BullMQ ignores an add whose job id already exists, in whatever state.   *)
AddJob(k, a) ==
  IF job[k].state = "none"
  THEN [job EXCEPT ![k] = [NoJob EXCEPT !.state = "waiting", !.attempt = a]]
  ELSE job

Enqueue(c) ==
  /\ caller[c].pc = "enqueue"
  /\ job' = AddJob(caller[c].key, caller[c].attempt)
  /\ caller' = [caller EXCEPT ![c] = IdleCaller]
  /\ UNCHANGED <<fileStatus, attempt, versions, fileCount, worker, faults>>

(* One of these statements throws, with or without its effect.             *)
DispatchThrows(c) ==
  LET a == caller[c].attempt IN
  /\ Fault("api")
  /\ \/ /\ caller[c].pc = "dispatch"
        /\ attempt' \in {attempt, Moved(a, "enqueue_pending", "dispatching")}
     \/ /\ caller[c].pc = "claimed"
        /\ attempt' \in {attempt, Moved(a, "dispatching", "queued")}
  /\ caller' = [caller EXCEPT ![c].pc = "rollback"]
  /\ UNCHANGED <<fileStatus, versions, fileCount, job, worker>>

(* queue.add throws: Redis refused the job, or took it and the reply was   *)
(* lost.                                                                   *)
EnqueueThrows(c) ==
  /\ caller[c].pc = "enqueue"
  /\ Fault("redis")
  /\ job' \in {job, AddJob(caller[c].key, caller[c].attempt)}
  /\ caller' = [caller EXCEPT ![c].pc = "rollback"]
  /\ UNCHANGED <<fileStatus, attempt, versions, fileCount, worker>>

(* The catch block: queued -> enqueue_pending, whoever queued it.          *)
RollBackDispatch(c) ==
  LET a == caller[c].attempt IN
  /\ caller[c].pc = "rollback"
  /\ attempt' = Moved(a, "queued", "enqueue_pending")
  /\ caller' = [caller EXCEPT ![c] = IdleCaller]
  /\ UNCHANGED <<fileStatus, versions, fileCount, job, worker, faults>>

-----------------------------------------------------------------------------
(* FileProcessingReconcilerService: five crons, every minute.              *)

(* reconcileEnqueuePendingAttempts: a row older than the grace period of a *)
(* minute, which outlasts the request that is to dispatch it, is read and  *)
(* dispatched.                                                             *)
SweepPending(c, a) ==
  /\ caller[c].pc = "idle"
  /\ attempt[a].status = "enqueue_pending"
  /\ AccurateLeases =>
       \A d \in Callers : ~(caller[d].pc \in {"rename", "dispatch"}
                            /\ caller[d].attempt = a)
  /\ caller' = [caller EXCEPT ![c] = [IdleCaller EXCEPT !.pc = "dispatch",
                                                        !.attempt = a]]
  /\ UNCHANGED <<fileStatus, attempt, versions, fileCount, job, worker, faults>>

(* reconcileDispatchingAttempts, the read: a row whose 30 s lease is over. *)
ReadExpired(c, a) ==
  /\ caller[c].pc = "idle"
  /\ attempt[a].status = "dispatching"
  /\ AccurateLeases =>
       \A d \in Callers : ~(caller[d].pc = "claimed" /\ caller[d].attempt = a)
  /\ caller' = [caller EXCEPT ![c] = [IdleCaller EXCEPT
       !.pc = "expired", !.attempt = a, !.seen = attempt[a].dispatches]]
  /\ UNCHANGED <<fileStatus, attempt, versions, fileCount, job, worker, faults>>

(* Mutant of GiveUpExpired: the file is failed whether or not the attempt  *)
(* update matched a row.                                                   *)
GiveUpUnchecked(c) ==
  LET a == caller[c].attempt  n == caller[c].seen + 1 IN
  /\ caller[c].pc = "expired"
  /\ n >= MaxDispatchAttempts
  /\ attempt' = IF attempt[a].status = "dispatching"
                THEN [attempt EXCEPT ![a].status = "enqueue_failed",
                                     ![a].dispatches = n]
                ELSE attempt
  /\ fileStatus' = [fileStatus EXCEPT ![FileOf[a]] = "failed"]
  /\ caller' = [caller EXCEPT ![c] = IdleCaller]
  /\ UNCHANGED <<versions, fileCount, job, worker, faults>>

(* ... and the write, for a row read earlier.  The give-up transaction     *)
(* re-checks the status; the requeue does not.  A requeue of a finished    *)
(* attempt fails when the file has another active attempt.                 *)
GiveUpExpired(c) ==
  LET a == caller[c].attempt  n == caller[c].seen + 1 IN
  /\ caller[c].pc = "expired"
  /\ n >= MaxDispatchAttempts
  /\ IF attempt[a].status = "dispatching"
     THEN /\ attempt' = [attempt EXCEPT ![a].status = "enqueue_failed",
                                        ![a].dispatches = n]
          /\ fileStatus' = [fileStatus EXCEPT ![FileOf[a]] = "failed"]
     ELSE UNCHANGED <<attempt, fileStatus>>
  /\ caller' = [caller EXCEPT ![c] = IdleCaller]
  /\ UNCHANGED <<versions, fileCount, job, worker, faults>>

RequeueExpired(c) ==
  LET a == caller[c].attempt  n == caller[c].seen + 1 IN
  /\ caller[c].pc = "expired"
  /\ n < MaxDispatchAttempts
  /\ IF attempt[a].status # "absent" /\ ActiveIndexAllows(a)
     THEN attempt' = [attempt EXCEPT ![a].status = "enqueue_pending",
                                     ![a].dispatches = n]
     ELSE UNCHANGED attempt
  /\ caller' = [caller EXCEPT ![c] =
       IF ActiveIndexAllows(a)
       THEN [IdleCaller EXCEPT !.pc = "dispatch", !.attempt = a]
       ELSE IdleCaller]
  /\ UNCHANGED <<fileStatus, versions, fileCount, job, worker, faults>>

(* reconcileRetryingAttempts, once next_retry_at has passed.               *)
RequeueRetrying(a) ==
  /\ attempt[a].status = "retrying"
  /\ attempt' = [attempt EXCEPT ![a].status = "enqueue_pending"]
  /\ UNCHANGED <<fileStatus, versions, fileCount, job, worker, caller, faults>>

(* reconcileQueuedAttempts: queued for 5 minutes.                          *)
JobIsLive(a) ==
  \/ \E k \in JobKeys : /\ job[k].attempt = a
                        /\ \/ job[k].state = "waiting"
                           \/ /\ job[k].state = "active"
                              /\ worker[job[k].holder].key = k
  \/ \E c \in Callers : caller[c].pc = "enqueue" /\ caller[c].attempt = a

RequeueQueued(a) ==
  /\ attempt[a].status = "queued"
  /\ AccurateLeases => ~JobIsLive(a)
  /\ attempt' = [attempt EXCEPT ![a].status = "enqueue_pending"]
  /\ UNCHANGED <<fileStatus, versions, fileCount, job, worker, caller, faults>>

(* Mutant of RequeueProcessing: the requeue resets processing_attempts.    *)
RequeueResettingGeneration(a) ==
  /\ attempt[a].status = "processing"
  /\ attempt' = [attempt EXCEPT ![a].status = "enqueue_pending", ![a].gen = 0]
  /\ UNCHANGED <<fileStatus, versions, fileCount, job, worker, caller, faults>>

(* reconcileProcessingAttempts: processing for 15 minutes.                 *)
RequeueProcessing(a) ==
  /\ attempt[a].status = "processing"
  /\ AccurateLeases =>
       \A w \in Workers : ~(worker[w].pc # "idle" /\ worker[w].attempt = a
                            /\ worker[w].gen = attempt[a].gen)
  /\ attempt' = [attempt EXCEPT ![a].status = "enqueue_pending"]
  /\ UNCHANGED <<fileStatus, versions, fileCount, job, worker, caller, faults>>

-----------------------------------------------------------------------------
(* FilesService: the requests that create, reprocess and delete files.     *)

(* registerAndProcessFile: one transaction inserts the file and its first  *)
(* attempt, then the request dispatches it.                                *)
Upload(c, a) ==
  /\ "upload" \in Requests
  /\ caller[c].pc = "idle"
  /\ fileStatus[FileOf[a]] = "absent"
  /\ fileStatus' = [fileStatus EXCEPT ![FileOf[a]] = "pending"]
  /\ attempt' = [attempt EXCEPT ![a] = [NoRow EXCEPT
                   !.status = "enqueue_pending", !.key = a]]
  /\ caller' = [caller EXCEPT ![c] = [IdleCaller EXCEPT
                  !.pc = "dispatch", !.attempt = a]]
  /\ UNCHANGED <<versions, fileCount, job, worker, faults>>

(* reprocessFile: the status reset commits before the insert is tried.     *)
(* Bounded: a request is issued only while an attempt id is left for it.   *)
ResetFile(c, f) ==
  /\ "reprocess" \in Requests
  /\ caller[c].pc = "idle"
  /\ FileExists(f)
  /\ Cardinality({a \in Attempts : FileOf[a] = f /\ attempt[a] = NoRow})
       > Cardinality({d \in Callers : caller[d].pc = "insert" /\ caller[d].file = f})
  /\ fileStatus' = [fileStatus EXCEPT ![f] = "pending"]
  /\ caller' = [caller EXCEPT ![c] = [IdleCaller EXCEPT !.pc = "insert",
                                                        !.file = f]]
  /\ UNCHANGED <<attempt, versions, fileCount, job, worker, faults>>

(* The insert, under a job id made from the file id.                       *)
InsertAllowed(f, a) ==
  /\ FileExists(f)
  /\ ActiveIndexAllows(a)
  /\ \A b \in Attempts : attempt[b].key # f

InsertAttempt(c) ==
  LET f == caller[c].file IN
  /\ caller[c].pc = "insert"
  /\ \E a \in Attempts :
       /\ FileOf[a] = f
       /\ attempt[a] = NoRow
       /\ InsertAllowed(f, a)
       /\ attempt' = [attempt EXCEPT ![a] = [NoRow EXCEPT
                        !.status = "enqueue_pending", !.key = f]]
       /\ caller' = [caller EXCEPT ![c].pc = "rename", ![c].attempt = a]
  /\ UNCHANGED <<fileStatus, versions, fileCount, job, worker, faults>>

(* A unique or foreign-key violation: the request fails, the reset stays.  *)
InsertRejected(c) ==
  LET f == caller[c].file IN
  /\ caller[c].pc = "insert"
  /\ \A a \in Attempts :
       FileOf[a] = f /\ attempt[a] = NoRow => ~InsertAllowed(f, a)
  /\ caller' = [caller EXCEPT ![c] = IdleCaller]
  /\ UNCHANGED <<fileStatus, attempt, versions, fileCount, job, worker, faults>>

RenameJob(c) ==
  LET a == caller[c].attempt IN
  /\ caller[c].pc = "rename"
  /\ attempt' = IF attempt[a].status # "absent"
                THEN [attempt EXCEPT ![a].key = a] ELSE attempt
  /\ caller' = [caller EXCEPT ![c] = [IdleCaller EXCEPT
                  !.pc = "dispatch", !.attempt = a]]
  /\ UNCHANGED <<fileStatus, versions, fileCount, job, worker, faults>>

(* deleteFile: the request reads the row and its subject first ...         *)
FindToDelete(c, f) ==
  /\ "delete" \in Requests
  /\ caller[c].pc = "idle"
  /\ FileExists(f)
  /\ caller' = [caller EXCEPT ![c] = [IdleCaller EXCEPT !.pc = "delete",
                                                        !.file = f]]
  /\ UNCHANGED <<fileStatus, attempt, versions, fileCount, job, worker, faults>>

(* ... then the row goes, with its attempts and versions by cascade, and   *)
(* the subject is counted down whether or not a row was there to delete.   *)
DeleteFile(c) ==
  LET f == caller[c].file IN
  /\ caller[c].pc = "delete"
  /\ fileStatus' = [fileStatus EXCEPT ![f] = "deleted"]
  /\ attempt' = [a \in Attempts |-> IF FileOf[a] = f THEN NoRow ELSE attempt[a]]
  /\ versions' = [versions EXCEPT ![f] = <<>>]
  /\ caller' = [caller EXCEPT ![c] = IF f \in InSubject
                  THEN [IdleCaller EXCEPT !.pc = "uncount", !.file = f]
                  ELSE IdleCaller]
  /\ UNCHANGED <<fileCount, job, worker, faults>>

(* Mutant of UncountFile: the decrement without GREATEST(0, ...).          *)
UncountUnfloored(c) ==
  /\ caller[c].pc = "uncount"
  /\ fileCount' = 0 - 1 + fileCount
  /\ caller' = [caller EXCEPT ![c] = IdleCaller]
  /\ UNCHANGED <<fileStatus, attempt, versions, job, worker, faults>>

UncountFile(c) ==
  /\ caller[c].pc = "uncount"
  /\ fileCount' = IF fileCount = 0 THEN 0 ELSE fileCount - 1
  /\ caller' = [caller EXCEPT ![c] = IdleCaller]
  /\ UNCHANGED <<fileStatus, attempt, versions, job, worker, faults>>

(* The API process dies, or its database connection fails: the call chain  *)
(* stops where it is.                                                      *)
CallerDies(c) ==
  /\ caller[c].pc # "idle"
  /\ Fault("crash")
  /\ caller' = [caller EXCEPT ![c] = IdleCaller]
  /\ UNCHANGED <<fileStatus, attempt, versions, fileCount, job, worker>>

-----------------------------------------------------------------------------
(* The BullMQ worker and FilesProcessor.handle.                            *)

TakeJob(w, k) ==
  /\ worker[w].pc = "idle"
  /\ job[k].state = "waiting"
  /\ job' = [job EXCEPT ![k].state = "active", ![k].holder = w]
  /\ worker' = [worker EXCEPT ![w] = [IdleWorker EXCEPT
       !.pc = "claim", !.key = k, !.attempt = job[k].attempt]]
  /\ UNCHANGED <<fileStatus, attempt, versions, fileCount, caller, faults>>

(* Mutant of Claimable: the claim is not conditional on queued.            *)
ClaimableInAnyStatus(w) ==
  attempt[worker[w].attempt].status # "absent"

(* The atomic claim queued -> processing; the new count of processing      *)
(* attempts is the worker's fencing token.                                 *)
Claimable(w) ==
  LET row == attempt[worker[w].attempt] IN
  row.status = "queued" /\ row.key = worker[w].key

(* Bounded: an attempt whose lease keeps expiring is claimed MaxGen times. *)
ClaimAttempt(w) ==
  LET a == worker[w].attempt  gen == attempt[a].gen + 1 IN
  /\ worker[w].pc = "claim"
  /\ Claimable(w)
  /\ gen <= MaxGen
  /\ attempt' = [attempt EXCEPT ![a].status = "processing", ![a].gen = gen]
  /\ worker' = [worker EXCEPT
       ![w].gen = gen,
       ![w].pc = IF gen > MaxRetries THEN "exhausted" ELSE "begin"]
  /\ UNCHANGED <<fileStatus, versions, fileCount, job, caller, faults>>

ClaimRefused(w) ==
  /\ worker[w].pc = "claim"
  /\ ~Claimable(w)
  /\ worker' = [worker EXCEPT ![w].pc = "finish"]
  /\ UNCHANGED <<fileStatus, attempt, versions, fileCount, job, caller, faults>>

(* files: pending -> processing, then the file row is fetched; a missing   *)
(* row is a non-retryable failure.                                         *)
BeginPipeline(w) ==
  LET f == FileOf[worker[w].attempt] IN
  /\ worker[w].pc = "begin"
  /\ fileStatus' = [fileStatus EXCEPT ![f] =
                      IF @ = "pending" THEN "processing" ELSE @]
  /\ worker' = [worker EXCEPT ![w].pc =
                  IF FileExists(f) THEN "pipeline" ELSE "fail"]
  /\ UNCHANGED <<attempt, versions, fileCount, job, caller, faults>>

(* handleFailure: RetryPolicy.calculate decides where the worker goes.     *)
FailurePc(w, retryable) ==
  IF retryable /\ worker[w].gen < MaxRetries THEN "retry" ELSE "fail"

(* The pipeline throws, or times out; or publish throws before it commits. *)
PipelineThrows(w) ==
  /\ worker[w].pc = "pipeline"
  /\ \E retryable \in BOOLEAN :
       worker' = [worker EXCEPT ![w].pc = FailurePc(w, retryable)]
  /\ UNCHANGED <<fileStatus, attempt, versions, fileCount, job, caller, faults>>

(* Mutant of HoldsToken: the generation is not compared.                   *)
HoldsStatusOnly(w) == attempt[worker[w].attempt].status = "processing"

(* The token is current: this generation is the one processing.            *)
HoldsToken(w) ==
  LET row == attempt[worker[w].attempt] IN
  row.status = "processing" /\ row.gen = worker[w].gen

(* Mutant of PublishTransaction: neither the idempotency check nor the     *)
(* unique index on attempt_id.                                             *)
PublishTwice(w) ==
  LET a == worker[w].attempt  f == FileOf[a] IN
  /\ FileExists(f)
  /\ HoldsToken(w)
  /\ versions' = [versions EXCEPT ![f] = Append(@, a)]
  /\ attempt' = [attempt EXCEPT ![a].status = "completed"]
  /\ fileStatus' = [fileStatus EXCEPT ![f] = "completed"]

(* DocumentPersistenceService.publish, one transaction under a lock on the *)
(* file row: version, AST, chunks, attempt and file together.              *)
PublishTransaction(w) ==
  LET a == worker[w].attempt  f == FileOf[a] IN
  /\ FileExists(f)
  /\ ~Published(a)
  /\ HoldsToken(w)
  /\ versions' = [versions EXCEPT ![f] = Append(@, a)]
  /\ attempt' = [attempt EXCEPT ![a].status = "completed"]
  /\ fileStatus' = [fileStatus EXCEPT ![f] = "completed"]

AfterPublish(w) ==
  IF FileOf[worker[w].attempt] \in InSubject THEN "count" ELSE "finish"

Publish(w) ==
  /\ worker[w].pc = "pipeline"
  /\ PublishTransaction(w)
  /\ worker' = [worker EXCEPT ![w].pc = AfterPublish(w)]
  /\ UNCHANGED <<fileCount, job, caller, faults>>

(* The commit succeeds but its acknowledgement is lost: publish throws.    *)
PublishUnacknowledged(w) ==
  /\ worker[w].pc = "pipeline"
  /\ Fault("ack")
  /\ PublishTransaction(w)
  /\ worker' = [worker EXCEPT ![w].pc = FailurePc(w, TRUE)]
  /\ UNCHANGED <<fileCount, job, caller>>

(* The transaction finds it must not publish: the file is gone (an error), *)
(* the attempt already has a version (success, and nothing is written), or *)
(* the token is stale (a clean exit).                                      *)
PublishRefused(w) ==
  LET a == worker[w].attempt IN
  /\ worker[w].pc = "pipeline"
  /\ \/ /\ ~FileExists(FileOf[a])
        /\ worker' = [worker EXCEPT ![w].pc = "fail"]
     \/ /\ FileExists(FileOf[a]) /\ Published(a)
        /\ worker' = [worker EXCEPT ![w].pc = AfterPublish(w)]
     \/ /\ FileExists(FileOf[a]) /\ ~Published(a) /\ ~HoldsToken(w)
        /\ worker' = [worker EXCEPT ![w].pc = "finish"]
  /\ UNCHANGED <<fileStatus, attempt, versions, fileCount, job, caller, faults>>

(* subjects.file_count + 1, a statement of its own after the commit.       *)
CountFile(w) ==
  /\ worker[w].pc = "count"
  /\ fileCount' = fileCount + 1
  /\ worker' = [worker EXCEPT ![w].pc = "finish"]
  /\ UNCHANGED <<fileStatus, attempt, versions, job, caller, faults>>

(* file_count throws, counted or not: the published attempt goes through   *)
(* handleFailure.                                                          *)
CountThrows(w) ==
  /\ worker[w].pc = "count"
  /\ Fault("ack")
  /\ fileCount' \in {fileCount, fileCount + 1}
  /\ \E retryable \in BOOLEAN :
       worker' = [worker EXCEPT ![w].pc = FailurePc(w, retryable)]
  /\ UNCHANGED <<fileStatus, attempt, versions, job, caller>>

(* handleFailure, retry branch: the update is keyed by ids and by status   *)
(* processing, not by the generation.                                      *)
RecordRetry(w) ==
  LET a == worker[w].attempt IN
  /\ worker[w].pc = "retry"
  /\ attempt' = IF attempt[a].key = worker[w].key
                THEN Moved(a, "processing", "retrying") ELSE attempt
  /\ worker' = [worker EXCEPT ![w].pc = "finish"]
  /\ UNCHANGED <<fileStatus, versions, fileCount, job, caller, faults>>

(* Mutant of RecordFailure: no cascade to the file row.                    *)
RecordFailureOfAttemptOnly(w) ==
  LET a == worker[w].attempt IN
  /\ worker[w].pc \in {"fail", "exhausted"}
  /\ attempt' = IF HoldsToken(w)
                THEN [attempt EXCEPT ![a].status = "failed"] ELSE attempt
  /\ worker' = [worker EXCEPT ![w].pc = "finish"]
  /\ UNCHANGED <<fileStatus, versions, fileCount, job, caller, faults>>

(* FileProcessingStateRepository.transitionToTerminal(..., 'failed'), from *)
(* handleFailure and from the guard on repeated crashes; a lost token is   *)
(* swallowed.                                                              *)
RecordFailure(w) ==
  LET a == worker[w].attempt IN
  /\ worker[w].pc \in {"fail", "exhausted"}
  /\ IF HoldsToken(w)
     THEN /\ attempt' = [attempt EXCEPT ![a].status = "failed"]
          /\ fileStatus' = [fileStatus EXCEPT ![FileOf[a]] = "failed"]
     ELSE UNCHANGED <<attempt, fileStatus>>
  /\ worker' = [worker EXCEPT ![w].pc = "finish"]
  /\ UNCHANGED <<versions, fileCount, job, caller, faults>>

(* The handler returned: BullMQ removes the job, if this execution still   *)
(* holds its lock.                                                         *)
HoldsLock(w) ==
  job[worker[w].key].state = "active" /\ job[worker[w].key].holder = w

(* Mutant of FinishJob: removeOnComplete = false keeps the finished job.   *)
FinishKeepingJob(w) ==
  /\ worker[w].pc = "finish"
  /\ job' = IF HoldsLock(w)
            THEN [job EXCEPT ![worker[w].key].state = "failed"] ELSE job
  /\ worker' = [worker EXCEPT ![w] = IdleWorker]
  /\ UNCHANGED <<fileStatus, attempt, versions, fileCount, caller, faults>>

FinishJob(w) ==
  /\ worker[w].pc = "finish"
  /\ job' = IF HoldsLock(w) THEN [job EXCEPT ![worker[w].key] = NoJob] ELSE job
  /\ worker' = [worker EXCEPT ![w] = IdleWorker]
  /\ UNCHANGED <<fileStatus, attempt, versions, fileCount, caller, faults>>

(* A statement outside the handler's try blocks throws (the adapter's      *)
(* lease and runtime rows, the claim, the file update, a failure record):  *)
(* with attempts = 1 and removeOnFail = false the job is kept as failed.   *)
HandlerThrows(w) ==
  /\ worker[w].pc \in {"claim", "exhausted", "begin", "retry", "fail", "finish"}
  /\ Fault("throw")
  /\ job' = IF HoldsLock(w)
            THEN [job EXCEPT ![worker[w].key].state = "failed"] ELSE job
  /\ worker' = [worker EXCEPT ![w] = IdleWorker]
  /\ UNCHANGED <<fileStatus, attempt, versions, fileCount, caller>>

WorkerDies(w) ==
  /\ worker[w].pc # "idle"
  /\ Fault("worker")
  /\ worker' = [worker EXCEPT ![w] = IdleWorker]
  /\ UNCHANGED <<fileStatus, attempt, versions, fileCount, job, caller>>

(* BullMQ's stalled-job check: a job whose lock was not renewed goes back  *)
(* to waiting once (maxStalledCount = 1), and then to failed.              *)
ReclaimStalled(k) ==
  job' = [job EXCEPT ![k].state = IF @ = "active" /\ job[k].stalled
                                  THEN "failed" ELSE "waiting",
                     ![k].stalled = TRUE,
                     ![k].holder = None]

StallDead(k) ==
  /\ job[k].state = "active"
  /\ worker[job[k].holder].key # k
  /\ ReclaimStalled(k)
  /\ UNCHANGED <<fileStatus, attempt, versions, fileCount, worker, caller, faults>>

(* The event loop is blocked for a lock period: the holder lives on.       *)
StallAlive(k) ==
  /\ job[k].state = "active"
  /\ worker[job[k].holder].key = k
  /\ Fault("stall")
  /\ ReclaimStalled(k)
  /\ UNCHANGED <<fileStatus, attempt, versions, fileCount, worker, caller>>

-----------------------------------------------------------------------------
CallerStep(c) ==
  \/ Dispatch(c) \/ MarkQueued(c) \/ Enqueue(c) \/ RollBackDispatch(c)
  \/ GiveUpExpired(c) \/ RequeueExpired(c)
  \/ InsertAttempt(c) \/ InsertRejected(c) \/ RenameJob(c)
  \/ DeleteFile(c) \/ UncountFile(c)

Request(c) ==
  \/ \E a \in Attempts : Upload(c, a)
  \/ \E f \in Files : ResetFile(c, f) \/ FindToDelete(c, f)

WorkerStep(w) ==
  \/ ClaimAttempt(w) \/ ClaimRefused(w) \/ BeginPipeline(w)
  \/ PipelineThrows(w) \/ Publish(w) \/ PublishRefused(w) \/ CountFile(w)
  \/ RecordRetry(w) \/ RecordFailure(w) \/ FinishJob(w)

Faulty ==
  \/ \E c \in Callers : DispatchThrows(c) \/ EnqueueThrows(c) \/ CallerDies(c)
  \/ \E w \in Workers : \/ PublishUnacknowledged(w) \/ CountThrows(w)
                        \/ HandlerThrows(w) \/ WorkerDies(w)
  \/ \E k \in JobKeys : StallAlive(k)

Next ==
  \/ \E c \in Callers : CallerStep(c) \/ Request(c)
  \/ \E c \in Callers, a \in Attempts : SweepPending(c, a) \/ ReadExpired(c, a)
  \/ \E a \in Attempts : RequeueRetrying(a) \/ RequeueQueued(a) \/ RequeueProcessing(a)
  \/ \E w \in Workers : WorkerStep(w) \/ \E k \in JobKeys : TakeJob(w, k)
  \/ \E k \in JobKeys : StallDead(k)
  \/ Faulty

Spec == Init /\ [][Next]_vars

(***************************************************************************)
(* Fairness.  Started work runs to its end (the Node event loop and the    *)
(* database serve every call), crons fire every minute on call chains of   *)
(* their own whatever the requests do, and BullMQ serves waiting jobs in   *)
(* order.  Requests and faults are never forced.                           *)
(***************************************************************************)
Fairness ==
  /\ \A c \in Callers : WF_vars(CallerStep(c))
  /\ \A w \in Workers : WF_vars(WorkerStep(w))
  /\ \A k \in JobKeys : /\ WF_vars(StallDead(k))
                        /\ SF_vars(\E w \in Workers : TakeJob(w, k))
  /\ \A a \in Attempts : /\ WF_vars(RequeueRetrying(a))
                         /\ WF_vars(RequeueQueued(a))
                         /\ WF_vars(RequeueProcessing(a))
                         /\ SF_vars(\E c \in Callers : SweepPending(c, a))
                         /\ SF_vars(\E c \in Callers : ReadExpired(c, a))

FairSpec == Spec /\ Fairness

-----------------------------------------------------------------------------
(* Safety.                                                                 *)

(* A worker that claimed its attempt carries a fencing token.              *)
HasClaimed(w) == worker[w].gen > 0

(* The claim in files.processor.ts hands out fencing tokens: two worker    *)
(* executions never carry the same generation of one attempt, and none     *)
(* carries a generation the attempt row has not reached, however often the *)
(* attempt was requeued, redelivered or resurrected.                       *)
FencingTokens ==
  \A w \in Workers : HasClaimed(w) =>
    LET a == worker[w].attempt IN
    /\ FileExists(FileOf[a]) => worker[w].gen <= attempt[a].gen
    /\ \A v \in Workers \ {w} :
         HasClaimed(v) /\ worker[v].attempt = a => worker[v].gen # worker[w].gen

(* A file never has two attempts under way: neither reprocessing, nor any  *)
(* reconciler requeue, brings a second one to life.                        *)
OneActiveAttempt ==
  \A a, b \in Attempts :
    a # b /\ FileOf[a] = FileOf[b] =>
      \/ attempt[a].status \in TerminalStatuses \cup {"absent"}
      \/ attempt[b].status \in TerminalStatuses \cup {"absent"}

(* The published history is sound: an attempt has at most one version      *)
(* whatever redelivery or resurrection does, a completed attempt has its   *)
(* version, and a file shown as completed has a document to open.          *)
PublicationConsistent ==
  /\ \A f \in Files : \A m, n \in DOMAIN versions[f] :
       versions[f][m] = versions[f][n] => m = n
  /\ \A a \in Attempts : attempt[a].status = "completed" => Published(a)
  /\ \A f \in Files : fileStatus[f] = "completed" => versions[f] # <<>>

(* A file that is waiting for its document (pending, processing) has       *)
(* somebody who will settle it: an active attempt, or a reprocess request  *)
(* that still has to insert one.  It needs two assumptions.  The API does  *)
(* not die inside reprocessFile (fault crash).  And the sweeps' grace      *)
(* period outlasts a request: while an attempt still has the job id made   *)
(* from the file id, the insert of another reprocess request is refused    *)
(* after its reset, and that file waits for nobody if the attempt is done. *)
WaitingFileIsOwned ==
  \A f \in Files : fileStatus[f] \in {"pending", "processing"} =>
    \/ \E a \in Attempts : FileOf[a] = f /\ Active(a)
    \/ \E c \in Callers : caller[c].pc = "insert" /\ caller[c].file = f

(* A file is only failed by its own current attempt: at the step that      *)
(* marks it failed no other attempt of the file is under way, so a stale   *)
(* worker of an old attempt never fails a reprocessed file.                *)
OldAttemptNeverFailsFile ==
  [][\A f \in Files :
       fileStatus[f] # "failed" /\ fileStatus'[f] = "failed" =>
         \A a \in Attempts : FileOf[a] = f => attempt'[a].status \notin ActiveStatuses]_vars

(* The history of a file only grows, one version at a time, and each       *)
(* version is committed by the worker that carries the newest token of the *)
(* attempt; only deleting the file takes versions away.                    *)
NewestWorkerPublishes ==
  [][\A f \in Files : versions'[f] # versions[f] /\ fileStatus'[f] # "deleted" =>
       \E w \in Workers :
         LET a == worker[w].attempt IN
         /\ worker'[w] # worker[w]
         /\ versions'[f] = Append(versions[f], a)
         /\ \A v \in Workers \ {w} :
              HasClaimed(v) /\ worker[v].attempt = a => worker[v].gen < worker[w].gen]_vars

(* The pipeline implements the fenced worker protocol: an attempt is held  *)
(* while it is processing, its token is processing_attempts, and its       *)
(* result is its document version.                                         *)
Fenced == INSTANCE FencedWork WITH
  Items <- Attempts,
  Preemptive <- FALSE,
  token <- [a \in Attempts |-> attempt[a].gen],
  held <- [a \in Attempts |-> attempt[a].status = "processing"],
  done <- [a \in Attempts |-> Published(a)]

(* Every step of the dispatcher, the reconciler, the requests and the      *)
(* workers is a claim, a release, a commit or a removal of FencedWork, or  *)
(* leaves the protocol alone.                                              *)
ImplementsFencedWork == Fenced!Spec

-----------------------------------------------------------------------------
(* Statements of the repository that the code does not keep.               *)

(* file-processing-state.repository.ts:11 calls completed, failed and      *)
(* enqueue_failed terminal: an attempt that reached one stays there.       *)
TerminalIsFinal ==
  [][\A a \in Attempts : attempt[a].status \in TerminalStatuses =>
       attempt'[a].status \in {attempt[a].status, "absent"}]_vars

(* files.processor.stale-worker.spec.ts:10: a worker that lost its token   *)
(* does not record a failure, so it never takes processing away from the   *)
(* worker that holds the token.                                            *)
StaleWorkerIsHarmless ==
  [][\A w \in Workers, a \in Attempts :
       /\ worker[w].attempt = a /\ HasClaimed(w) /\ worker[w].gen < attempt[a].gen
       /\ worker'[w] # worker[w]
       => attempt'[a] = attempt[a]]_vars

(* sre.validation.integration.spec.ts:179 expects no infinite retries:     *)
(* an attempt that was inserted is some day terminal, or deleted.          *)
AttemptTerminates ==
  \A a \in Attempts : Active(a) ~> ~Active(a)

(* Every file waiting for its document is some day completed, failed or    *)
(* deleted.                                                                *)
WaitingFileSettles ==
  \A f \in Files : fileStatus[f] \in {"pending", "processing"} ~>
                   fileStatus[f] \notin {"pending", "processing"}

=============================================================================
