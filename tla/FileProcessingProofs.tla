------------------------ MODULE FileProcessingProofs ------------------------
(***************************************************************************)
(* Proofs about FileProcessing, for every number of files, attempts,       *)
(* workers and callers and every bound.                                    *)
(***************************************************************************)
EXTENDS FileProcessing, TLAPS

-----------------------------------------------------------------------------
(* Typing.  TypeOK is not inductive: a call chain or a worker that is at   *)
(* work must name a real attempt, or the row it reads is not a row.        *)

RowsTyped ==
  /\ fileStatus \in [Files -> {"absent", "pending", "processing",
                               "completed", "failed", "deleted"}]
  /\ attempt \in [Attempts -> AttemptRow]
  /\ versions \in [Files -> Seq(Attempts)]
  /\ fileCount \in Nat
  /\ faults \in Nat

CallersTyped ==
  /\ caller \in [Callers -> CallerRecord]
  /\ \A c \in Callers :
       caller[c].pc \in {"dispatch", "claimed", "enqueue", "rollback", "expired", "rename"}
         => caller[c].attempt \in Attempts

JobsTyped ==
  /\ job \in [JobKeys -> JobRecord]
  /\ \A k \in JobKeys : job[k].state # "none" => job[k].attempt \in Attempts

WorkersTyped ==
  /\ worker \in [Workers -> WorkerRecord]
  /\ \A w \in Workers :
       worker[w].pc # "idle" \/ worker[w].gen > 0 => worker[w].attempt \in Attempts

TypeInv == RowsTyped /\ CallersTyped /\ JobsTyped /\ WorkersTyped

(* The initial state is well typed.                                        *)
LEMMA TypeInit == Init => TypeInv
  BY DEF Init, TypeInv, RowsTyped, CallersTyped, JobsTyped, WorkersTyped,
         AttemptRow, NoRow, JobRecord, NoJob, WorkerRecord, IdleWorker,
         CallerRecord, IdleCaller

(* A row whose status is set, as every conditional update of the           *)
(* dispatcher, the reconciler and the worker does, is still a row.         *)
LEMMA StatusTyped ==
  ASSUME NEW t \in [Attempts -> AttemptRow], NEW a,
         NEW s \in ActiveStatuses \cup TerminalStatuses
  PROVE  [t EXCEPT ![a].status = s] \in [Attempts -> AttemptRow]
  BY DEF AttemptRow

(* Whether or not the conditional update matched.                          *)
LEMMA MovedTyped ==
  ASSUME attempt \in [Attempts -> AttemptRow], NEW a, NEW from,
         NEW to \in ActiveStatuses \cup TerminalStatuses
  PROVE  Moved(a, from, to) \in [Attempts -> AttemptRow]
  BY StatusTyped DEF Moved

(* So is one whose dispatch_attempts is written as well, as the reconciler *)
(* does for an expired dispatch lease.                                     *)
LEMMA RequeueTyped ==
  ASSUME NEW t \in [Attempts -> AttemptRow], NEW a,
         NEW s \in ActiveStatuses \cup TerminalStatuses, NEW n \in Nat
  PROVE  [t EXCEPT ![a].status = s, ![a].dispatches = n] \in [Attempts -> AttemptRow]
  BY DEF AttemptRow

(* So is one that a worker claims: processing, under a new generation.     *)
LEMMA ClaimTyped ==
  ASSUME NEW t \in [Attempts -> AttemptRow], NEW a, NEW n \in Nat
  PROVE  [t EXCEPT ![a].status = "processing", ![a].gen = n] \in [Attempts -> AttemptRow]
  BY DEF AttemptRow, ActiveStatuses

(* So is one whose queue_job_id reprocessFile renames.                     *)
LEMMA KeyTyped ==
  ASSUME NEW t \in [Attempts -> AttemptRow], NEW a, NEW k \in JobKeys
  PROVE  [t EXCEPT ![a].key = k] \in [Attempts -> AttemptRow]
  BY DEF AttemptRow

(* A row that is inserted is a row.                                        *)
LEMMA NewRowTyped ==
  ASSUME NEW t \in [Attempts -> AttemptRow], NEW a, NEW k \in JobKeys
  PROVE  [t EXCEPT ![a] = [NoRow EXCEPT !.status = "enqueue_pending", !.key = k]]
           \in [Attempts -> AttemptRow]
  BY DEF AttemptRow, NoRow, ActiveStatuses

(* Publishing a version extends the history of the file by an attempt.     *)
LEMMA HistoryTyped ==
  ASSUME NEW h \in [Files -> Seq(Attempts)], NEW f \in Files, NEW a \in Attempts
  PROVE  [h EXCEPT ![f] = Append(@, a)] \in [Files -> Seq(Attempts)]
  OBVIOUS

(* queue.add leaves the queue typed: a new job carries a real attempt.     *)
LEMMA AddJobTyped ==
  ASSUME JobsTyped, NEW k, NEW a \in Attempts, job' = AddJob(k, a)
  PROVE  JobsTyped'
  BY DEF JobsTyped, AddJob, JobRecord, NoJob

(* The dispatch count the reconciler writes is a number.                   *)
LEMMA SeenIsNat ==
  ASSUME CallersTyped, NEW c \in Callers
  PROVE  caller[c].seen + 1 \in Nat
  BY DEF CallersTyped, CallerRecord

(* The generation a claim hands out is a number.                           *)
LEMMA GenIsNat ==
  ASSUME RowsTyped, NEW a \in Attempts
  PROVE  attempt[a].gen + 1 \in Nat
  BY DEF RowsTyped, AttemptRow

(* A deleted row has the type of a row.                                    *)
LEMMA NoRowTyped == NoRow \in AttemptRow
  BY DEF NoRow, AttemptRow

(* The stalled-job check changes no job's attempt.                         *)
LEMMA ReclaimTyped ==
  ASSUME JobsTyped, NEW k \in JobKeys, job[k].state = "active", ReclaimStalled(k)
  PROVE  JobsTyped'
  <1> DEFINE s == IF job[k].state = "active" /\ job[k].stalled THEN "failed" ELSE "waiting"
  <1>1. s \in {"failed", "waiting"}
    OBVIOUS
  <1>2. job' = [job EXCEPT ![k].state = s, ![k].stalled = TRUE, ![k].holder = None]
    BY DEF ReclaimStalled
  <1> HIDE DEF s
  <1>3. job' \in [JobKeys -> JobRecord]
    BY <1>1, <1>2 DEF JobsTyped, JobRecord
  <1>4. \A j \in JobKeys : job'[j].attempt = job[j].attempt
    BY <1>2 DEF JobsTyped, JobRecord
  <1>5. \A j \in JobKeys : job'[j].state # "none" => job[j].state # "none"
    BY <1>2 DEF JobsTyped, JobRecord
  <1>6. QED
    BY <1>3, <1>4, <1>5 DEF JobsTyped

(* Every step keeps the state well typed.                                  *)
LEMMA TypeStep == TypeInv /\ [Next]_vars => TypeInv'
  <1> SUFFICES ASSUME TypeInv, [Next]_vars PROVE TypeInv'
    OBVIOUS
  <1>1. ASSUME NEW c \in Callers, Dispatch(c) PROVE TypeInv'
    <2> DEFINE a == caller[c].attempt
    <2>1. a \in Attempts
      BY <1>1 DEF TypeInv, CallersTyped, Dispatch
    <2>2. RowsTyped'
      BY <1>1, MovedTyped DEF TypeInv, RowsTyped, Dispatch, ActiveStatuses
    <2>3. CallersTyped'
      <3>1. CASE attempt[a].status = "enqueue_pending"
        <4>1. attempt[a].key \in JobKeys \cup {None}
          BY <2>1 DEF TypeInv, RowsTyped, AttemptRow
        <4>2. caller' = [caller EXCEPT ![c] = [IdleCaller EXCEPT
                 !.pc = "claimed", !.attempt = a, !.key = attempt[a].key]]
          BY <1>1, <3>1 DEF Dispatch
        <4>3. QED
          BY <2>1, <4>1, <4>2 DEF TypeInv, CallersTyped, CallerRecord, IdleCaller
      <3>2. CASE attempt[a].status # "enqueue_pending"
        BY <1>1, <3>2 DEF TypeInv, CallersTyped, Dispatch, CallerRecord, IdleCaller
      <3>3. QED
        BY <3>1, <3>2
    <2>4. JobsTyped' /\ WorkersTyped'
      BY <1>1 DEF TypeInv, JobsTyped, WorkersTyped, Dispatch
    <2>5. QED
      BY <2>2, <2>3, <2>4 DEF TypeInv
  <1>2. ASSUME NEW c \in Callers, MarkQueued(c) PROVE TypeInv'
    <2>1. RowsTyped'
      <3>1. \/ attempt' = attempt
            \/ attempt' = Moved(caller[c].attempt, "dispatching", "queued")
        BY <1>2 DEF MarkQueued
      <3>2. attempt' \in [Attempts -> AttemptRow]
        BY <3>1, MovedTyped DEF TypeInv, RowsTyped, ActiveStatuses
      <3>3. QED
        BY <1>2, <3>2 DEF TypeInv, RowsTyped, MarkQueued
    <2>2. CallersTyped'
      BY <1>2 DEF TypeInv, CallersTyped, MarkQueued, CallerRecord, IdleCaller
    <2>3. JobsTyped' /\ WorkersTyped'
      BY <1>2 DEF TypeInv, JobsTyped, WorkersTyped, MarkQueued
    <2>4. QED
      BY <2>1, <2>2, <2>3 DEF TypeInv
  <1>3. ASSUME NEW c \in Callers, Enqueue(c) PROVE TypeInv'
    <2>1. CallersTyped'
      BY <1>3 DEF TypeInv, CallersTyped, Enqueue, CallerRecord, IdleCaller
    <2>2. JobsTyped'
      BY <1>3, AddJobTyped DEF TypeInv, JobsTyped, Enqueue, CallersTyped
    <2>3. RowsTyped' /\ WorkersTyped'
      BY <1>3 DEF TypeInv, RowsTyped, WorkersTyped, Enqueue
    <2>4. QED
      BY <2>1, <2>2, <2>3 DEF TypeInv
  <1>4. ASSUME NEW c \in Callers, EnqueueThrows(c) PROVE TypeInv'
    <2>1. RowsTyped'
      BY <1>4 DEF TypeInv, RowsTyped, EnqueueThrows, Fault
    <2>2. CallersTyped'
      BY <1>4 DEF TypeInv, CallersTyped, EnqueueThrows, CallerRecord
    <2>3. JobsTyped'
      BY <1>4, AddJobTyped DEF TypeInv, JobsTyped, EnqueueThrows, CallersTyped
    <2>4. WorkersTyped'
      BY <1>4 DEF TypeInv, WorkersTyped, EnqueueThrows
    <2>5. QED
      BY <2>1, <2>2, <2>3, <2>4 DEF TypeInv
  <1>5. ASSUME NEW c \in Callers, RollBackDispatch(c) PROVE TypeInv'
    <2>1. RowsTyped'
      BY <1>5, MovedTyped DEF TypeInv, RowsTyped, RollBackDispatch, ActiveStatuses
    <2>2. CallersTyped'
      BY <1>5 DEF TypeInv, CallersTyped, RollBackDispatch, CallerRecord, IdleCaller
    <2>3. JobsTyped' /\ WorkersTyped'
      BY <1>5 DEF TypeInv, JobsTyped, WorkersTyped, RollBackDispatch
    <2>4. QED
      BY <2>1, <2>2, <2>3 DEF TypeInv
  <1>6. ASSUME NEW c \in Callers, GiveUpExpired(c) PROVE TypeInv'
    <2>1. RowsTyped'
      <3>1. CASE attempt[caller[c].attempt].status = "dispatching"
        <4>1. attempt' = [attempt EXCEPT
                 ![caller[c].attempt].status = "enqueue_failed",
                 ![caller[c].attempt].dispatches = caller[c].seen + 1]
          BY <1>6, <3>1 DEF GiveUpExpired
        <4>2. attempt' \in [Attempts -> AttemptRow]
          BY <4>1, RequeueTyped, SeenIsNat DEF TypeInv, RowsTyped, TerminalStatuses
        <4>3. QED
          BY <1>6, <3>1, <4>2 DEF TypeInv, RowsTyped, GiveUpExpired
      <3>2. CASE attempt[caller[c].attempt].status # "dispatching"
        BY <1>6, <3>2 DEF TypeInv, RowsTyped, GiveUpExpired
      <3>3. QED
        BY <3>1, <3>2
    <2>2. CallersTyped'
      BY <1>6 DEF TypeInv, CallersTyped, GiveUpExpired, CallerRecord, IdleCaller
    <2>3. JobsTyped' /\ WorkersTyped'
      BY <1>6 DEF TypeInv, JobsTyped, WorkersTyped, GiveUpExpired
    <2>4. QED
      BY <2>1, <2>2, <2>3 DEF TypeInv
  <1>7. ASSUME NEW c \in Callers, RequeueExpired(c) PROVE TypeInv'
    <2>1. RowsTyped'
      <3> DEFINE a == caller[c].attempt
      <3>1. CASE attempt[a].status # "absent" /\ ActiveIndexAllows(a)
        <4>1. attempt' = [attempt EXCEPT ![a].status = "enqueue_pending",
                                         ![a].dispatches = caller[c].seen + 1]
          BY <1>7, <3>1 DEF RequeueExpired
        <4>2. attempt' \in [Attempts -> AttemptRow]
          BY <4>1, RequeueTyped, SeenIsNat DEF TypeInv, RowsTyped, ActiveStatuses
        <4>3. QED
          BY <1>7, <4>2 DEF TypeInv, RowsTyped, RequeueExpired
      <3>2. CASE ~(attempt[a].status # "absent" /\ ActiveIndexAllows(a))
        BY <1>7, <3>2 DEF TypeInv, RowsTyped, RequeueExpired
      <3>3. QED
        BY <3>1, <3>2
    <2>2. CallersTyped'
      BY <1>7 DEF TypeInv, CallersTyped, RequeueExpired, CallerRecord, IdleCaller
    <2>3. JobsTyped' /\ WorkersTyped'
      BY <1>7 DEF TypeInv, JobsTyped, WorkersTyped, RequeueExpired
    <2>4. QED
      BY <2>1, <2>2, <2>3 DEF TypeInv
  <1>8. ASSUME NEW c \in Callers, InsertAttempt(c) PROVE TypeInv'
    <2> DEFINE f == caller[c].file
    <2>1. PICK a \in Attempts :
            /\ FileOf[a] = f
            /\ attempt' = [attempt EXCEPT ![a] = [NoRow EXCEPT
                             !.status = "enqueue_pending", !.key = f]]
            /\ caller' = [caller EXCEPT ![c].pc = "rename", ![c].attempt = a]
      BY <1>8 DEF InsertAttempt
    <2>2. f \in JobKeys
      BY <2>1, IdAssumption DEF JobKeys
    <2>3. RowsTyped'
      BY <1>8, <2>1, <2>2, NewRowTyped DEF TypeInv, RowsTyped, InsertAttempt
    <2>4. CallersTyped'
      BY <2>1 DEF TypeInv, CallersTyped, CallerRecord
    <2>5. JobsTyped' /\ WorkersTyped'
      BY <1>8 DEF TypeInv, JobsTyped, WorkersTyped, InsertAttempt
    <2>6. QED
      BY <2>3, <2>4, <2>5 DEF TypeInv
  <1>9. ASSUME NEW c \in Callers, InsertRejected(c) PROVE TypeInv'
    <2>1. CallersTyped'
      BY <1>9 DEF TypeInv, CallersTyped, InsertRejected, CallerRecord, IdleCaller
    <2>2. RowsTyped' /\ JobsTyped' /\ WorkersTyped'
      BY <1>9 DEF TypeInv, RowsTyped, JobsTyped, WorkersTyped, InsertRejected
    <2>3. QED
      BY <2>1, <2>2 DEF TypeInv
  <1>10. ASSUME NEW c \in Callers, RenameJob(c) PROVE TypeInv'
    <2>1. RowsTyped'
      BY <1>10, KeyTyped DEF TypeInv, RowsTyped, RenameJob, CallersTyped, JobKeys
    <2>2. CallersTyped'
      BY <1>10 DEF TypeInv, CallersTyped, RenameJob, CallerRecord, IdleCaller
    <2>3. JobsTyped' /\ WorkersTyped'
      BY <1>10 DEF TypeInv, JobsTyped, WorkersTyped, RenameJob
    <2>4. QED
      BY <2>1, <2>2, <2>3 DEF TypeInv
  <1>11. ASSUME NEW c \in Callers, DeleteFile(c) PROVE TypeInv'
    <2>1. RowsTyped'
      <3>1. attempt' \in [Attempts -> AttemptRow]
        BY <1>11, NoRowTyped DEF TypeInv, RowsTyped, DeleteFile
      <3>2. versions' \in [Files -> Seq(Attempts)]
        <4>1. << >> \in Seq(Attempts)
          OBVIOUS
        <4>2. versions' = [versions EXCEPT ![caller[c].file] = << >>]
          BY <1>11 DEF DeleteFile
        <4>3. QED
          BY <4>1, <4>2 DEF TypeInv, RowsTyped
      <3>3. QED
        BY <1>11, <3>1, <3>2 DEF TypeInv, RowsTyped, DeleteFile
    <2>2. CallersTyped'
      BY <1>11 DEF TypeInv, CallersTyped, DeleteFile, CallerRecord, IdleCaller
    <2>3. JobsTyped' /\ WorkersTyped'
      BY <1>11 DEF TypeInv, JobsTyped, WorkersTyped, DeleteFile
    <2>4. QED
      BY <2>1, <2>2, <2>3 DEF TypeInv
  <1>12. ASSUME NEW c \in Callers, UncountFile(c) PROVE TypeInv'
    <2>1. RowsTyped'
      BY <1>12 DEF TypeInv, RowsTyped, UncountFile
    <2>2. CallersTyped'
      BY <1>12 DEF TypeInv, CallersTyped, UncountFile, CallerRecord, IdleCaller
    <2>3. JobsTyped' /\ WorkersTyped'
      BY <1>12 DEF TypeInv, JobsTyped, WorkersTyped, UncountFile
    <2>4. QED
      BY <2>1, <2>2, <2>3 DEF TypeInv
  <1>13. ASSUME NEW c \in Callers, CallerDies(c) PROVE TypeInv'
    <2>1. RowsTyped'
      BY <1>13 DEF TypeInv, RowsTyped, CallerDies, Fault
    <2>2. CallersTyped'
      BY <1>13 DEF TypeInv, CallersTyped, CallerDies, CallerRecord, IdleCaller
    <2>3. JobsTyped' /\ WorkersTyped'
      BY <1>13 DEF TypeInv, JobsTyped, WorkersTyped, CallerDies
    <2>4. QED
      BY <2>1, <2>2, <2>3 DEF TypeInv
  <1>14. ASSUME NEW c \in Callers, NEW a \in Attempts, SweepPending(c, a) PROVE TypeInv'
    <2>1. CallersTyped'
      BY <1>14 DEF TypeInv, CallersTyped, SweepPending, CallerRecord, IdleCaller
    <2>2. RowsTyped' /\ JobsTyped' /\ WorkersTyped'
      BY <1>14 DEF TypeInv, RowsTyped, JobsTyped, WorkersTyped, SweepPending
    <2>3. QED
      BY <2>1, <2>2 DEF TypeInv
  <1>15. ASSUME NEW c \in Callers, NEW a \in Attempts, ReadExpired(c, a) PROVE TypeInv'
    <2>1. CallersTyped'
      BY <1>15 DEF TypeInv, CallersTyped, ReadExpired, RowsTyped, AttemptRow, CallerRecord,
                   IdleCaller
    <2>2. RowsTyped' /\ JobsTyped' /\ WorkersTyped'
      BY <1>15 DEF TypeInv, RowsTyped, JobsTyped, WorkersTyped, ReadExpired
    <2>3. QED
      BY <2>1, <2>2 DEF TypeInv
  <1>16. ASSUME NEW c \in Callers, NEW a \in Attempts, Upload(c, a) PROVE TypeInv'
    <2>1. RowsTyped'
      BY <1>16, NewRowTyped DEF TypeInv, RowsTyped, Upload, JobKeys
    <2>2. CallersTyped'
      BY <1>16 DEF TypeInv, CallersTyped, Upload, CallerRecord, IdleCaller
    <2>3. JobsTyped' /\ WorkersTyped'
      BY <1>16 DEF TypeInv, JobsTyped, WorkersTyped, Upload
    <2>4. QED
      BY <2>1, <2>2, <2>3 DEF TypeInv
  <1>17. ASSUME NEW c \in Callers, NEW f \in Files, ResetFile(c, f) PROVE TypeInv'
    <2>1. RowsTyped'
      BY <1>17 DEF TypeInv, RowsTyped, ResetFile
    <2>2. CallersTyped'
      BY <1>17 DEF TypeInv, CallersTyped, ResetFile, CallerRecord, IdleCaller
    <2>3. JobsTyped' /\ WorkersTyped'
      BY <1>17 DEF TypeInv, JobsTyped, WorkersTyped, ResetFile
    <2>4. QED
      BY <2>1, <2>2, <2>3 DEF TypeInv
  <1>18. ASSUME NEW c \in Callers, NEW f \in Files, FindToDelete(c, f) PROVE TypeInv'
    <2>1. CallersTyped'
      BY <1>18 DEF TypeInv, CallersTyped, FindToDelete, CallerRecord, IdleCaller
    <2>2. RowsTyped' /\ JobsTyped' /\ WorkersTyped'
      BY <1>18 DEF TypeInv, RowsTyped, JobsTyped, WorkersTyped, FindToDelete
    <2>3. QED
      BY <2>1, <2>2 DEF TypeInv
  <1>19. ASSUME NEW a \in Attempts, RequeueRetrying(a) PROVE TypeInv'
    <2>1. RowsTyped'
      BY <1>19, StatusTyped DEF TypeInv, RowsTyped, RequeueRetrying, ActiveStatuses
    <2>2. CallersTyped' /\ JobsTyped' /\ WorkersTyped'
      BY <1>19 DEF TypeInv, CallersTyped, JobsTyped, WorkersTyped, RequeueRetrying
    <2>3. QED
      BY <2>1, <2>2 DEF TypeInv
  <1>20. ASSUME NEW a \in Attempts, RequeueQueued(a) PROVE TypeInv'
    <2>1. RowsTyped'
      BY <1>20, StatusTyped DEF TypeInv, RowsTyped, RequeueQueued, ActiveStatuses
    <2>2. CallersTyped' /\ JobsTyped' /\ WorkersTyped'
      BY <1>20 DEF TypeInv, CallersTyped, JobsTyped, WorkersTyped, RequeueQueued
    <2>3. QED
      BY <2>1, <2>2 DEF TypeInv
  <1>21. ASSUME NEW a \in Attempts, RequeueProcessing(a) PROVE TypeInv'
    <2>1. RowsTyped'
      BY <1>21, StatusTyped DEF TypeInv, RowsTyped, RequeueProcessing, ActiveStatuses
    <2>2. CallersTyped' /\ JobsTyped' /\ WorkersTyped'
      BY <1>21 DEF TypeInv, CallersTyped, JobsTyped, WorkersTyped, RequeueProcessing
    <2>3. QED
      BY <2>1, <2>2 DEF TypeInv
  <1>22. ASSUME NEW w \in Workers, NEW k \in JobKeys, TakeJob(w, k) PROVE TypeInv'
    <2>1. JobsTyped'
      BY <1>22 DEF TypeInv, JobsTyped, TakeJob, JobRecord
    <2>2. WorkersTyped'
      BY <1>22 DEF TypeInv, WorkersTyped, TakeJob, JobsTyped, JobRecord, WorkerRecord,
                   IdleWorker
    <2>3. RowsTyped' /\ CallersTyped'
      BY <1>22 DEF TypeInv, RowsTyped, CallersTyped, TakeJob
    <2>4. QED
      BY <2>1, <2>2, <2>3 DEF TypeInv
  <1>23. ASSUME NEW w \in Workers, ClaimAttempt(w) PROVE TypeInv'
    <2>1. RowsTyped'
      BY <1>23, ClaimTyped, GenIsNat DEF TypeInv, RowsTyped, ClaimAttempt, WorkersTyped
    <2>2. WorkersTyped'
      BY <1>23, GenIsNat DEF TypeInv, WorkersTyped, ClaimAttempt, WorkerRecord
    <2>3. CallersTyped' /\ JobsTyped'
      BY <1>23 DEF TypeInv, CallersTyped, JobsTyped, ClaimAttempt
    <2>4. QED
      BY <2>1, <2>2, <2>3 DEF TypeInv
  <1>24. ASSUME NEW w \in Workers, ClaimRefused(w) PROVE TypeInv'
    <2>1. WorkersTyped'
      BY <1>24 DEF TypeInv, WorkersTyped, ClaimRefused, WorkerRecord
    <2>2. RowsTyped' /\ CallersTyped' /\ JobsTyped'
      BY <1>24 DEF TypeInv, RowsTyped, CallersTyped, JobsTyped, ClaimRefused
    <2>3. QED
      BY <2>1, <2>2 DEF TypeInv
  <1>25. ASSUME NEW w \in Workers, BeginPipeline(w) PROVE TypeInv'
    <2>1. RowsTyped'
      BY <1>25 DEF TypeInv, RowsTyped, BeginPipeline
    <2>2. WorkersTyped'
      BY <1>25 DEF TypeInv, WorkersTyped, BeginPipeline, WorkerRecord
    <2>3. CallersTyped' /\ JobsTyped'
      BY <1>25 DEF TypeInv, CallersTyped, JobsTyped, BeginPipeline
    <2>4. QED
      BY <2>1, <2>2, <2>3 DEF TypeInv
  <1>26. ASSUME NEW w \in Workers, PipelineThrows(w) PROVE TypeInv'
    <2>1. WorkersTyped'
      BY <1>26 DEF TypeInv, WorkersTyped, PipelineThrows, FailurePc, WorkerRecord
    <2>2. RowsTyped' /\ CallersTyped' /\ JobsTyped'
      BY <1>26 DEF TypeInv, RowsTyped, CallersTyped, JobsTyped, PipelineThrows
    <2>3. QED
      BY <2>1, <2>2 DEF TypeInv
  <1>27. ASSUME NEW w \in Workers, Publish(w) PROVE TypeInv'
    <2>1. RowsTyped'
      <3> DEFINE a == worker[w].attempt
      <3>1. a \in Attempts /\ FileOf[a] \in Files
        BY <1>27, IdAssumption DEF TypeInv, WorkersTyped, Publish
      <3>2. attempt' \in [Attempts -> AttemptRow]
        BY <1>27, StatusTyped DEF TypeInv, RowsTyped, Publish, PublishTransaction,
                                  TerminalStatuses
      <3>3. versions' \in [Files -> Seq(Attempts)]
        BY <1>27, <3>1, HistoryTyped DEF TypeInv, RowsTyped, Publish, PublishTransaction
      <3>4. QED
        BY <1>27, <3>2, <3>3 DEF TypeInv, RowsTyped, Publish, PublishTransaction
    <2>2. WorkersTyped'
      BY <1>27 DEF TypeInv, WorkersTyped, Publish, AfterPublish, WorkerRecord
    <2>3. CallersTyped' /\ JobsTyped'
      BY <1>27 DEF TypeInv, CallersTyped, JobsTyped, Publish
    <2>4. QED
      BY <2>1, <2>2, <2>3 DEF TypeInv
  <1>28. ASSUME NEW w \in Workers, PublishUnacknowledged(w) PROVE TypeInv'
    <2>1. RowsTyped'
      <3> DEFINE a == worker[w].attempt
      <3>1. a \in Attempts /\ FileOf[a] \in Files
        BY <1>28, IdAssumption DEF TypeInv, WorkersTyped, PublishUnacknowledged
      <3>2. attempt' \in [Attempts -> AttemptRow]
        BY <1>28, StatusTyped DEF TypeInv, RowsTyped, PublishUnacknowledged,
                                  PublishTransaction, TerminalStatuses
      <3>3. versions' \in [Files -> Seq(Attempts)]
        BY <1>28, <3>1, HistoryTyped DEF TypeInv, RowsTyped, PublishUnacknowledged,
                                         PublishTransaction
      <3>4. QED
        BY <1>28, <3>2, <3>3 DEF TypeInv, RowsTyped, PublishUnacknowledged,
                                 PublishTransaction, Fault
    <2>2. WorkersTyped'
      BY <1>28 DEF TypeInv, WorkersTyped, PublishUnacknowledged, FailurePc, WorkerRecord
    <2>3. CallersTyped' /\ JobsTyped'
      BY <1>28 DEF TypeInv, CallersTyped, JobsTyped, PublishUnacknowledged
    <2>4. QED
      BY <2>1, <2>2, <2>3 DEF TypeInv
  <1>29. ASSUME NEW w \in Workers, PublishRefused(w) PROVE TypeInv'
    <2>1. WorkersTyped'
      BY <1>29 DEF TypeInv, WorkersTyped, PublishRefused, AfterPublish, WorkerRecord
    <2>2. RowsTyped' /\ CallersTyped' /\ JobsTyped'
      BY <1>29 DEF TypeInv, RowsTyped, CallersTyped, JobsTyped, PublishRefused
    <2>3. QED
      BY <2>1, <2>2 DEF TypeInv
  <1>30. ASSUME NEW w \in Workers, CountFile(w) PROVE TypeInv'
    <2>1. RowsTyped'
      BY <1>30 DEF TypeInv, RowsTyped, CountFile
    <2>2. WorkersTyped'
      BY <1>30 DEF TypeInv, WorkersTyped, CountFile, WorkerRecord
    <2>3. CallersTyped' /\ JobsTyped'
      BY <1>30 DEF TypeInv, CallersTyped, JobsTyped, CountFile
    <2>4. QED
      BY <2>1, <2>2, <2>3 DEF TypeInv
  <1>31. ASSUME NEW w \in Workers, CountThrows(w) PROVE TypeInv'
    <2>1. RowsTyped'
      BY <1>31 DEF TypeInv, RowsTyped, CountThrows, Fault
    <2>2. WorkersTyped'
      BY <1>31 DEF TypeInv, WorkersTyped, CountThrows, FailurePc, WorkerRecord
    <2>3. CallersTyped' /\ JobsTyped'
      BY <1>31 DEF TypeInv, CallersTyped, JobsTyped, CountThrows
    <2>4. QED
      BY <2>1, <2>2, <2>3 DEF TypeInv
  <1>32. ASSUME NEW w \in Workers, RecordRetry(w) PROVE TypeInv'
    <2>1. RowsTyped'
      BY <1>32, MovedTyped DEF TypeInv, RowsTyped, RecordRetry, ActiveStatuses
    <2>2. WorkersTyped'
      BY <1>32 DEF TypeInv, WorkersTyped, RecordRetry, WorkerRecord
    <2>3. CallersTyped' /\ JobsTyped'
      BY <1>32 DEF TypeInv, CallersTyped, JobsTyped, RecordRetry
    <2>4. QED
      BY <2>1, <2>2, <2>3 DEF TypeInv
  <1>33. ASSUME NEW w \in Workers, RecordFailure(w) PROVE TypeInv'
    <2>1. RowsTyped'
      <3>1. CASE HoldsToken(w)
        <4>1. attempt' = [attempt EXCEPT ![worker[w].attempt].status = "failed"]
          BY <1>33, <3>1 DEF RecordFailure
        <4>2. attempt' \in [Attempts -> AttemptRow]
          BY <4>1, StatusTyped DEF TypeInv, RowsTyped, TerminalStatuses
        <4>3. QED
          BY <1>33, <3>1, <4>2 DEF TypeInv, RowsTyped, RecordFailure
      <3>2. CASE ~HoldsToken(w)
        BY <1>33, <3>2 DEF TypeInv, RowsTyped, RecordFailure
      <3>3. QED
        BY <3>1, <3>2
    <2>2. WorkersTyped'
      BY <1>33 DEF TypeInv, WorkersTyped, RecordFailure, WorkerRecord
    <2>3. CallersTyped' /\ JobsTyped'
      BY <1>33 DEF TypeInv, CallersTyped, JobsTyped, RecordFailure
    <2>4. QED
      BY <2>1, <2>2, <2>3 DEF TypeInv
  <1>34. ASSUME NEW w \in Workers, FinishJob(w) PROVE TypeInv'
    <2>1. JobsTyped'
      BY <1>34 DEF TypeInv, JobsTyped, FinishJob, JobRecord, NoJob
    <2>2. WorkersTyped'
      BY <1>34 DEF TypeInv, WorkersTyped, FinishJob, WorkerRecord, IdleWorker
    <2>3. RowsTyped' /\ CallersTyped'
      BY <1>34 DEF TypeInv, RowsTyped, CallersTyped, FinishJob
    <2>4. QED
      BY <2>1, <2>2, <2>3 DEF TypeInv
  <1>35. ASSUME NEW w \in Workers, HandlerThrows(w) PROVE TypeInv'
    <2>1. RowsTyped'
      BY <1>35 DEF TypeInv, RowsTyped, HandlerThrows, Fault
    <2>2. JobsTyped'
      BY <1>35 DEF TypeInv, JobsTyped, HandlerThrows, HoldsLock, JobRecord
    <2>3. WorkersTyped'
      BY <1>35 DEF TypeInv, WorkersTyped, HandlerThrows, WorkerRecord, IdleWorker
    <2>4. CallersTyped'
      BY <1>35 DEF TypeInv, CallersTyped, HandlerThrows
    <2>5. QED
      BY <2>1, <2>2, <2>3, <2>4 DEF TypeInv
  <1>36. ASSUME NEW w \in Workers, WorkerDies(w) PROVE TypeInv'
    <2>1. RowsTyped'
      BY <1>36 DEF TypeInv, RowsTyped, WorkerDies, Fault
    <2>2. WorkersTyped'
      BY <1>36 DEF TypeInv, WorkersTyped, WorkerDies, WorkerRecord, IdleWorker
    <2>3. CallersTyped' /\ JobsTyped'
      BY <1>36 DEF TypeInv, CallersTyped, JobsTyped, WorkerDies
    <2>4. QED
      BY <2>1, <2>2, <2>3 DEF TypeInv
  <1>37. ASSUME NEW k \in JobKeys, StallDead(k) PROVE TypeInv'
    <2>1. JobsTyped'
      BY <1>37, ReclaimTyped DEF TypeInv, StallDead
    <2>2. RowsTyped' /\ CallersTyped' /\ WorkersTyped'
      BY <1>37 DEF TypeInv, RowsTyped, CallersTyped, WorkersTyped, StallDead
    <2>3. QED
      BY <2>1, <2>2 DEF TypeInv
  <1>38. ASSUME NEW k \in JobKeys, StallAlive(k) PROVE TypeInv'
    <2>1. RowsTyped'
      BY <1>38 DEF TypeInv, RowsTyped, StallAlive, Fault
    <2>2. JobsTyped'
      BY <1>38, ReclaimTyped DEF TypeInv, StallAlive
    <2>3. CallersTyped' /\ WorkersTyped'
      BY <1>38 DEF TypeInv, CallersTyped, WorkersTyped, StallAlive
    <2>4. QED
      BY <2>1, <2>2, <2>3 DEF TypeInv
  <1>39. ASSUME NEW c \in Callers, DispatchThrows(c) PROVE TypeInv'
    <2>1. RowsTyped'
      BY <1>39, MovedTyped DEF TypeInv, RowsTyped, DispatchThrows, Fault, ActiveStatuses
    <2>2. CallersTyped'
      BY <1>39 DEF TypeInv, CallersTyped, DispatchThrows, CallerRecord
    <2>3. JobsTyped' /\ WorkersTyped'
      BY <1>39 DEF TypeInv, JobsTyped, WorkersTyped, DispatchThrows
    <2>4. QED
      BY <2>1, <2>2, <2>3 DEF TypeInv
  <1>40. CASE UNCHANGED vars
    BY <1>40 DEF TypeInv, RowsTyped, CallersTyped, JobsTyped, WorkersTyped, vars
  <1>41. QED
    BY <1>1, <1>2, <1>3, <1>4, <1>5, <1>6, <1>7, <1>8, <1>9, <1>10, <1>11,
       <1>12, <1>13, <1>14, <1>15, <1>16, <1>17, <1>18, <1>19, <1>20, <1>21,
       <1>22, <1>23, <1>24, <1>25, <1>26, <1>27, <1>28, <1>29, <1>30, <1>31,
       <1>32, <1>33, <1>34, <1>35, <1>36, <1>37, <1>38, <1>39, <1>40 DEF Next,
       CallerStep, Request, WorkerStep, Faulty

(* Whatever the interleaving of requests, crons, workers and faults, every *)
(* row, job and call chain keeps its type; in particular the subject's     *)
(* file_count never goes below zero.                                       *)
THEOREM TypeCorrect == Spec => []TypeOK
  <1>1. Init => TypeInv
    BY TypeInit
  <1>2. TypeInv /\ [Next]_vars => TypeInv'
    BY TypeStep
  <1>3. TypeInv => TypeOK
    BY DEF TypeInv, RowsTyped, CallersTyped, JobsTyped, WorkersTyped, TypeOK
  <1>4. QED
    BY <1>1, <1>2, <1>3, PTL DEF Spec

-----------------------------------------------------------------------------
(* Fencing tokens.                                                         *)
(*                                                                         *)
(* FencingTokens is not inductive.  That a row is never inserted again     *)
(* under an id some worker carries a token for needs two more facts: rows  *)
(* belong to files that exist, and a token is only ever carried for a      *)
(* file that was uploaded.                                                 *)

RowsOfLiveFiles ==
  \A a \in Attempts : attempt[a] = NoRow \/ FileExists(FileOf[a])

RowsAreWhole ==
  \A a \in Attempts : attempt[a].status = "absent" => attempt[a] = NoRow

ClaimsOfKnownFiles ==
  \A w \in Workers : HasClaimed(w) => fileStatus[FileOf[worker[w].attempt]] # "absent"

FencingInv ==
  /\ TypeInv
  /\ RowsOfLiveFiles
  /\ RowsAreWhole
  /\ ClaimsOfKnownFiles
  /\ FencingTokens

(* The steps that matter are the claim, the two inserts and the delete.    *)
(* Every other step keeps rows, tokens and the existence of files.         *)
KeepsTokens ==
  /\ \A a \in Attempts :
       IF attempt[a].status = "absent" THEN attempt'[a] = attempt[a]
       ELSE attempt'[a].status # "absent" /\ attempt'[a].gen = attempt[a].gen
  /\ \A f \in Files : /\ fileStatus'[f] = "absent" <=> fileStatus[f] = "absent"
                      /\ fileStatus'[f] = "deleted" <=> fileStatus[f] = "deleted"
  /\ \A w \in Workers :
       worker'[w].gen > 0 =>
         worker'[w].gen = worker[w].gen /\ worker'[w].attempt = worker[w].attempt

(* Before any request no token has been handed out.                        *)
LEMMA FencingInit == Init => FencingInv
  <1> SUFFICES ASSUME Init PROVE FencingInv
    OBVIOUS
  <1>1. RowsOfLiveFiles /\ RowsAreWhole
    BY DEF Init, RowsOfLiveFiles, RowsAreWhole
  <1>2. \A w \in Workers : ~HasClaimed(w)
    BY DEF Init, HasClaimed, IdleWorker
  <1>3. QED
    BY <1>1, <1>2, TypeInit DEF FencingInv, ClaimsOfKnownFiles, FencingTokens

(* A step that keeps rows, tokens and files keeps the invariant.           *)
LEMMA QuietStep ==
  ASSUME FencingInv, TypeInv', KeepsTokens
  PROVE  FencingInv'
  <1>1. RowsAreWhole'
    BY DEF FencingInv, RowsAreWhole, KeepsTokens, NoRow
  <1>2. RowsOfLiveFiles'
    BY IdAssumption DEF FencingInv, RowsOfLiveFiles, KeepsTokens, FileExists, NoRow
  <1>3. ASSUME NEW w \in Workers, HasClaimed(w)'
        PROVE  /\ HasClaimed(w)
               /\ worker'[w].gen = worker[w].gen
               /\ worker'[w].attempt = worker[w].attempt
               /\ worker[w].attempt \in Attempts
    BY <1>3 DEF HasClaimed, KeepsTokens, FencingInv, TypeInv, WorkersTyped
  <1>4. ClaimsOfKnownFiles'
    BY <1>3, IdAssumption DEF FencingInv, ClaimsOfKnownFiles, KeepsTokens
  <1>5. ASSUME NEW w \in Workers, HasClaimed(w)', FileExists(FileOf[worker[w].attempt])'
        PROVE  worker'[w].gen <= attempt'[worker'[w].attempt].gen
    <2> DEFINE a == worker[w].attempt
    <2>1. a \in Attempts /\ FileOf[a] \in Files /\ HasClaimed(w)
          /\ worker'[w].gen = worker[w].gen /\ worker'[w].attempt = a
      BY <1>3, <1>5, IdAssumption
    <2>2. FileExists(FileOf[a])
      BY <1>5, <2>1 DEF FileExists, KeepsTokens
    <2>3. worker[w].gen <= attempt[a].gen
      BY <2>1, <2>2 DEF FencingInv, FencingTokens
    <2>4. attempt'[a].gen = attempt[a].gen
      BY <2>1 DEF KeepsTokens
    <2>5. QED
      BY <2>1, <2>3, <2>4
  <1>6. FencingTokens'
    BY <1>3, <1>5 DEF FencingInv, FencingTokens
  <1>7. QED
    BY <1>1, <1>2, <1>4, <1>6 DEF FencingInv

(* So publishing does, acknowledged or not: the attempt is completed under *)
(* the generation it was claimed with.                                     *)
LEMMA PublishKeepsTokens ==
  ASSUME FencingInv, NEW w \in Workers, worker[w].pc = "pipeline",
         PublishTransaction(w), NEW pc, worker' = [worker EXCEPT ![w].pc = pc]
  PROVE  KeepsTokens
  <1> DEFINE a == worker[w].attempt
  <1>1. a \in Attempts /\ attempt[a].status = "processing" /\ FileExists(FileOf[a])
    BY DEF FencingInv, TypeInv, WorkersTyped, PublishTransaction, HoldsToken
  <1>2. /\ attempt' = [attempt EXCEPT ![a].status = "completed"]
        /\ fileStatus' = [fileStatus EXCEPT ![FileOf[a]] = "completed"]
    BY DEF PublishTransaction
  <1> HIDE DEF a
  <1>3. QED
    BY <1>1, <1>2 DEF FencingInv, TypeInv, RowsTyped, WorkersTyped, KeepsTokens, FileExists

(* A conditional update of the status alone keeps tokens.                  *)
LEMMA MoveKeepsTokens ==
  ASSUME FencingInv, NEW a, NEW from, NEW to, from # "absent", to # "absent",
         attempt' = attempt \/ attempt' = Moved(a, from, to),
         UNCHANGED fileStatus,
         \A w \in Workers : /\ worker'[w].gen = worker[w].gen
                            /\ worker'[w].attempt = worker[w].attempt
  PROVE  KeepsTokens
  <1>1. \A b \in Attempts :
          \/ attempt'[b] = attempt[b]
          \/ /\ attempt[b].status = from
             /\ attempt'[b] = [attempt[b] EXCEPT !.status = to]
    BY DEF Moved, FencingInv, TypeInv, RowsTyped
  <1>2. \A b \in Attempts : attempt[b] \in AttemptRow
    BY DEF FencingInv, TypeInv, RowsTyped
  <1>3. \A b \in Attempts :
          IF attempt[b].status = "absent" THEN attempt'[b] = attempt[b]
          ELSE attempt'[b].status # "absent" /\ attempt'[b].gen = attempt[b].gen
    BY <1>1, <1>2 DEF AttemptRow
  <1>4. QED
    BY <1>3 DEF KeepsTokens

(* The inductive step: one case per action.                                *)
LEMMA FencingStep == FencingInv /\ [Next]_vars => FencingInv'
  <1> SUFFICES ASSUME FencingInv, [Next]_vars PROVE FencingInv'
    OBVIOUS
  <1>0. TypeInv'
    BY TypeStep DEF FencingInv
  <1>1. ASSUME NEW c \in Callers, Dispatch(c) PROVE KeepsTokens
    <2>1. attempt' = attempt \/ attempt' = Moved(caller[c].attempt, "enqueue_pending", "dispatching")
      BY <1>1 DEF Dispatch
    <2>2. UNCHANGED <<fileStatus, worker>>
      BY <1>1 DEF Dispatch
    <2>3. QED
      BY <2>1, <2>2, MoveKeepsTokens
  <1>2. ASSUME NEW c \in Callers, MarkQueued(c) PROVE KeepsTokens
    <2>1. attempt' = attempt \/ attempt' = Moved(caller[c].attempt, "dispatching", "queued")
      BY <1>2 DEF MarkQueued
    <2>2. UNCHANGED <<fileStatus, worker>>
      BY <1>2 DEF MarkQueued
    <2>3. QED
      BY <2>1, <2>2, MoveKeepsTokens
  <1>3. ASSUME NEW c \in Callers, Enqueue(c) PROVE KeepsTokens
    BY <1>3 DEF FencingInv, TypeInv, RowsTyped, CallersTyped, WorkersTyped,
       KeepsTokens, Enqueue
  <1>4. ASSUME NEW c \in Callers, EnqueueThrows(c) PROVE KeepsTokens
    BY <1>4 DEF FencingInv, TypeInv, RowsTyped, CallersTyped, WorkersTyped,
       KeepsTokens, EnqueueThrows
  <1>5. ASSUME NEW c \in Callers, RollBackDispatch(c) PROVE KeepsTokens
    <2>1. attempt' = attempt \/ attempt' = Moved(caller[c].attempt, "queued", "enqueue_pending")
      BY <1>5 DEF RollBackDispatch
    <2>2. UNCHANGED <<fileStatus, worker>>
      BY <1>5 DEF RollBackDispatch
    <2>3. QED
      BY <2>1, <2>2, MoveKeepsTokens
  <1>6. ASSUME NEW c \in Callers, GiveUpExpired(c) PROVE KeepsTokens
    <2> DEFINE a == caller[c].attempt
    <2>1. CASE attempt[a].status = "dispatching"
      <3>1. /\ attempt' = [attempt EXCEPT ![a].status = "enqueue_failed",
                                          ![a].dispatches = caller[c].seen + 1]
            /\ fileStatus' = [fileStatus EXCEPT ![FileOf[a]] = "failed"]
        BY <1>6, <2>1 DEF GiveUpExpired
      <3>2. FileExists(FileOf[a])
        BY <1>6, <2>1 DEF FencingInv, TypeInv, CallersTyped, RowsOfLiveFiles, NoRow,
                          GiveUpExpired
      <3>3. QED
        BY <1>6, <2>1, <3>1, <3>2 DEF FencingInv, TypeInv, RowsTyped, CallersTyped,
                                      KeepsTokens, GiveUpExpired, FileExists
    <2>2. CASE attempt[a].status # "dispatching"
      BY <1>6, <2>2 DEF FencingInv, TypeInv, RowsTyped, CallersTyped, KeepsTokens, GiveUpExpired
    <2>3. QED
      BY <2>1, <2>2
  <1>7. ASSUME NEW c \in Callers, RequeueExpired(c) PROVE KeepsTokens
    <2> DEFINE a == caller[c].attempt
    <2>1. CASE attempt[a].status # "absent" /\ ActiveIndexAllows(a)
      <3>1. attempt' = [attempt EXCEPT ![a].status = "enqueue_pending",
                                       ![a].dispatches = caller[c].seen + 1]
        BY <1>7, <2>1 DEF RequeueExpired
      <3>2. QED
        BY <1>7, <2>1, <3>1 DEF FencingInv, TypeInv, RowsTyped, CallersTyped, KeepsTokens,
                                RequeueExpired
    <2>2. CASE ~(attempt[a].status # "absent" /\ ActiveIndexAllows(a))
      <3>1. attempt' = attempt
        BY <1>7, <2>2 DEF RequeueExpired
      <3>2. QED
        BY <1>7, <3>1 DEF FencingInv, TypeInv, RowsTyped, CallersTyped, KeepsTokens,
                          RequeueExpired
    <2>3. QED
      BY <2>1, <2>2
  <1>8. ASSUME NEW c \in Callers, InsertRejected(c) PROVE KeepsTokens
    BY <1>8 DEF FencingInv, TypeInv, RowsTyped, CallersTyped, WorkersTyped,
       KeepsTokens, InsertRejected
  <1>9. ASSUME NEW c \in Callers, RenameJob(c) PROVE KeepsTokens
    BY <1>9 DEF FencingInv, TypeInv, RowsTyped, CallersTyped, WorkersTyped,
       KeepsTokens, RenameJob
  <1>10. ASSUME NEW c \in Callers, UncountFile(c) PROVE KeepsTokens
    BY <1>10 DEF FencingInv, TypeInv, RowsTyped, CallersTyped, WorkersTyped,
       KeepsTokens, UncountFile
  <1>11. ASSUME NEW c \in Callers, CallerDies(c) PROVE KeepsTokens
    BY <1>11 DEF FencingInv, TypeInv, RowsTyped, CallersTyped, WorkersTyped,
       KeepsTokens, CallerDies
  <1>12. ASSUME NEW c \in Callers, NEW a \in Attempts, SweepPending(c, a) PROVE KeepsTokens
    BY <1>12 DEF FencingInv, TypeInv, RowsTyped, CallersTyped, WorkersTyped,
       KeepsTokens, SweepPending
  <1>13. ASSUME NEW c \in Callers, NEW a \in Attempts, ReadExpired(c, a) PROVE KeepsTokens
    BY <1>13 DEF FencingInv, TypeInv, RowsTyped, CallersTyped, WorkersTyped,
       KeepsTokens, ReadExpired
  <1>14. ASSUME NEW c \in Callers, NEW f \in Files, ResetFile(c, f) PROVE KeepsTokens
    BY <1>14 DEF FencingInv, TypeInv, RowsTyped, CallersTyped, WorkersTyped,
       KeepsTokens, ResetFile, FileExists
  <1>15. ASSUME NEW c \in Callers, NEW f \in Files, FindToDelete(c, f) PROVE KeepsTokens
    BY <1>15 DEF FencingInv, TypeInv, RowsTyped, CallersTyped, WorkersTyped,
       KeepsTokens, FindToDelete
  <1>16. ASSUME NEW a \in Attempts, RequeueRetrying(a) PROVE KeepsTokens
    BY <1>16 DEF FencingInv, TypeInv, RowsTyped, CallersTyped, WorkersTyped,
       KeepsTokens, RequeueRetrying
  <1>17. ASSUME NEW a \in Attempts, RequeueQueued(a) PROVE KeepsTokens
    BY <1>17 DEF FencingInv, TypeInv, RowsTyped, CallersTyped, WorkersTyped,
       KeepsTokens, RequeueQueued
  <1>18. ASSUME NEW a \in Attempts, RequeueProcessing(a) PROVE KeepsTokens
    BY <1>18 DEF FencingInv, TypeInv, RowsTyped, CallersTyped, WorkersTyped,
       KeepsTokens, RequeueProcessing
  <1>19. ASSUME NEW w \in Workers, NEW k \in JobKeys, TakeJob(w, k) PROVE KeepsTokens
    BY <1>19 DEF FencingInv, TypeInv, RowsTyped, CallersTyped, WorkersTyped,
       KeepsTokens, TakeJob, IdleWorker
  <1>20. ASSUME NEW w \in Workers, ClaimRefused(w) PROVE KeepsTokens
    BY <1>20 DEF FencingInv, TypeInv, RowsTyped, CallersTyped, WorkersTyped,
       KeepsTokens, ClaimRefused
  <1>21. ASSUME NEW w \in Workers, BeginPipeline(w) PROVE KeepsTokens
    BY <1>21 DEF FencingInv, TypeInv, RowsTyped, CallersTyped, WorkersTyped,
       KeepsTokens, BeginPipeline
  <1>22. ASSUME NEW w \in Workers, PipelineThrows(w) PROVE KeepsTokens
    BY <1>22 DEF FencingInv, TypeInv, RowsTyped, CallersTyped, WorkersTyped,
       KeepsTokens, PipelineThrows
  <1>23. ASSUME NEW w \in Workers, Publish(w) PROVE KeepsTokens
    BY <1>23, PublishKeepsTokens DEF Publish
  <1>24. ASSUME NEW w \in Workers, PublishUnacknowledged(w) PROVE KeepsTokens
    BY <1>24, PublishKeepsTokens DEF PublishUnacknowledged
  <1>25. ASSUME NEW w \in Workers, PublishRefused(w) PROVE KeepsTokens
    <2>1. PICK pc : worker' = [worker EXCEPT ![w].pc = pc]
      BY <1>25 DEF PublishRefused
    <2>2. QED
      BY <1>25, <2>1 DEF FencingInv, TypeInv, RowsTyped, CallersTyped, KeepsTokens,
                         WorkersTyped, PublishRefused
  <1>26. ASSUME NEW w \in Workers, CountFile(w) PROVE KeepsTokens
    BY <1>26 DEF FencingInv, TypeInv, RowsTyped, CallersTyped, WorkersTyped,
       KeepsTokens, CountFile
  <1>27. ASSUME NEW w \in Workers, CountThrows(w) PROVE KeepsTokens
    BY <1>27 DEF FencingInv, TypeInv, RowsTyped, CallersTyped, WorkersTyped,
       KeepsTokens, CountThrows
  <1>28. ASSUME NEW w \in Workers, RecordRetry(w) PROVE KeepsTokens
    <2>1. \/ attempt' = attempt
          \/ attempt' = Moved(worker[w].attempt, "processing", "retrying")
      BY <1>28 DEF RecordRetry
    <2>2. /\ UNCHANGED fileStatus
          /\ \A v \in Workers : /\ worker'[v].gen = worker[v].gen
                                /\ worker'[v].attempt = worker[v].attempt
      BY <1>28 DEF FencingInv, TypeInv, WorkersTyped, WorkerRecord, RecordRetry
    <2>3. QED
      BY <2>1, <2>2, MoveKeepsTokens
  <1>29. ASSUME NEW w \in Workers, RecordFailure(w) PROVE KeepsTokens
    <2> DEFINE a == worker[w].attempt
    <2>1. CASE HoldsToken(w)
      <3>1. /\ attempt' = [attempt EXCEPT ![a].status = "failed"]
            /\ fileStatus' = [fileStatus EXCEPT ![FileOf[a]] = "failed"]
        BY <1>29, <2>1 DEF RecordFailure
      <3>2. a \in Attempts /\ attempt[a].status = "processing"
        BY <1>29, <2>1 DEF FencingInv, TypeInv, WorkersTyped, RecordFailure, HoldsToken
      <3>3. FileExists(FileOf[a])
        BY <3>2 DEF FencingInv, RowsOfLiveFiles, NoRow
      <3>4. QED
        BY <1>29, <3>1, <3>2, <3>3 DEF FencingInv, TypeInv, RowsTyped, CallersTyped,
                                       KeepsTokens, WorkersTyped, RecordFailure, FileExists
    <2>2. CASE ~HoldsToken(w)
      BY <1>29, <2>2 DEF FencingInv, TypeInv, RowsTyped, CallersTyped, KeepsTokens,
                         WorkersTyped, RecordFailure
    <2>3. QED
      BY <2>1, <2>2
  <1>30. ASSUME NEW w \in Workers, FinishJob(w) PROVE KeepsTokens
    BY <1>30 DEF FencingInv, TypeInv, RowsTyped, CallersTyped, WorkersTyped,
       KeepsTokens, FinishJob, IdleWorker
  <1>31. ASSUME NEW w \in Workers, HandlerThrows(w) PROVE KeepsTokens
    BY <1>31 DEF FencingInv, TypeInv, RowsTyped, CallersTyped, WorkersTyped,
       KeepsTokens, HandlerThrows, IdleWorker
  <1>32. ASSUME NEW w \in Workers, WorkerDies(w) PROVE KeepsTokens
    BY <1>32 DEF FencingInv, TypeInv, RowsTyped, CallersTyped, WorkersTyped,
       KeepsTokens, WorkerDies, IdleWorker
  <1>33. ASSUME NEW k \in JobKeys, StallDead(k) PROVE KeepsTokens
    BY <1>33 DEF FencingInv, TypeInv, RowsTyped, CallersTyped, WorkersTyped,
       KeepsTokens, StallDead
  <1>34. ASSUME NEW k \in JobKeys, StallAlive(k) PROVE KeepsTokens
    BY <1>34 DEF FencingInv, TypeInv, RowsTyped, CallersTyped, WorkersTyped,
       KeepsTokens, StallAlive
  <1>35. ASSUME NEW w \in Workers, ClaimAttempt(w) PROVE FencingInv'
    <2> DEFINE a == worker[w].attempt
    <2> DEFINE g == attempt[a].gen + 1
    <2>1. a \in Attempts /\ attempt[a].status = "queued"
      BY <1>35 DEF FencingInv, TypeInv, WorkersTyped, ClaimAttempt, Claimable
    <2>2. FileExists(FileOf[a])
      BY <2>1 DEF FencingInv, RowsOfLiveFiles, NoRow
    <2>3. /\ attempt' = [attempt EXCEPT ![a].status = "processing", ![a].gen = g]
          /\ fileStatus' = fileStatus
      BY <1>35 DEF ClaimAttempt
    <2>4. /\ attempt'[a].status = "processing" /\ attempt'[a].gen = g
          /\ \A b \in Attempts \ {a} : attempt'[b] = attempt[b]
      BY <2>1, <2>3 DEF FencingInv, TypeInv, RowsTyped, AttemptRow
    <2>5. /\ worker'[w].gen = g /\ worker'[w].attempt = a
          /\ \A v \in Workers \ {w} : worker'[v] = worker[v]
      BY <1>35 DEF FencingInv, TypeInv, WorkersTyped, WorkerRecord, ClaimAttempt
    <2>6. g \in Nat /\ attempt[a].gen \in Nat /\ g > attempt[a].gen
      BY <2>1 DEF FencingInv, TypeInv, RowsTyped, AttemptRow
    <2> HIDE DEF a, g
    <2>7. RowsAreWhole' /\ RowsOfLiveFiles'
      BY <2>1, <2>2, <2>3, <2>4 DEF FencingInv, RowsAreWhole, RowsOfLiveFiles, FileExists, NoRow
    <2>8. ClaimsOfKnownFiles'
      BY <2>2, <2>3, <2>5 DEF FencingInv, ClaimsOfKnownFiles, HasClaimed, FileExists
    <2>9. ASSUME NEW v \in Workers \ {w}, HasClaimed(v)
          PROVE  /\ worker[v].attempt \in Attempts /\ worker[v].gen \in Nat
                 /\ FileExists(FileOf[worker[v].attempt]) =>
                      worker[v].gen <= attempt[worker[v].attempt].gen
      BY <2>9 DEF FencingInv, TypeInv, WorkersTyped, WorkerRecord, HasClaimed, FencingTokens
    <2>10. FencingTokens'
      <3>1. ASSUME NEW v \in Workers \ {w}, HasClaimed(v), worker[v].attempt = a
            PROVE  worker[v].gen < g
        BY <2>2, <2>6, <2>9, <3>1
      <3>2. ASSUME NEW v \in Workers \ {w}, HasClaimed(v), FileExists(FileOf[worker[v].attempt])
            PROVE  worker[v].gen <= attempt'[worker[v].attempt].gen
        BY <2>4, <2>6, <2>9, <3>1, <3>2
      <3>3. \A v \in Workers \ {w} : HasClaimed(v)' <=> HasClaimed(v)
        BY <2>5 DEF HasClaimed
      <3>4. \A f : FileExists(f)' <=> FileExists(f)
        BY <2>3 DEF FileExists
      <3>5. \A v \in Workers \ {w} : HasClaimed(v) /\ worker[v].attempt = a => worker[v].gen # g
        BY <2>6, <2>9, <3>1
      <3>6. attempt'[a].gen = g /\ g <= g
        BY <2>4, <2>6
      <3>7. QED
        BY <2>5, <3>2, <3>3, <3>4, <3>5, <3>6 DEF FencingInv, FencingTokens
    <2>11. QED
      BY <1>0, <2>7, <2>8, <2>10 DEF FencingInv
  <1>36. ASSUME NEW c \in Callers, NEW a \in Attempts, Upload(c, a) PROVE FencingInv'
    <2> DEFINE f == FileOf[a]
    <2>1. f \in Files /\ fileStatus[f] = "absent"
      BY <1>36, IdAssumption DEF Upload
    <2>2. /\ fileStatus'[f] = "pending"
          /\ \A h \in Files \ {f} : fileStatus'[h] = fileStatus[h]
      BY <1>36, <2>1 DEF FencingInv, TypeInv, RowsTyped, Upload
    <2>3. /\ attempt'[a].status = "enqueue_pending"
          /\ \A b \in Attempts \ {a} : attempt'[b] = attempt[b]
          /\ worker' = worker
      BY <1>36 DEF FencingInv, TypeInv, RowsTyped, Upload, NoRow
    <2>4. \A w \in Workers : HasClaimed(w) =>
            FileOf[worker[w].attempt] # f /\ worker[w].attempt \in Attempts
      BY <2>1 DEF FencingInv, TypeInv, WorkersTyped, ClaimsOfKnownFiles, HasClaimed
    <2>5. \A w \in Workers : HasClaimed(w) =>
            /\ worker[w].attempt \in Attempts \ {a}
            /\ FileOf[worker[w].attempt] \in Files \ {f}
      BY <2>4, IdAssumption
    <2> HIDE DEF f
    <2>6. RowsAreWhole'
      BY <2>3 DEF FencingInv, RowsAreWhole
    <2>7. RowsOfLiveFiles'
      BY <2>1, <2>2, <2>3, IdAssumption DEF f, FencingInv, RowsOfLiveFiles, FileExists
    <2>8. ClaimsOfKnownFiles'
      BY <2>2, <2>3, <2>5 DEF FencingInv, ClaimsOfKnownFiles, HasClaimed
    <2>9. FencingTokens'
      BY <2>2, <2>3, <2>5 DEF FencingInv, FencingTokens, HasClaimed, FileExists
    <2>10. QED
      BY <1>0, <2>6, <2>7, <2>8, <2>9 DEF FencingInv
  <1>37. ASSUME NEW c \in Callers, InsertAttempt(c) PROVE FencingInv'
    <2>1. PICK a \in Attempts :
            /\ attempt[a] = NoRow
            /\ FileExists(FileOf[a])
            /\ attempt' = [attempt EXCEPT ![a] = [NoRow EXCEPT
                             !.status = "enqueue_pending", !.key = caller[c].file]]
      BY <1>37 DEF InsertAttempt, InsertAllowed
    <2>2. /\ attempt'[a].status = "enqueue_pending"
          /\ attempt'[a].gen = attempt[a].gen
          /\ \A b \in Attempts \ {a} : attempt'[b] = attempt[b]
      BY <2>1 DEF FencingInv, TypeInv, RowsTyped, NoRow
    <2>3. worker' = worker /\ fileStatus' = fileStatus
      BY <1>37 DEF InsertAttempt
    <2>4. RowsAreWhole' /\ RowsOfLiveFiles'
      BY <2>1, <2>2, <2>3 DEF FencingInv, RowsAreWhole, RowsOfLiveFiles, FileExists
    <2>5. ClaimsOfKnownFiles'
      BY <2>3 DEF FencingInv, ClaimsOfKnownFiles, HasClaimed
    <2>6. \A b \in Attempts : attempt'[b].gen = attempt[b].gen
      BY <2>2
    <2>7. \A w \in Workers : HasClaimed(w) => worker[w].attempt \in Attempts
      BY DEF FencingInv, TypeInv, WorkersTyped, HasClaimed
    <2>8. FencingTokens'
      BY <2>3, <2>6, <2>7 DEF FencingInv, FencingTokens, HasClaimed, FileExists
    <2>9. QED
      BY <1>0, <2>4, <2>5, <2>8 DEF FencingInv
  <1>38. ASSUME NEW c \in Callers, DeleteFile(c) PROVE FencingInv'
    <2> DEFINE f == caller[c].file
    <2>1. /\ \A h \in Files \ {f} : fileStatus'[h] = fileStatus[h]
          /\ f \in Files => fileStatus'[f] = "deleted"
      BY <1>38 DEF FencingInv, TypeInv, RowsTyped, DeleteFile
    <2>2. /\ \A b \in Attempts : attempt'[b] = IF FileOf[b] = f THEN NoRow ELSE attempt[b]
          /\ worker' = worker
      BY <1>38 DEF DeleteFile
    <2>3. \A w \in Workers : HasClaimed(w) =>
            worker[w].attempt \in Attempts /\ FileOf[worker[w].attempt] \in Files
      BY IdAssumption DEF FencingInv, TypeInv, WorkersTyped, HasClaimed
    <2> HIDE DEF f
    <2>4. RowsAreWhole'
      BY <2>2 DEF FencingInv, RowsAreWhole
    <2>5. RowsOfLiveFiles'
      BY <2>1, <2>2, IdAssumption DEF FencingInv, RowsOfLiveFiles, FileExists
    <2>6. ClaimsOfKnownFiles'
      BY <2>1, <2>2, <2>3 DEF FencingInv, ClaimsOfKnownFiles, HasClaimed
    <2>7. FencingTokens'
      BY <2>1, <2>2, <2>3 DEF FencingInv, FencingTokens, HasClaimed, FileExists
    <2>8. QED
      BY <1>0, <2>4, <2>5, <2>6, <2>7 DEF FencingInv
  <1>39. ASSUME NEW c \in Callers, DispatchThrows(c) PROVE KeepsTokens
    <2> DEFINE a == caller[c].attempt
    <2>1. \/ attempt' = attempt
          \/ attempt' = Moved(a, "enqueue_pending", "dispatching")
          \/ attempt' = Moved(a, "dispatching", "queued")
      BY <1>39 DEF DispatchThrows
    <2>2. UNCHANGED <<fileStatus, worker>>
      BY <1>39 DEF DispatchThrows
    <2>3. QED
      BY <2>1, <2>2, MoveKeepsTokens
  <1>40. CASE UNCHANGED vars
    <2>1. KeepsTokens
      BY <1>40 DEF KeepsTokens, vars
    <2>2. QED
      BY <1>0, <2>1, QuietStep
  <1>41. QED
    BY <1>0, <1>1, <1>2, <1>3, <1>4, <1>5, <1>6, <1>7, <1>8, <1>9, <1>10,
       <1>11, <1>12, <1>13, <1>14, <1>15, <1>16, <1>17, <1>18, <1>19, <1>20,
       <1>21, <1>22, <1>23, <1>24, <1>25, <1>26, <1>27, <1>28, <1>29, <1>30,
       <1>31, <1>32, <1>33, <1>34, <1>35, <1>36, <1>37, <1>38, <1>39, <1>40,
       QuietStep DEF Next, CallerStep, Request, WorkerStep, Faulty

(* Two executions of the worker never carry the same token of one attempt, *)
(* and none carries a token its row has not handed out: the claim of       *)
(* files.processor.ts, through every requeue, redelivery and delete.       *)
THEOREM TokensAreFencing == Spec => []FencingTokens
  <1>1. FencingInv => FencingTokens
    BY DEF FencingInv
  <1>2. QED
    BY <1>1, FencingInit, FencingStep, PTL DEF Spec
=============================================================================
