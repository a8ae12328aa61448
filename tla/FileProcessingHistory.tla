----------------------- MODULE FileProcessingHistory -----------------------
(***************************************************************************)
(* What fencing and the two unique indexes buy: a file has at most one     *)
(* attempt under way, and its history is only extended by the worker that  *)
(* carries the newest token.  And how a file is settled, and that one that *)
(* waits is owned.                                                         *)
(***************************************************************************)
EXTENDS FileProcessingProofs, FiniteSetTheorems

-----------------------------------------------------------------------------
(* One active attempt.                                                     *)

OneActiveInv == FencingInv /\ OneActiveAttempt

(* A step brings no attempt to life, or one that the index lets in.        *)
WakesNone == \A b \in Attempts : Active(b)' => Active(b)

WakesOnly(a) ==
  /\ \/ ActiveIndexAllows(a)
     \/ Active(a)' => Active(a)
  /\ \A b \in Attempts \ {a} : Active(b)' => Active(b)

(* With the rows typed, OneActiveAttempt says what the index says.         *)
LEMMA OneActiveMeaning ==
  ASSUME TypeInv
  PROVE  OneActiveAttempt <=>
           \A a, b \in Attempts :
             a # b /\ FileOf[a] = FileOf[b] => ~Active(a) \/ ~Active(b)
  <1>1. \A a \in Attempts :
          attempt[a].status \in TerminalStatuses \cup {"absent"} <=> ~Active(a)
    BY DEF TypeInv, RowsTyped, AttemptRow, Active, ActiveStatuses, TerminalStatuses
  <1>2. QED
    BY <1>1 DEF OneActiveAttempt

(* At most one attempt stays active over a step that wakes none, or only   *)
(* one that the partial unique index lets in.                              *)
LEMMA WakeStep ==
  ASSUME OneActiveInv, [Next]_vars,
         WakesNone \/ \E a \in Attempts : WakesOnly(a)
  PROVE  OneActiveInv'
  <1>1. FencingInv'
    BY FencingStep DEF OneActiveInv
  <1>2. TypeInv /\ TypeInv'
    BY <1>1 DEF OneActiveInv, FencingInv
  <1>3. ASSUME NEW a \in Attempts, NEW b \in Attempts, a # b, FileOf[a] = FileOf[b],
               Active(a), Active(b)
        PROVE  FALSE
    BY <1>2, <1>3, OneActiveMeaning DEF OneActiveInv
  <1>4. ASSUME NEW a \in Attempts, NEW b \in Attempts, a # b, FileOf[a] = FileOf[b],
               Active(a)', Active(b)'
        PROVE  FALSE
    <2>1. CASE WakesNone
      BY <1>3, <1>4, <2>1 DEF WakesNone
    <2>2. CASE \E x \in Attempts : WakesOnly(x)
      BY <1>3, <1>4, <2>2 DEF WakesOnly, ActiveIndexAllows
    <2>3. QED
      BY <2>1, <2>2
  <1>5. OneActiveAttempt'
    <2>1. \A a \in Attempts :
            attempt'[a].status \in TerminalStatuses \cup {"absent"} <=> ~Active(a)'
      BY <1>2 DEF TypeInv, RowsTyped, AttemptRow, Active, ActiveStatuses, TerminalStatuses
    <2>2. QED
      BY <1>4, <2>1 DEF OneActiveAttempt
  <1>6. QED
    BY <1>1, <1>5 DEF OneActiveInv

(* A conditional update of an active attempt wakes none.                   *)
LEMMA MoveWakesNone ==
  ASSUME TypeInv, NEW a, NEW from \in ActiveStatuses, NEW to,
         attempt' = attempt \/ attempt' = Moved(a, from, to)
  PROVE  WakesNone
  <1>1. \A b \in Attempts : attempt'[b] = attempt[b] \/ attempt[b].status = from
    BY DEF Moved, TypeInv, RowsTyped
  <1>2. QED
    BY <1>1 DEF WakesNone, Active

(* The inductive step: one case per action.                                *)
LEMMA OneActiveStep == OneActiveInv /\ [Next]_vars => OneActiveInv'
  <1> SUFFICES ASSUME OneActiveInv, [Next]_vars PROVE OneActiveInv'
    OBVIOUS
  <1>1. ASSUME NEW c \in Callers, Dispatch(c) PROVE WakesNone
    <2>1. attempt' = attempt \/ attempt' = Moved(caller[c].attempt, "enqueue_pending", "dispatching")
      BY <1>1 DEF Dispatch
    <2>2. QED
      BY <2>1, MoveWakesNone DEF OneActiveInv, FencingInv, ActiveStatuses
  <1>2. ASSUME NEW c \in Callers, MarkQueued(c) PROVE WakesNone
    <2>1. attempt' = attempt \/ attempt' = Moved(caller[c].attempt, "dispatching", "queued")
      BY <1>2 DEF MarkQueued
    <2>2. QED
      BY <2>1, MoveWakesNone DEF OneActiveInv, FencingInv, ActiveStatuses
  <1>3. ASSUME NEW c \in Callers, Enqueue(c) PROVE WakesNone
    BY <1>3 DEF WakesNone, Active, Enqueue
  <1>4. ASSUME NEW c \in Callers, EnqueueThrows(c) PROVE WakesNone
    BY <1>4 DEF WakesNone, Active, EnqueueThrows
  <1>5. ASSUME NEW c \in Callers, RollBackDispatch(c) PROVE WakesNone
    <2>1. attempt' = attempt \/ attempt' = Moved(caller[c].attempt, "queued", "enqueue_pending")
      BY <1>5 DEF RollBackDispatch
    <2>2. QED
      BY <2>1, MoveWakesNone DEF OneActiveInv, FencingInv, ActiveStatuses
  <1>6. ASSUME NEW c \in Callers, GiveUpExpired(c) PROVE WakesNone
    BY <1>6 DEF OneActiveInv, FencingInv, TypeInv, RowsTyped, WakesNone,
       Active, ActiveStatuses, GiveUpExpired
  <1>7. ASSUME NEW c \in Callers, RequeueExpired(c) PROVE \E x \in Attempts : WakesOnly(x)
    <2> DEFINE x == caller[c].attempt
    <2>1. x \in Attempts
      BY <1>7 DEF OneActiveInv, FencingInv, TypeInv, CallersTyped, RequeueExpired
    <2>2. CASE attempt[x].status # "absent" /\ ActiveIndexAllows(x)
      <3>1. attempt' = [attempt EXCEPT ![x].status = "enqueue_pending",
                                       ![x].dispatches = caller[c].seen + 1]
        BY <1>7, <2>2 DEF RequeueExpired
      <3>2. \A b \in Attempts \ {x} : attempt'[b] = attempt[b]
        BY <2>1, <3>1 DEF OneActiveInv, FencingInv, TypeInv, RowsTyped
      <3>3. QED
        BY <2>1, <2>2, <3>2 DEF WakesOnly, Active
    <2>3. CASE ~(attempt[x].status # "absent" /\ ActiveIndexAllows(x))
      <3>1. attempt' = attempt
        BY <1>7, <2>3 DEF RequeueExpired
      <3>2. QED
        BY <2>1, <3>1 DEF WakesOnly, WakesNone, Active, ActiveIndexAllows
    <2>4. QED
      BY <2>2, <2>3
  <1>8. ASSUME NEW c \in Callers, InsertRejected(c) PROVE WakesNone
    BY <1>8 DEF WakesNone, Active, InsertRejected
  <1>9. ASSUME NEW c \in Callers, RenameJob(c) PROVE WakesNone
    BY <1>9 DEF OneActiveInv, FencingInv, TypeInv, RowsTyped, WakesNone,
       Active, ActiveStatuses, RenameJob
  <1>10. ASSUME NEW c \in Callers, UncountFile(c) PROVE WakesNone
    BY <1>10 DEF WakesNone, Active, UncountFile
  <1>11. ASSUME NEW c \in Callers, CallerDies(c) PROVE WakesNone
    BY <1>11 DEF WakesNone, Active, CallerDies
  <1>12. ASSUME NEW c \in Callers, NEW a \in Attempts, SweepPending(c, a) PROVE WakesNone
    BY <1>12 DEF WakesNone, Active, SweepPending
  <1>13. ASSUME NEW c \in Callers, NEW a \in Attempts, ReadExpired(c, a) PROVE WakesNone
    BY <1>13 DEF WakesNone, Active, ReadExpired
  <1>14. ASSUME NEW c \in Callers, NEW f \in Files, ResetFile(c, f) PROVE WakesNone
    BY <1>14 DEF WakesNone, Active, ResetFile
  <1>15. ASSUME NEW c \in Callers, NEW f \in Files, FindToDelete(c, f) PROVE WakesNone
    BY <1>15 DEF WakesNone, Active, FindToDelete
  <1>16. ASSUME NEW a \in Attempts, RequeueRetrying(a) PROVE WakesNone
    BY <1>16 DEF OneActiveInv, FencingInv, TypeInv, RowsTyped, WakesNone,
       Active, ActiveStatuses, RequeueRetrying
  <1>17. ASSUME NEW a \in Attempts, RequeueQueued(a) PROVE WakesNone
    BY <1>17 DEF OneActiveInv, FencingInv, TypeInv, RowsTyped, WakesNone,
       Active, ActiveStatuses, RequeueQueued
  <1>18. ASSUME NEW a \in Attempts, RequeueProcessing(a) PROVE WakesNone
    BY <1>18 DEF OneActiveInv, FencingInv, TypeInv, RowsTyped, WakesNone,
       Active, ActiveStatuses, RequeueProcessing
  <1>19. ASSUME NEW w \in Workers, NEW k \in JobKeys, TakeJob(w, k) PROVE WakesNone
    BY <1>19 DEF WakesNone, Active, TakeJob
  <1>20. ASSUME NEW w \in Workers, ClaimRefused(w) PROVE WakesNone
    BY <1>20 DEF WakesNone, Active, ClaimRefused
  <1>21. ASSUME NEW w \in Workers, BeginPipeline(w) PROVE WakesNone
    BY <1>21 DEF WakesNone, Active, BeginPipeline
  <1>22. ASSUME NEW w \in Workers, PipelineThrows(w) PROVE WakesNone
    BY <1>22 DEF WakesNone, Active, PipelineThrows
  <1>23. ASSUME NEW w \in Workers, Publish(w) PROVE WakesNone
    BY <1>23 DEF OneActiveInv, FencingInv, TypeInv, RowsTyped, WakesNone,
       Active, ActiveStatuses, Publish, PublishTransaction
  <1>24. ASSUME NEW w \in Workers, PublishUnacknowledged(w) PROVE WakesNone
    BY <1>24 DEF OneActiveInv, FencingInv, TypeInv, RowsTyped, WakesNone,
       Active, ActiveStatuses, PublishUnacknowledged, PublishTransaction
  <1>25. ASSUME NEW w \in Workers, PublishRefused(w) PROVE WakesNone
    BY <1>25 DEF WakesNone, Active, PublishRefused
  <1>26. ASSUME NEW w \in Workers, CountFile(w) PROVE WakesNone
    BY <1>26 DEF WakesNone, Active, CountFile
  <1>27. ASSUME NEW w \in Workers, CountThrows(w) PROVE WakesNone
    BY <1>27 DEF WakesNone, Active, CountThrows
  <1>28. ASSUME NEW w \in Workers, RecordRetry(w) PROVE WakesNone
    <2>1. \/ attempt' = attempt
          \/ attempt' = Moved(worker[w].attempt, "processing", "retrying")
      BY <1>28 DEF RecordRetry
    <2>2. QED
      BY <2>1, MoveWakesNone DEF OneActiveInv, FencingInv, ActiveStatuses
  <1>29. ASSUME NEW w \in Workers, RecordFailure(w) PROVE WakesNone
    <2> DEFINE a == worker[w].attempt
    <2>1. \/ attempt' = attempt
          \/ attempt' = [attempt EXCEPT ![a].status = "failed"]
      BY <1>29 DEF RecordFailure
    <2>2. \A b \in Attempts : attempt'[b] = attempt[b] \/ attempt'[b].status = "failed"
      BY <2>1 DEF OneActiveInv, FencingInv, TypeInv, RowsTyped, AttemptRow
    <2>3. QED
      BY <2>2 DEF WakesNone, Active, ActiveStatuses
  <1>30. ASSUME NEW w \in Workers, FinishJob(w) PROVE WakesNone
    BY <1>30 DEF WakesNone, Active, FinishJob
  <1>31. ASSUME NEW w \in Workers, HandlerThrows(w) PROVE WakesNone
    BY <1>31 DEF WakesNone, Active, HandlerThrows
  <1>32. ASSUME NEW w \in Workers, WorkerDies(w) PROVE WakesNone
    BY <1>32 DEF WakesNone, Active, WorkerDies
  <1>33. ASSUME NEW k \in JobKeys, StallDead(k) PROVE WakesNone
    BY <1>33 DEF WakesNone, Active, StallDead
  <1>34. ASSUME NEW k \in JobKeys, StallAlive(k) PROVE WakesNone
    BY <1>34 DEF WakesNone, Active, StallAlive
  <1>35. ASSUME NEW w \in Workers, ClaimAttempt(w) PROVE WakesNone
    BY <1>35 DEF OneActiveInv, FencingInv, TypeInv, RowsTyped, WakesNone,
       Active, ActiveStatuses, ClaimAttempt, Claimable
  <1>36. ASSUME NEW c \in Callers, NEW a \in Attempts, Upload(c, a)
         PROVE  \E x \in Attempts : WakesOnly(x)
    <2>1. \A b \in Attempts \ {a} : attempt'[b] = attempt[b]
      BY <1>36 DEF OneActiveInv, FencingInv, TypeInv, RowsTyped, Upload
    <2>2. ActiveIndexAllows(a)
      BY <1>36 DEF OneActiveInv, FencingInv, RowsOfLiveFiles, FileExists, Upload,
         ActiveIndexAllows, Active, ActiveStatuses, NoRow
    <2>3. QED
      BY <2>1, <2>2 DEF WakesOnly, Active
  <1>37. ASSUME NEW c \in Callers, InsertAttempt(c) PROVE \E x \in Attempts : WakesOnly(x)
    <2>1. PICK x \in Attempts :
            /\ ActiveIndexAllows(x)
            /\ attempt' = [attempt EXCEPT ![x] = [NoRow EXCEPT
                             !.status = "enqueue_pending", !.key = caller[c].file]]
      BY <1>37 DEF InsertAttempt, InsertAllowed
    <2>2. \A b \in Attempts \ {x} : attempt'[b] = attempt[b]
      BY <2>1 DEF OneActiveInv, FencingInv, TypeInv, RowsTyped
    <2>3. QED
      BY <2>1, <2>2 DEF WakesOnly, Active
  <1>38. ASSUME NEW c \in Callers, DeleteFile(c) PROVE WakesNone
    BY <1>38 DEF WakesNone, Active, ActiveStatuses, NoRow, DeleteFile
  <1>39. ASSUME NEW c \in Callers, DispatchThrows(c) PROVE WakesNone
    <2> DEFINE a == caller[c].attempt
    <2>1. \/ attempt' = attempt
          \/ attempt' = Moved(a, "enqueue_pending", "dispatching")
          \/ attempt' = Moved(a, "dispatching", "queued")
      BY <1>39 DEF DispatchThrows
    <2>2. QED
      BY <2>1, MoveWakesNone DEF OneActiveInv, FencingInv, ActiveStatuses
  <1>40. CASE UNCHANGED vars
    <2>1. attempt' = attempt
      BY <1>40 DEF vars
    <2>2. WakesNone
      BY <2>1 DEF WakesNone, Active
    <2>3. QED
      BY <2>2, WakeStep
  <1>41. QED
    BY <1>1, <1>2, <1>3, <1>4, <1>5, <1>6, <1>7, <1>8, <1>9, <1>10, <1>11,
       <1>12, <1>13, <1>14, <1>15, <1>16, <1>17, <1>18, <1>19, <1>20, <1>21,
       <1>22, <1>23, <1>24, <1>25, <1>26, <1>27, <1>28, <1>29, <1>30, <1>31,
       <1>32, <1>33, <1>34, <1>35, <1>36, <1>37, <1>38, <1>39, <1>40, WakeStep DEF
       Next, CallerStep, Request, WorkerStep, Faulty

(* A file never has two attempts under way, whichever of upload,           *)
(* reprocessing, the reconcilers and the retries acts in between.          *)
THEOREM OneActive == Spec => []OneActiveAttempt
  <1>1. Init => OneActiveInv
    BY FencingInit DEF Init, OneActiveInv, OneActiveAttempt, NoRow
  <1>2. OneActiveInv => OneActiveAttempt
    BY DEF OneActiveInv
  <1>3. QED
    BY <1>1, <1>2, OneActiveStep, PTL DEF Spec

-----------------------------------------------------------------------------
(* Publication.                                                            *)

(* What NewestWorkerPublishes says of one step.                            *)
PublishesNewest ==
  \A f \in Files : versions'[f] # versions[f] /\ fileStatus'[f] # "deleted" =>
    \E w \in Workers :
      LET a == worker[w].attempt IN
      /\ worker'[w] # worker[w]
      /\ versions'[f] = Append(versions[f], a)
      /\ \A v \in Workers \ {w} :
           HasClaimed(v) /\ worker[v].attempt = a => worker[v].gen < worker[w].gen

(* Whoever passes the ownership check of publish carries the newest token. *)
LEMMA HolderIsNewest ==
  ASSUME FencingInv, NEW w \in Workers, worker[w].pc = "pipeline",
         HoldsToken(w), FileExists(FileOf[worker[w].attempt])
  PROVE  \A v \in Workers \ {w} :
           HasClaimed(v) /\ worker[v].attempt = worker[w].attempt
             => worker[v].gen < worker[w].gen
  <1>1. ASSUME NEW v \in Workers \ {w}, HasClaimed(v), worker[v].attempt = worker[w].attempt
        PROVE  worker[v].gen < worker[w].gen
    <2>1. worker[v].gen \in Nat /\ worker[w].gen \in Nat
      BY DEF FencingInv, TypeInv, WorkersTyped, WorkerRecord
    <2>2. worker[v].gen <= worker[w].gen
      BY <1>1 DEF FencingInv, FencingTokens, HoldsToken
    <2>3. HasClaimed(w)
      BY <1>1, <2>1, <2>2 DEF HasClaimed
    <2>4. worker[v].gen # worker[w].gen
      BY <1>1, <2>3 DEF FencingInv, FencingTokens
    <2>5. QED
      BY <2>1, <2>2, <2>4
  <1>2. QED
    BY <1>1

(* The publish transaction extends one history, by the attempt of a worker *)
(* that carries the newest token.                                          *)
LEMMA PublicationIsNewest ==
  ASSUME FencingInv, NEW w \in Workers, worker[w].pc = "pipeline",
         PublishTransaction(w), NEW pc, pc # "pipeline",
         worker' = [worker EXCEPT ![w].pc = pc]
  PROVE  PublishesNewest
  <1> DEFINE a == worker[w].attempt
  <1>1. worker'[w] # worker[w]
    BY DEF FencingInv, TypeInv, WorkersTyped, WorkerRecord
  <1>2. /\ versions' = [versions EXCEPT ![FileOf[a]] = Append(@, a)]
        /\ HoldsToken(w) /\ FileExists(FileOf[a])
    BY DEF PublishTransaction
  <1>3. \A f \in Files : versions'[f] # versions[f] =>
          versions'[f] = Append(versions[f], a)
    BY <1>2 DEF FencingInv, TypeInv, RowsTyped
  <1>4. \A v \in Workers \ {w} :
          HasClaimed(v) /\ worker[v].attempt = a => worker[v].gen < worker[w].gen
    BY <1>2, HolderIsNewest
  <1>5. QED
    BY <1>1, <1>3, <1>4 DEF PublishesNewest

(* No other step extends a history; deleting a file empties its own.       *)
LEMMA PublishStep == FencingInv /\ [Next]_vars => PublishesNewest
  <1> SUFFICES ASSUME FencingInv, [Next]_vars PROVE PublishesNewest
    OBVIOUS
  <1>1. ASSUME NEW c \in Callers, Dispatch(c) PROVE PublishesNewest
    BY <1>1 DEF PublishesNewest, Dispatch
  <1>2. ASSUME NEW c \in Callers, MarkQueued(c) PROVE PublishesNewest
    BY <1>2 DEF PublishesNewest, MarkQueued
  <1>3. ASSUME NEW c \in Callers, Enqueue(c) PROVE PublishesNewest
    BY <1>3 DEF PublishesNewest, Enqueue
  <1>4. ASSUME NEW c \in Callers, EnqueueThrows(c) PROVE PublishesNewest
    BY <1>4 DEF PublishesNewest, EnqueueThrows
  <1>5. ASSUME NEW c \in Callers, RollBackDispatch(c) PROVE PublishesNewest
    BY <1>5 DEF PublishesNewest, RollBackDispatch
  <1>6. ASSUME NEW c \in Callers, GiveUpExpired(c) PROVE PublishesNewest
    BY <1>6 DEF PublishesNewest, GiveUpExpired
  <1>7. ASSUME NEW c \in Callers, RequeueExpired(c) PROVE PublishesNewest
    BY <1>7 DEF PublishesNewest, RequeueExpired
  <1>8. ASSUME NEW c \in Callers, InsertRejected(c) PROVE PublishesNewest
    BY <1>8 DEF PublishesNewest, InsertRejected
  <1>9. ASSUME NEW c \in Callers, RenameJob(c) PROVE PublishesNewest
    BY <1>9 DEF PublishesNewest, RenameJob
  <1>10. ASSUME NEW c \in Callers, UncountFile(c) PROVE PublishesNewest
    BY <1>10 DEF PublishesNewest, UncountFile
  <1>11. ASSUME NEW c \in Callers, CallerDies(c) PROVE PublishesNewest
    BY <1>11 DEF PublishesNewest, CallerDies
  <1>12. ASSUME NEW c \in Callers, NEW a \in Attempts, SweepPending(c, a) PROVE PublishesNewest
    BY <1>12 DEF PublishesNewest, SweepPending
  <1>13. ASSUME NEW c \in Callers, NEW a \in Attempts, ReadExpired(c, a) PROVE PublishesNewest
    BY <1>13 DEF PublishesNewest, ReadExpired
  <1>14. ASSUME NEW c \in Callers, NEW f \in Files, ResetFile(c, f) PROVE PublishesNewest
    BY <1>14 DEF PublishesNewest, ResetFile
  <1>15. ASSUME NEW c \in Callers, NEW f \in Files, FindToDelete(c, f) PROVE PublishesNewest
    BY <1>15 DEF PublishesNewest, FindToDelete
  <1>16. ASSUME NEW a \in Attempts, RequeueRetrying(a) PROVE PublishesNewest
    BY <1>16 DEF PublishesNewest, RequeueRetrying
  <1>17. ASSUME NEW a \in Attempts, RequeueQueued(a) PROVE PublishesNewest
    BY <1>17 DEF PublishesNewest, RequeueQueued
  <1>18. ASSUME NEW a \in Attempts, RequeueProcessing(a) PROVE PublishesNewest
    BY <1>18 DEF PublishesNewest, RequeueProcessing
  <1>19. ASSUME NEW w \in Workers, NEW k \in JobKeys, TakeJob(w, k) PROVE PublishesNewest
    BY <1>19 DEF PublishesNewest, TakeJob
  <1>20. ASSUME NEW w \in Workers, ClaimRefused(w) PROVE PublishesNewest
    BY <1>20 DEF PublishesNewest, ClaimRefused
  <1>21. ASSUME NEW w \in Workers, BeginPipeline(w) PROVE PublishesNewest
    BY <1>21 DEF PublishesNewest, BeginPipeline
  <1>22. ASSUME NEW w \in Workers, PipelineThrows(w) PROVE PublishesNewest
    BY <1>22 DEF PublishesNewest, PipelineThrows
  <1>23. ASSUME NEW w \in Workers, Publish(w) PROVE PublishesNewest
    <2>1. AfterPublish(w) # "pipeline"
      BY DEF AfterPublish
    <2>2. QED
      BY <1>23, <2>1, PublicationIsNewest DEF Publish
  <1>24. ASSUME NEW w \in Workers, PublishUnacknowledged(w) PROVE PublishesNewest
    <2>1. FailurePc(w, TRUE) # "pipeline"
      BY DEF FailurePc
    <2>2. QED
      BY <1>24, <2>1, PublicationIsNewest DEF PublishUnacknowledged
  <1>25. ASSUME NEW w \in Workers, PublishRefused(w) PROVE PublishesNewest
    BY <1>25 DEF PublishesNewest, PublishRefused
  <1>26. ASSUME NEW w \in Workers, CountFile(w) PROVE PublishesNewest
    BY <1>26 DEF PublishesNewest, CountFile
  <1>27. ASSUME NEW w \in Workers, CountThrows(w) PROVE PublishesNewest
    BY <1>27 DEF PublishesNewest, CountThrows
  <1>28. ASSUME NEW w \in Workers, RecordRetry(w) PROVE PublishesNewest
    BY <1>28 DEF PublishesNewest, RecordRetry
  <1>29. ASSUME NEW w \in Workers, RecordFailure(w) PROVE PublishesNewest
    BY <1>29 DEF PublishesNewest, RecordFailure
  <1>30. ASSUME NEW w \in Workers, FinishJob(w) PROVE PublishesNewest
    BY <1>30 DEF PublishesNewest, FinishJob
  <1>31. ASSUME NEW w \in Workers, HandlerThrows(w) PROVE PublishesNewest
    BY <1>31 DEF PublishesNewest, HandlerThrows
  <1>32. ASSUME NEW w \in Workers, WorkerDies(w) PROVE PublishesNewest
    BY <1>32 DEF PublishesNewest, WorkerDies
  <1>33. ASSUME NEW k \in JobKeys, StallDead(k) PROVE PublishesNewest
    BY <1>33 DEF PublishesNewest, StallDead
  <1>34. ASSUME NEW k \in JobKeys, StallAlive(k) PROVE PublishesNewest
    BY <1>34 DEF PublishesNewest, StallAlive
  <1>35. ASSUME NEW w \in Workers, ClaimAttempt(w) PROVE PublishesNewest
    BY <1>35 DEF PublishesNewest, ClaimAttempt
  <1>36. ASSUME NEW c \in Callers, NEW a \in Attempts, Upload(c, a) PROVE PublishesNewest
    BY <1>36 DEF PublishesNewest, Upload
  <1>37. ASSUME NEW c \in Callers, InsertAttempt(c) PROVE PublishesNewest
    BY <1>37 DEF PublishesNewest, InsertAttempt
  <1>38. ASSUME NEW c \in Callers, DeleteFile(c) PROVE PublishesNewest
    <2>1. \A f \in Files : f # caller[c].file => versions'[f] = versions[f]
      BY <1>38 DEF FencingInv, TypeInv, RowsTyped, DeleteFile
    <2>2. \A f \in Files : f = caller[c].file => fileStatus'[f] = "deleted"
      BY <1>38 DEF FencingInv, TypeInv, RowsTyped, DeleteFile
    <2>3. QED
      BY <2>1, <2>2 DEF PublishesNewest
  <1>39. ASSUME NEW c \in Callers, DispatchThrows(c) PROVE PublishesNewest
    BY <1>39 DEF PublishesNewest, DispatchThrows
  <1>40. CASE UNCHANGED vars
    BY <1>40 DEF PublishesNewest, vars
  <1>41. QED
    BY <1>1, <1>2, <1>3, <1>4, <1>5, <1>6, <1>7, <1>8, <1>9, <1>10, <1>11,
       <1>12, <1>13, <1>14, <1>15, <1>16, <1>17, <1>18, <1>19, <1>20, <1>21,
       <1>22, <1>23, <1>24, <1>25, <1>26, <1>27, <1>28, <1>29, <1>30, <1>31,
       <1>32, <1>33, <1>34, <1>35, <1>36, <1>37, <1>38, <1>39, <1>40 DEF Next,
       CallerStep, Request, WorkerStep, Faulty

(* Every version is committed by the worker with the newest token of its   *)
(* attempt, and only deleting a file takes versions away.                  *)
THEOREM NewestPublishes == Spec => NewestWorkerPublishes
  <1>1. FencingInv /\ [Next]_vars => [PublishesNewest]_vars
    BY PublishStep
  <1>2. QED
    BY <1>1, FencingInit, FencingStep, PTL DEF Spec, NewestWorkerPublishes, PublishesNewest

-----------------------------------------------------------------------------
(* How a file is settled: it is completed only together with a version in  *)
(* its history, and failed only by the attempt that it was waiting for;    *)
(* and all of the processing keeps to the protocol of FencedWork.          *)
(* Completion.                                                             *)

PublicationInv == FencingInv /\ PublicationConsistent

(* A step that publishes nothing and completes nothing.                    *)
Quiet ==
  /\ versions' = versions
  /\ \A a \in Attempts :
       attempt'[a].status = "completed" => attempt[a].status = "completed"
  /\ \A f \in Files : fileStatus'[f] = "completed" => fileStatus[f] = "completed"

LEMMA UnpublishedStep ==
  ASSUME PublicationConsistent, Quiet
  PROVE  PublicationConsistent'
  BY DEF PublicationConsistent, Quiet, Published

(* A conditional update of an attempt to another status completes nothing. *)
LEMMA MoveIsQuiet ==
  ASSUME TypeInv, NEW a, NEW from,
         NEW to \in ActiveStatuses,
         attempt' = attempt \/ attempt' = Moved(a, from, to),
         UNCHANGED <<versions, fileStatus>>
  PROVE  Quiet
  <1>1. to # "completed"
    BY DEF ActiveStatuses
  <1>2. \A b \in Attempts : attempt'[b] = attempt[b] \/ attempt'[b].status = to
    BY DEF Moved, TypeInv, RowsTyped, AttemptRow
  <1>3. QED
    BY <1>1, <1>2 DEF Quiet

(* The publish transaction adds a version the history does not have yet,   *)
(* and completes the attempt and the file it belongs to.                   *)
LEMMA PublicationStaysConsistent ==
  ASSUME PublicationInv, NEW w \in Workers, worker[w].pc = "pipeline",
         PublishTransaction(w)
  PROVE  PublicationConsistent'
  <1>0. PICK a : a = worker[w].attempt
    OBVIOUS
  <1> DEFINE g == FileOf[a]
             n == Len(versions[g])
  <1>1. TypeInv
    BY DEF PublicationInv, FencingInv
  <1>2. a \in Attempts /\ g \in Files
    BY <1>0, <1>1, IdAssumption DEF TypeInv, WorkersTyped
  <1>3. /\ versions[g] \in Seq(Attempts) /\ n \in Nat
        /\ DOMAIN versions[g] = 1..n
    BY <1>1, <1>2 DEF TypeInv, RowsTyped
  <1>4. /\ \A f \in Files : f # g => versions'[f] = versions[f]
        /\ versions'[g] = Append(versions[g], a)
    BY <1>0, <1>1, <1>2 DEF PublishTransaction, TypeInv, RowsTyped
  <1>5. /\ DOMAIN versions'[g] = 1..(n + 1)
        /\ versions'[g][n + 1] = a
        /\ \A m \in 1..n : versions'[g][m] = versions[g][m]
    BY <1>2, <1>3, <1>4
  <1>6. \A m \in 1..n : versions[g][m] # a
    BY <1>0, <1>3 DEF PublishTransaction, Published
  <1>7. \A f \in Files : \A k, m \in DOMAIN versions'[f] :
          versions'[f][k] = versions'[f][m] => k = m
    <2>1. ASSUME NEW f \in Files, f # g
          PROVE  \A k, m \in DOMAIN versions'[f] :
                   versions'[f][k] = versions'[f][m] => k = m
      BY <1>4, <2>1 DEF PublicationInv, PublicationConsistent
    <2>2. ASSUME NEW k \in 1..(n + 1), NEW m \in 1..(n + 1),
                 versions'[g][k] = versions'[g][m]
          PROVE  k = m
      <3>1. \A i, j \in 1..n : versions[g][i] = versions[g][j] => i = j
        BY <1>2, <1>3 DEF PublicationInv, PublicationConsistent
      <3>2. (k \in 1..n \/ k = n + 1) /\ (m \in 1..n \/ m = n + 1)
        BY <1>3
      <3>3. QED
        BY <1>5, <1>6, <2>2, <3>1, <3>2
    <2>3. QED
      BY <1>5, <2>1, <2>2
  <1>8. \A b \in Attempts : attempt'[b].status = "completed" => Published(b)'
    <2>1. Published(a)'
      <3>1. n + 1 \in DOMAIN versions'[g]
        BY <1>3, <1>5
      <3>2. QED
        BY <1>5, <3>1 DEF Published
    <2>2. ASSUME NEW b \in Attempts, Published(b) PROVE Published(b)'
      <3>1. CASE FileOf[b] = g
        <4>1. PICK m \in 1..n : versions[g][m] = b
          BY <1>3, <2>2, <3>1 DEF Published
        <4>2. m \in 1..(n + 1) /\ versions'[g][m] = b
          BY <1>3, <1>5, <4>1
        <4>3. QED
          BY <1>5, <3>1, <4>2 DEF Published
      <3>2. CASE FileOf[b] # g
        <4>1. versions'[FileOf[b]] = versions[FileOf[b]]
          BY <1>4, <3>2, IdAssumption
        <4>2. QED
          BY <2>2, <4>1 DEF Published
      <3>3. QED
        BY <3>1, <3>2
    <2>3. \A b \in Attempts \ {a} : attempt'[b] = attempt[b]
      BY <1>0, <1>1 DEF PublishTransaction, TypeInv, RowsTyped
    <2>4. QED
      BY <2>1, <2>2, <2>3 DEF PublicationInv, PublicationConsistent
  <1>9. \A f \in Files : fileStatus'[f] = "completed" => versions'[f] # <<>>
    <2>1. versions'[g] # <<>>
      BY <1>3, <1>4, <1>5
    <2>2. \A f \in Files : f # g => fileStatus'[f] = fileStatus[f]
      BY <1>0, <1>1 DEF PublishTransaction, TypeInv, RowsTyped
    <2>3. QED
      BY <1>4, <2>1, <2>2 DEF PublicationInv, PublicationConsistent
  <1>10. QED
    BY <1>7, <1>8, <1>9 DEF PublicationConsistent

(* Deleting a file takes its attempts and its history away together.       *)
LEMMA RemovalStaysConsistent ==
  ASSUME PublicationInv, NEW f,
         fileStatus' = [fileStatus EXCEPT ![f] = "deleted"],
         attempt' = [a \in Attempts |-> IF FileOf[a] = f THEN NoRow ELSE attempt[a]],
         versions' = [versions EXCEPT ![f] = <<>>]
  PROVE  PublicationConsistent'
  <1>1. TypeInv
    BY DEF PublicationInv, FencingInv
  <1>2. /\ f \in Files => versions'[f] = <<>> /\ fileStatus'[f] = "deleted"
        /\ \A g \in Files \ {f} : /\ versions'[g] = versions[g]
                                  /\ fileStatus'[g] = fileStatus[g]
    BY <1>1 DEF TypeInv, RowsTyped
  <1>3. \A g \in Files : \A k, m \in DOMAIN versions'[g] :
          versions'[g][k] = versions'[g][m] => k = m
    <2>1. ASSUME NEW g \in Files, NEW k \in DOMAIN versions'[g],
                 NEW m \in DOMAIN versions'[g], versions'[g][k] = versions'[g][m]
          PROVE  k = m
      <3>1. CASE g = f
        BY <1>2, <2>1, <3>1
      <3>2. CASE g # f
        BY <1>2, <2>1, <3>2 DEF PublicationInv, PublicationConsistent
      <3>3. QED
        BY <3>1, <3>2
    <2>2. QED
      BY <2>1
  <1>4. ASSUME NEW a \in Attempts, attempt'[a].status = "completed"
        PROVE  Published(a)'
    <2>1. FileOf[a] # f /\ attempt[a].status = "completed"
      BY <1>4 DEF NoRow
    <2>2. versions'[FileOf[a]] = versions[FileOf[a]]
      BY <1>2, <2>1, IdAssumption
    <2>3. QED
      BY <2>1, <2>2 DEF PublicationInv, PublicationConsistent, Published
  <1>5. \A g \in Files : fileStatus'[g] = "completed" => versions'[g] # <<>>
    BY <1>2 DEF PublicationInv, PublicationConsistent
  <1>6. QED
    BY <1>3, <1>4, <1>5 DEF PublicationConsistent

(* The inductive step: one case per action.                                *)
LEMMA PublicationStep == PublicationInv /\ [Next]_vars => PublicationInv'
  <1> SUFFICES ASSUME PublicationInv, [Next]_vars PROVE PublicationConsistent'
    BY FencingStep DEF PublicationInv
  <1>1. ASSUME NEW c \in Callers, Dispatch(c) PROVE Quiet
    <2>1. \/ attempt' = attempt
          \/ attempt' = Moved(caller[c].attempt, "enqueue_pending", "dispatching")
      BY <1>1 DEF Dispatch
    <2>2. UNCHANGED <<versions, fileStatus>>
      BY <1>1 DEF Dispatch
    <2>3. QED
      BY <2>1, <2>2, MoveIsQuiet DEF PublicationInv, FencingInv, ActiveStatuses
  <1>2. ASSUME NEW c \in Callers, MarkQueued(c) PROVE Quiet
    <2>1. \/ attempt' = attempt
          \/ attempt' = Moved(caller[c].attempt, "dispatching", "queued")
      BY <1>2 DEF MarkQueued
    <2>2. UNCHANGED <<versions, fileStatus>>
      BY <1>2 DEF MarkQueued
    <2>3. QED
      BY <2>1, <2>2, MoveIsQuiet DEF PublicationInv, FencingInv, ActiveStatuses
  <1>3. ASSUME NEW c \in Callers, Enqueue(c) PROVE Quiet
    BY <1>3 DEF PublicationInv, FencingInv, TypeInv, RowsTyped, Quiet, Enqueue
  <1>4. ASSUME NEW c \in Callers, EnqueueThrows(c) PROVE Quiet
    BY <1>4 DEF PublicationInv, FencingInv, TypeInv, RowsTyped, Quiet, EnqueueThrows
  <1>5. ASSUME NEW c \in Callers, RollBackDispatch(c) PROVE Quiet
    <2>1. \/ attempt' = attempt
          \/ attempt' = Moved(caller[c].attempt, "queued", "enqueue_pending")
      BY <1>5 DEF RollBackDispatch
    <2>2. UNCHANGED <<versions, fileStatus>>
      BY <1>5 DEF RollBackDispatch
    <2>3. QED
      BY <2>1, <2>2, MoveIsQuiet DEF PublicationInv, FencingInv, ActiveStatuses
  <1>6. ASSUME NEW c \in Callers, GiveUpExpired(c) PROVE Quiet
    <2>1. \/ UNCHANGED <<attempt, fileStatus>>
          \/ /\ attempt' = [attempt EXCEPT ![caller[c].attempt].status = "enqueue_failed",
                              ![caller[c].attempt].dispatches = caller[c].seen + 1]
             /\ fileStatus' = [fileStatus EXCEPT ![FileOf[caller[c].attempt]] = "failed"]
      BY <1>6 DEF GiveUpExpired
    <2>2. /\ \A a \in Attempts :
               attempt'[a] = attempt[a] \/ attempt'[a].status = "enqueue_failed"
          /\ \A f \in Files : fileStatus'[f] = fileStatus[f] \/ fileStatus'[f] = "failed"
      BY <2>1 DEF PublicationInv, FencingInv, TypeInv, RowsTyped, AttemptRow
    <2>3. QED
      BY <1>6, <2>2 DEF Quiet, GiveUpExpired
  <1>7. ASSUME NEW c \in Callers, RequeueExpired(c) PROVE Quiet
    <2>1. \/ UNCHANGED attempt
          \/ attempt' = [attempt EXCEPT ![caller[c].attempt].status = "enqueue_pending",
                                        ![caller[c].attempt].dispatches = caller[c].seen + 1]
      BY <1>7 DEF RequeueExpired
    <2>2. \A a \in Attempts :
            attempt'[a] = attempt[a] \/ attempt'[a].status = "enqueue_pending"
      BY <2>1 DEF PublicationInv, FencingInv, TypeInv, RowsTyped, AttemptRow
    <2>3. QED
      BY <1>7, <2>2 DEF Quiet, RequeueExpired
  <1>8. ASSUME NEW c \in Callers, InsertRejected(c) PROVE Quiet
    BY <1>8 DEF PublicationInv, FencingInv, TypeInv, RowsTyped, Quiet, InsertRejected
  <1>9. ASSUME NEW c \in Callers, RenameJob(c) PROVE Quiet
    BY <1>9 DEF PublicationInv, FencingInv, TypeInv, RowsTyped, Quiet, RenameJob
  <1>10. ASSUME NEW c \in Callers, UncountFile(c) PROVE Quiet
    BY <1>10 DEF PublicationInv, FencingInv, TypeInv, RowsTyped, Quiet, UncountFile
  <1>11. ASSUME NEW c \in Callers, CallerDies(c) PROVE Quiet
    BY <1>11 DEF PublicationInv, FencingInv, TypeInv, RowsTyped, Quiet, CallerDies
  <1>12. ASSUME NEW c \in Callers, NEW a \in Attempts, SweepPending(c, a)
         PROVE  Quiet
    BY <1>12 DEF PublicationInv, FencingInv, TypeInv, RowsTyped, Quiet, SweepPending
  <1>13. ASSUME NEW c \in Callers, NEW a \in Attempts, ReadExpired(c, a)
         PROVE  Quiet
    BY <1>13 DEF PublicationInv, FencingInv, TypeInv, RowsTyped, Quiet, ReadExpired
  <1>14. ASSUME NEW c \in Callers, NEW f \in Files, ResetFile(c, f) PROVE Quiet
    BY <1>14 DEF PublicationInv, FencingInv, TypeInv, RowsTyped, Quiet, ResetFile
  <1>15. ASSUME NEW c \in Callers, NEW f \in Files, FindToDelete(c, f)
         PROVE  Quiet
    BY <1>15 DEF PublicationInv, FencingInv, TypeInv, RowsTyped, Quiet, FindToDelete
  <1>16. ASSUME NEW a \in Attempts, RequeueRetrying(a) PROVE Quiet
    BY <1>16 DEF PublicationInv, FencingInv, TypeInv, RowsTyped, Quiet, RequeueRetrying
  <1>17. ASSUME NEW a \in Attempts, RequeueQueued(a) PROVE Quiet
    BY <1>17 DEF PublicationInv, FencingInv, TypeInv, RowsTyped, Quiet, RequeueQueued
  <1>18. ASSUME NEW a \in Attempts, RequeueProcessing(a) PROVE Quiet
    BY <1>18 DEF PublicationInv, FencingInv, TypeInv, RowsTyped, Quiet, RequeueProcessing
  <1>19. ASSUME NEW w \in Workers, NEW k \in JobKeys, TakeJob(w, k) PROVE Quiet
    BY <1>19 DEF PublicationInv, FencingInv, TypeInv, RowsTyped, Quiet, TakeJob
  <1>20. ASSUME NEW w \in Workers, ClaimRefused(w) PROVE Quiet
    BY <1>20 DEF PublicationInv, FencingInv, TypeInv, RowsTyped, Quiet, ClaimRefused
  <1>21. ASSUME NEW w \in Workers, BeginPipeline(w) PROVE Quiet
    BY <1>21 DEF PublicationInv, FencingInv, TypeInv, RowsTyped, Quiet, BeginPipeline
  <1>22. ASSUME NEW w \in Workers, PipelineThrows(w) PROVE Quiet
    BY <1>22 DEF PublicationInv, FencingInv, TypeInv, RowsTyped, Quiet, PipelineThrows
  <1>23. ASSUME NEW w \in Workers, Publish(w) PROVE PublicationConsistent'
    BY <1>23, PublicationStaysConsistent DEF Publish
  <1>24. ASSUME NEW w \in Workers, PublishUnacknowledged(w)
         PROVE  PublicationConsistent'
    BY <1>24, PublicationStaysConsistent DEF PublishUnacknowledged
  <1>25. ASSUME NEW w \in Workers, PublishRefused(w) PROVE Quiet
    BY <1>25 DEF PublicationInv, FencingInv, TypeInv, RowsTyped, Quiet, PublishRefused
  <1>26. ASSUME NEW w \in Workers, CountFile(w) PROVE Quiet
    BY <1>26 DEF PublicationInv, FencingInv, TypeInv, RowsTyped, Quiet, CountFile
  <1>27. ASSUME NEW w \in Workers, CountThrows(w) PROVE Quiet
    BY <1>27 DEF PublicationInv, FencingInv, TypeInv, RowsTyped, Quiet, CountThrows
  <1>28. ASSUME NEW w \in Workers, RecordRetry(w) PROVE Quiet
    <2>1. \/ attempt' = attempt
          \/ attempt' = Moved(worker[w].attempt, "processing", "retrying")
      BY <1>28 DEF RecordRetry
    <2>2. UNCHANGED <<versions, fileStatus>>
      BY <1>28 DEF RecordRetry
    <2>3. QED
      BY <2>1, <2>2, MoveIsQuiet DEF PublicationInv, FencingInv, ActiveStatuses
  <1>29. ASSUME NEW w \in Workers, RecordFailure(w) PROVE Quiet
    <2>1. \/ UNCHANGED <<attempt, fileStatus>>
          \/ /\ attempt' = [attempt EXCEPT ![worker[w].attempt].status = "failed"]
             /\ fileStatus' = [fileStatus EXCEPT ![FileOf[worker[w].attempt]] = "failed"]
      BY <1>29 DEF RecordFailure
    <2>2. /\ \A a \in Attempts : attempt'[a] = attempt[a] \/ attempt'[a].status = "failed"
          /\ \A f \in Files : fileStatus'[f] = fileStatus[f] \/ fileStatus'[f] = "failed"
      BY <2>1 DEF PublicationInv, FencingInv, TypeInv, RowsTyped, AttemptRow
    <2>3. QED
      BY <1>29, <2>2 DEF Quiet, RecordFailure
  <1>30. ASSUME NEW w \in Workers, FinishJob(w) PROVE Quiet
    BY <1>30 DEF PublicationInv, FencingInv, TypeInv, RowsTyped, Quiet, FinishJob
  <1>31. ASSUME NEW w \in Workers, HandlerThrows(w) PROVE Quiet
    BY <1>31 DEF PublicationInv, FencingInv, TypeInv, RowsTyped, Quiet, HandlerThrows
  <1>32. ASSUME NEW w \in Workers, WorkerDies(w) PROVE Quiet
    BY <1>32 DEF PublicationInv, FencingInv, TypeInv, RowsTyped, Quiet, WorkerDies
  <1>33. ASSUME NEW k \in JobKeys, StallDead(k) PROVE Quiet
    BY <1>33 DEF PublicationInv, FencingInv, TypeInv, RowsTyped, Quiet, StallDead
  <1>34. ASSUME NEW k \in JobKeys, StallAlive(k) PROVE Quiet
    BY <1>34 DEF PublicationInv, FencingInv, TypeInv, RowsTyped, Quiet, StallAlive
  <1>35. ASSUME NEW w \in Workers, ClaimAttempt(w) PROVE Quiet
    BY <1>35 DEF PublicationInv, FencingInv, TypeInv, RowsTyped, Quiet, ClaimAttempt
  <1>36. ASSUME NEW c \in Callers, NEW a \in Attempts, Upload(c, a) PROVE Quiet
    BY <1>36 DEF PublicationInv, FencingInv, TypeInv, RowsTyped, Quiet, NoRow, Upload
  <1>37. ASSUME NEW c \in Callers, InsertAttempt(c) PROVE Quiet
    BY <1>37 DEF PublicationInv, FencingInv, TypeInv, RowsTyped, Quiet, NoRow, InsertAttempt
  <1>38. ASSUME NEW c \in Callers, DeleteFile(c) PROVE PublicationConsistent'
    <2>1. PICK f : f = caller[c].file
      OBVIOUS
    <2>2. QED
      BY <1>38, <2>1, RemovalStaysConsistent DEF DeleteFile
  <1>39. ASSUME NEW c \in Callers, DispatchThrows(c) PROVE Quiet
    <2>1. \/ attempt' = attempt
          \/ attempt' = Moved(caller[c].attempt, "enqueue_pending", "dispatching")
          \/ attempt' = Moved(caller[c].attempt, "dispatching", "queued")
      BY <1>39 DEF DispatchThrows
    <2>2. UNCHANGED <<versions, fileStatus>>
      BY <1>39 DEF DispatchThrows
    <2>3. QED
      BY <2>1, <2>2, MoveIsQuiet DEF PublicationInv, FencingInv, ActiveStatuses
  <1>40. CASE UNCHANGED vars
    <2>1. UNCHANGED <<versions, attempt, fileStatus>>
      BY <1>40 DEF vars
    <2>2. Quiet
      BY <2>1 DEF Quiet
    <2>3. QED
      BY <2>2, UnpublishedStep DEF PublicationInv
  <1>41. QED
    BY <1>1, <1>2, <1>3, <1>4, <1>5, <1>6, <1>7, <1>8, <1>9, <1>10, <1>11,
       <1>12, <1>13, <1>14, <1>15, <1>16, <1>17, <1>18, <1>19, <1>20, <1>21,
       <1>22, <1>23, <1>24, <1>25, <1>26, <1>27, <1>28, <1>29, <1>30, <1>31,
       <1>32, <1>33, <1>34, <1>35, <1>36, <1>37, <1>38, <1>39, <1>40,
       UnpublishedStep DEF PublicationInv, Next, CallerStep, Request, WorkerStep, Faulty

(* The published history is sound: redelivery and resurrection never give  *)
(* an attempt a second version, a completed attempt has its version, and a *)
(* file shown as completed has a document to open.                         *)
THEOREM PublicationSound == Spec => []PublicationConsistent
  <1>1. Init => PublicationConsistent
    BY DEF Init, PublicationConsistent, NoRow
  <1>2. Init => PublicationInv
    BY <1>1, FencingInit DEF PublicationInv
  <1>3. PublicationInv => PublicationConsistent
    BY DEF PublicationInv
  <1>4. QED
    BY <1>2, <1>3, PublicationStep, PTL DEF Spec

-----------------------------------------------------------------------------
(* Failure.                                                                *)

(* What OldAttemptNeverFailsFile says of one step.                         *)
FailsOwnAttempt ==
  \A f \in Files :
    fileStatus[f] # "failed" /\ fileStatus'[f] = "failed" =>
      \A a \in Attempts : FileOf[a] = f => attempt'[a].status \notin ActiveStatuses

(* Failing a file together with the attempt under way leaves none under    *)
(* way, because the file has only that one.                                *)
LEMMA FailureIsItsOwn ==
  ASSUME OneActiveInv, NEW a \in Attempts, Active(a),
         attempt'[a].status \notin ActiveStatuses,
         \A b \in Attempts \ {a} : attempt'[b] = attempt[b],
         fileStatus' = [fileStatus EXCEPT ![FileOf[a]] = "failed"]
  PROVE  FailsOwnAttempt
  <1>1. TypeInv
    BY DEF OneActiveInv, FencingInv
  <1>2. \A b \in Attempts : b # a /\ FileOf[b] = FileOf[a] => ~Active(b)
    BY <1>1, OneActiveMeaning DEF OneActiveInv
  <1>3. \A b \in Attempts :
          FileOf[b] = FileOf[a] => attempt'[b].status \notin ActiveStatuses
    BY <1>2 DEF Active
  <1>4. \A f \in Files : f # FileOf[a] => fileStatus'[f] = fileStatus[f]
    BY <1>1 DEF TypeInv, RowsTyped
  <1>5. QED
    BY <1>3, <1>4 DEF FailsOwnAttempt

(* Only giving up a dispatch and recording a failure mark a file failed.   *)
LEMMA FailureStep == OneActiveInv /\ [Next]_vars => FailsOwnAttempt
  <1> SUFFICES ASSUME OneActiveInv, [Next]_vars PROVE FailsOwnAttempt
    OBVIOUS
  <1>1. ASSUME NEW c \in Callers, Dispatch(c) PROVE FailsOwnAttempt
    BY <1>1 DEF FailsOwnAttempt, Dispatch
  <1>2. ASSUME NEW c \in Callers, MarkQueued(c) PROVE FailsOwnAttempt
    BY <1>2 DEF FailsOwnAttempt, MarkQueued
  <1>3. ASSUME NEW c \in Callers, Enqueue(c) PROVE FailsOwnAttempt
    BY <1>3 DEF FailsOwnAttempt, Enqueue
  <1>4. ASSUME NEW c \in Callers, EnqueueThrows(c) PROVE FailsOwnAttempt
    BY <1>4 DEF FailsOwnAttempt, EnqueueThrows
  <1>5. ASSUME NEW c \in Callers, RollBackDispatch(c) PROVE FailsOwnAttempt
    BY <1>5 DEF FailsOwnAttempt, RollBackDispatch
  <1>6. ASSUME NEW c \in Callers, GiveUpExpired(c) PROVE FailsOwnAttempt
    <2>1. caller[c].attempt \in Attempts
      BY <1>6 DEF OneActiveInv, FencingInv, TypeInv, CallersTyped, GiveUpExpired
    <2>2. CASE attempt[caller[c].attempt].status = "dispatching"
      <3>1. PICK a \in Attempts : a = caller[c].attempt
        BY <2>1
      <3>2. Active(a)
        BY <2>2, <3>1 DEF Active, ActiveStatuses
      <3>3. /\ attempt'[a].status \notin ActiveStatuses
            /\ \A b \in Attempts \ {a} : attempt'[b] = attempt[b]
        BY <1>6, <2>2, <3>1 DEF OneActiveInv, FencingInv, TypeInv, RowsTyped,
           AttemptRow, ActiveStatuses, GiveUpExpired
      <3>4. fileStatus' = [fileStatus EXCEPT ![FileOf[a]] = "failed"]
        BY <1>6, <2>2, <3>1 DEF GiveUpExpired
      <3>5. QED
        BY <3>2, <3>3, <3>4, FailureIsItsOwn
    <2>3. CASE attempt[caller[c].attempt].status # "dispatching"
      BY <1>6, <2>3 DEF GiveUpExpired, FailsOwnAttempt
    <2>4. QED
      BY <2>2, <2>3
  <1>7. ASSUME NEW c \in Callers, RequeueExpired(c) PROVE FailsOwnAttempt
    BY <1>7 DEF FailsOwnAttempt, RequeueExpired
  <1>8. ASSUME NEW c \in Callers, InsertRejected(c) PROVE FailsOwnAttempt
    BY <1>8 DEF FailsOwnAttempt, InsertRejected
  <1>9. ASSUME NEW c \in Callers, RenameJob(c) PROVE FailsOwnAttempt
    BY <1>9 DEF FailsOwnAttempt, RenameJob
  <1>10. ASSUME NEW c \in Callers, UncountFile(c) PROVE FailsOwnAttempt
    BY <1>10 DEF FailsOwnAttempt, UncountFile
  <1>11. ASSUME NEW c \in Callers, CallerDies(c) PROVE FailsOwnAttempt
    BY <1>11 DEF FailsOwnAttempt, CallerDies
  <1>12. ASSUME NEW c \in Callers, NEW a \in Attempts, SweepPending(c, a)
         PROVE  FailsOwnAttempt
    BY <1>12 DEF FailsOwnAttempt, SweepPending
  <1>13. ASSUME NEW c \in Callers, NEW a \in Attempts, ReadExpired(c, a)
         PROVE  FailsOwnAttempt
    BY <1>13 DEF FailsOwnAttempt, ReadExpired
  <1>14. ASSUME NEW c \in Callers, NEW f \in Files, ResetFile(c, f)
         PROVE  FailsOwnAttempt
    BY <1>14 DEF OneActiveInv, FencingInv, TypeInv, RowsTyped, FailsOwnAttempt, ResetFile
  <1>15. ASSUME NEW c \in Callers, NEW f \in Files, FindToDelete(c, f)
         PROVE  FailsOwnAttempt
    BY <1>15 DEF FailsOwnAttempt, FindToDelete
  <1>16. ASSUME NEW a \in Attempts, RequeueRetrying(a) PROVE FailsOwnAttempt
    BY <1>16 DEF FailsOwnAttempt, RequeueRetrying
  <1>17. ASSUME NEW a \in Attempts, RequeueQueued(a) PROVE FailsOwnAttempt
    BY <1>17 DEF FailsOwnAttempt, RequeueQueued
  <1>18. ASSUME NEW a \in Attempts, RequeueProcessing(a) PROVE FailsOwnAttempt
    BY <1>18 DEF FailsOwnAttempt, RequeueProcessing
  <1>19. ASSUME NEW w \in Workers, NEW k \in JobKeys, TakeJob(w, k)
         PROVE  FailsOwnAttempt
    BY <1>19 DEF FailsOwnAttempt, TakeJob
  <1>20. ASSUME NEW w \in Workers, ClaimRefused(w) PROVE FailsOwnAttempt
    BY <1>20 DEF FailsOwnAttempt, ClaimRefused
  <1>21. ASSUME NEW w \in Workers, BeginPipeline(w) PROVE FailsOwnAttempt
    BY <1>21 DEF OneActiveInv, FencingInv, TypeInv, RowsTyped, FailsOwnAttempt, BeginPipeline
  <1>22. ASSUME NEW w \in Workers, PipelineThrows(w) PROVE FailsOwnAttempt
    BY <1>22 DEF FailsOwnAttempt, PipelineThrows
  <1>23. ASSUME NEW w \in Workers, Publish(w) PROVE FailsOwnAttempt
    BY <1>23 DEF OneActiveInv, FencingInv, TypeInv, RowsTyped, FailsOwnAttempt, Publish, PublishTransaction
  <1>24. ASSUME NEW w \in Workers, PublishUnacknowledged(w)
         PROVE  FailsOwnAttempt
    BY <1>24 DEF OneActiveInv, FencingInv, TypeInv, RowsTyped, FailsOwnAttempt,
       PublishUnacknowledged, PublishTransaction
  <1>25. ASSUME NEW w \in Workers, PublishRefused(w) PROVE FailsOwnAttempt
    BY <1>25 DEF FailsOwnAttempt, PublishRefused
  <1>26. ASSUME NEW w \in Workers, CountFile(w) PROVE FailsOwnAttempt
    BY <1>26 DEF FailsOwnAttempt, CountFile
  <1>27. ASSUME NEW w \in Workers, CountThrows(w) PROVE FailsOwnAttempt
    BY <1>27 DEF FailsOwnAttempt, CountThrows
  <1>28. ASSUME NEW w \in Workers, RecordRetry(w) PROVE FailsOwnAttempt
    BY <1>28 DEF FailsOwnAttempt, RecordRetry
  <1>29. ASSUME NEW w \in Workers, RecordFailure(w) PROVE FailsOwnAttempt
    <2>1. worker[w].attempt \in Attempts
      BY <1>29 DEF OneActiveInv, FencingInv, TypeInv, WorkersTyped, RecordFailure
    <2>2. CASE HoldsToken(w)
      <3>1. PICK a \in Attempts : a = worker[w].attempt
        BY <2>1
      <3>2. Active(a)
        BY <2>2, <3>1 DEF HoldsToken, Active, ActiveStatuses
      <3>3. /\ attempt'[a].status \notin ActiveStatuses
            /\ \A b \in Attempts \ {a} : attempt'[b] = attempt[b]
        BY <1>29, <2>2, <3>1 DEF OneActiveInv, FencingInv, TypeInv, RowsTyped,
           AttemptRow, ActiveStatuses, RecordFailure
      <3>4. fileStatus' = [fileStatus EXCEPT ![FileOf[a]] = "failed"]
        BY <1>29, <2>2, <3>1 DEF RecordFailure
      <3>5. QED
        BY <3>2, <3>3, <3>4, FailureIsItsOwn
    <2>3. CASE ~HoldsToken(w)
      BY <1>29, <2>3 DEF RecordFailure, FailsOwnAttempt
    <2>4. QED
      BY <2>2, <2>3
  <1>30. ASSUME NEW w \in Workers, FinishJob(w) PROVE FailsOwnAttempt
    BY <1>30 DEF FailsOwnAttempt, FinishJob
  <1>31. ASSUME NEW w \in Workers, HandlerThrows(w) PROVE FailsOwnAttempt
    BY <1>31 DEF FailsOwnAttempt, HandlerThrows
  <1>32. ASSUME NEW w \in Workers, WorkerDies(w) PROVE FailsOwnAttempt
    BY <1>32 DEF FailsOwnAttempt, WorkerDies
  <1>33. ASSUME NEW k \in JobKeys, StallDead(k) PROVE FailsOwnAttempt
    BY <1>33 DEF FailsOwnAttempt, StallDead
  <1>34. ASSUME NEW k \in JobKeys, StallAlive(k) PROVE FailsOwnAttempt
    BY <1>34 DEF FailsOwnAttempt, StallAlive
  <1>35. ASSUME NEW w \in Workers, ClaimAttempt(w) PROVE FailsOwnAttempt
    BY <1>35 DEF FailsOwnAttempt, ClaimAttempt
  <1>36. ASSUME NEW c \in Callers, NEW a \in Attempts, Upload(c, a)
         PROVE  FailsOwnAttempt
    BY <1>36 DEF OneActiveInv, FencingInv, TypeInv, RowsTyped, FailsOwnAttempt, Upload
  <1>37. ASSUME NEW c \in Callers, InsertAttempt(c) PROVE FailsOwnAttempt
    BY <1>37 DEF FailsOwnAttempt, InsertAttempt
  <1>38. ASSUME NEW c \in Callers, DeleteFile(c) PROVE FailsOwnAttempt
    BY <1>38 DEF OneActiveInv, FencingInv, TypeInv, RowsTyped, FailsOwnAttempt, DeleteFile
  <1>39. ASSUME NEW c \in Callers, DispatchThrows(c) PROVE FailsOwnAttempt
    BY <1>39 DEF FailsOwnAttempt, DispatchThrows
  <1>40. CASE UNCHANGED vars
    BY <1>40 DEF FailsOwnAttempt, vars
  <1>41. QED
    BY <1>1, <1>2, <1>3, <1>4, <1>5, <1>6, <1>7, <1>8, <1>9, <1>10, <1>11,
       <1>12, <1>13, <1>14, <1>15, <1>16, <1>17, <1>18, <1>19, <1>20, <1>21,
       <1>22, <1>23, <1>24, <1>25, <1>26, <1>27, <1>28, <1>29, <1>30, <1>31,
       <1>32, <1>33, <1>34, <1>35, <1>36, <1>37, <1>38, <1>39, <1>40 DEF Next,
       CallerStep, Request, WorkerStep, Faulty

(* A file is only failed by the attempt it was waiting for: a stale worker *)
(* of an old attempt, or a dispatch given up late, never fails a file that *)
(* was reprocessed since.                                                  *)
THEOREM OwnAttemptFails == Spec => OldAttemptNeverFailsFile
  <1>1. Init => OneActiveInv
    BY FencingInit DEF Init, OneActiveInv, OneActiveAttempt, NoRow
  <1>2. OneActiveInv /\ [Next]_vars => [FailsOwnAttempt]_vars
    BY FailureStep
  <1>3. QED
    BY <1>1, <1>2, OneActiveStep, PTL DEF Spec, OldAttemptNeverFailsFile, FailsOwnAttempt

-----------------------------------------------------------------------------
(* Refinement of FencedWork.                                               *)

Holds(a) == attempt[a].status = "processing"

Abstract == [Fenced!Next]_(Fenced!fencedVars)

(* A step that leaves tokens, holds and results alone ...                  *)
KeepsHolds ==
  /\ versions' = versions
  /\ \A a \in Attempts : /\ attempt'[a].gen = attempt[a].gen
                         /\ Holds(a)' = Holds(a)

(* ... or may give up the hold of one attempt.                             *)
LosesOnly(x) ==
  /\ versions' = versions
  /\ \A a \in Attempts : attempt'[a].gen = attempt[a].gen
  /\ \A a \in Attempts \ {x} : Holds(a)' = Holds(a)
  /\ Holds(x)' => Holds(x)

Relinquishes == \E x \in Attempts : LosesOnly(x)

LEMMA KeepingStutters ==
  ASSUME KeepsHolds
  PROVE  Abstract
  <1>1. \A a \in Attempts : Published(a)' = Published(a)
    BY DEF KeepsHolds, Published
  <1>2. [a \in Attempts |-> Published(a)]' = [a \in Attempts |-> Published(a)]
    BY <1>1
  <1>3. [a \in Attempts |-> attempt[a].gen]' = [a \in Attempts |-> attempt[a].gen]
    BY DEF KeepsHolds
  <1>4. [a \in Attempts |-> Holds(a)]' = [a \in Attempts |-> Holds(a)]
    BY DEF KeepsHolds
  <1>5. QED
    BY <1>2, <1>3, <1>4 DEF Abstract, Fenced!fencedVars, Holds

LEMMA LosingReleases ==
  ASSUME Relinquishes
  PROVE  Abstract
  <1>1. PICK x \in Attempts : LosesOnly(x)
    BY DEF Relinquishes
  <1>2. CASE Holds(x)' = Holds(x)
    <2>1. KeepsHolds
      BY <1>1, <1>2 DEF LosesOnly, KeepsHolds
    <2>2. QED
      BY <2>1, KeepingStutters
  <1>3. CASE Holds(x)' # Holds(x)
    <2>1. Holds(x) /\ ~Holds(x)'
      BY <1>1, <1>3 DEF LosesOnly, Holds
    <2>2. \A a \in Attempts : Published(a)' = Published(a)
      BY <1>1 DEF LosesOnly, Published
    <2>3. Fenced!Release(x)
      BY <1>1, <2>1, <2>2 DEF LosesOnly, Fenced!Release, Holds
    <2>4. QED
      BY <2>3 DEF Abstract, Fenced!Next
  <1>4. QED
    BY <1>2, <1>3

(* A conditional update of the status to another than processing.          *)
LEMMA MoveRelinquishes ==
  ASSUME TypeInv, NEW a \in Attempts, NEW from,
         NEW to \in ActiveStatuses, to # "processing",
         attempt' = attempt \/ attempt' = Moved(a, from, to),
         versions' = versions
  PROVE  Relinquishes
  <1>1. /\ attempt'[a] = attempt[a] \/ attempt'[a] = [attempt[a] EXCEPT !.status = to]
        /\ \A b \in Attempts \ {a} : attempt'[b] = attempt[b]
    BY DEF Moved, TypeInv, RowsTyped
  <1>2. attempt[a] \in AttemptRow
    BY DEF TypeInv, RowsTyped
  <1>3. attempt'[a].gen = attempt[a].gen /\ (Holds(a)' => Holds(a))
    BY <1>1, <1>2 DEF Holds, AttemptRow
  <1>4. LosesOnly(a)
    BY <1>1, <1>3 DEF LosesOnly, Holds
  <1>5. QED
    BY <1>4 DEF Relinquishes

(* The publish transaction commits the result of the attempt it holds.     *)
LEMMA PublicationCommits ==
  ASSUME FencingInv, NEW w \in Workers, worker[w].pc = "pipeline",
         PublishTransaction(w)
  PROVE  Abstract
  <1>1. PICK a \in Attempts : a = worker[w].attempt
    BY DEF FencingInv, TypeInv, WorkersTyped
  <1> DEFINE g == FileOf[a]
             n == Len(versions[g])
  <1>2. TypeInv /\ g \in Files
    BY IdAssumption DEF FencingInv
  <1>3. /\ versions[g] \in Seq(Attempts) /\ n \in Nat
        /\ DOMAIN versions[g] = 1..n
    BY <1>2 DEF TypeInv, RowsTyped
  <1>4. /\ \A f \in Files : f # g => versions'[f] = versions[f]
        /\ versions'[g] = Append(versions[g], a)
    BY <1>1, <1>2 DEF PublishTransaction, TypeInv, RowsTyped
  <1>5. /\ DOMAIN versions'[g] = 1..(n + 1)
        /\ versions'[g][n + 1] = a
        /\ \A m \in 1..n : versions'[g][m] = versions[g][m]
    BY <1>3, <1>4
  <1>6. ~Published(a) /\ Published(a)'
    <2>1. n + 1 \in DOMAIN versions'[g]
      BY <1>3, <1>5
    <2>2. QED
      BY <1>1, <1>5, <2>1 DEF PublishTransaction, Published
  <1>7. ASSUME NEW b \in Attempts \ {a}
        PROVE  Published(b)' = Published(b)
    <2>1. CASE FileOf[b] # g
      <3>1. versions'[FileOf[b]] = versions[FileOf[b]]
        BY <1>4, <2>1, IdAssumption
      <3>2. QED
        BY <3>1 DEF Published
    <2>2. CASE FileOf[b] = g
      <3>1. (\E m \in 1..(n + 1) : versions'[g][m] = b) <=> \E m \in 1..n : versions[g][m] = b
        <4>1. 1..(n + 1) = 1..n \cup {n + 1}
          BY <1>3
        <4>2. QED
          BY <1>5, <4>1
      <3>2. QED
        BY <1>3, <1>5, <2>2, <3>1 DEF Published
    <2>3. QED
      BY <2>1, <2>2
  <1>8. /\ Holds(a) /\ ~Holds(a)'
        /\ \A b \in Attempts : attempt'[b].gen = attempt[b].gen
        /\ \A b \in Attempts \ {a} : Holds(b)' = Holds(b)
    BY <1>1, <1>2 DEF PublishTransaction, HoldsToken, Holds, TypeInv, RowsTyped, AttemptRow
  <1>9. Fenced!Commit(a)
    BY <1>6, <1>7, <1>8 DEF Fenced!Commit, Holds
  <1>10. QED
    BY <1>9 DEF Abstract, Fenced!Next

(* Every step is a step of the protocol: one case per action.              *)
LEMMA RefinementStep == FencingInv /\ [Next]_vars => Abstract
  <1> SUFFICES ASSUME FencingInv, [Next]_vars PROVE Abstract
    OBVIOUS
  <1>1. ASSUME NEW c \in Callers, Dispatch(c) PROVE Relinquishes
    <2>1. caller[c].attempt \in Attempts
      BY <1>1 DEF FencingInv, TypeInv, CallersTyped, Dispatch
    <2>2. /\ versions' = versions
          /\ \/ attempt' = attempt
             \/ attempt' = Moved(caller[c].attempt, "enqueue_pending", "dispatching")
      BY <1>1 DEF Dispatch
    <2>3. QED
      BY <2>1, <2>2, MoveRelinquishes DEF FencingInv, ActiveStatuses
  <1>2. ASSUME NEW c \in Callers, MarkQueued(c) PROVE Relinquishes
    <2>1. caller[c].attempt \in Attempts
      BY <1>2 DEF FencingInv, TypeInv, CallersTyped, MarkQueued
    <2>2. /\ versions' = versions
          /\ \/ attempt' = attempt
             \/ attempt' = Moved(caller[c].attempt, "dispatching", "queued")
      BY <1>2 DEF MarkQueued
    <2>3. QED
      BY <2>1, <2>2, MoveRelinquishes DEF FencingInv, ActiveStatuses
  <1>3. ASSUME NEW c \in Callers, Enqueue(c) PROVE KeepsHolds
    BY <1>3 DEF KeepsHolds, Holds, Enqueue
  <1>4. ASSUME NEW c \in Callers, EnqueueThrows(c) PROVE KeepsHolds
    BY <1>4 DEF KeepsHolds, Holds, EnqueueThrows
  <1>5. ASSUME NEW c \in Callers, RollBackDispatch(c) PROVE Relinquishes
    <2>1. caller[c].attempt \in Attempts
      BY <1>5 DEF FencingInv, TypeInv, CallersTyped, RollBackDispatch
    <2>2. /\ versions' = versions
          /\ \/ attempt' = attempt
             \/ attempt' = Moved(caller[c].attempt, "queued", "enqueue_pending")
      BY <1>5 DEF RollBackDispatch
    <2>3. QED
      BY <2>1, <2>2, MoveRelinquishes DEF FencingInv, ActiveStatuses
  <1>6. ASSUME NEW c \in Callers, GiveUpExpired(c) PROVE Relinquishes
    <2>1. PICK x \in Attempts : x = caller[c].attempt
      BY <1>6 DEF FencingInv, TypeInv, CallersTyped, GiveUpExpired
    <2>2. /\ versions' = versions
          /\ \/ attempt' = attempt
             \/ attempt' = [attempt EXCEPT ![x].status = "enqueue_failed",
                                          ![x].dispatches = caller[c].seen + 1]
      BY <1>6, <2>1 DEF GiveUpExpired
    <2>3. \A b \in Attempts \ {x} : attempt'[b] = attempt[b]
      BY <2>2 DEF FencingInv, TypeInv, RowsTyped
    <2>4. attempt'[x].gen = attempt[x].gen /\ (Holds(x)' => Holds(x))
      BY <2>2 DEF FencingInv, TypeInv, RowsTyped, AttemptRow, Holds
    <2>5. LosesOnly(x)
      BY <2>2, <2>3, <2>4 DEF LosesOnly, Holds
    <2>6. QED
      BY <2>5 DEF Relinquishes
  <1>7. ASSUME NEW c \in Callers, RequeueExpired(c) PROVE Relinquishes
    <2>1. PICK x \in Attempts : x = caller[c].attempt
      BY <1>7 DEF FencingInv, TypeInv, CallersTyped, RequeueExpired
    <2>2. /\ versions' = versions
          /\ \/ attempt' = attempt
             \/ attempt' = [attempt EXCEPT ![x].status = "enqueue_pending",
                                          ![x].dispatches = caller[c].seen + 1]
      BY <1>7, <2>1 DEF RequeueExpired
    <2>3. \A b \in Attempts \ {x} : attempt'[b] = attempt[b]
      BY <2>2 DEF FencingInv, TypeInv, RowsTyped
    <2>4. attempt'[x].gen = attempt[x].gen /\ (Holds(x)' => Holds(x))
      BY <2>2 DEF FencingInv, TypeInv, RowsTyped, AttemptRow, Holds
    <2>5. LosesOnly(x)
      BY <2>2, <2>3, <2>4 DEF LosesOnly, Holds
    <2>6. QED
      BY <2>5 DEF Relinquishes
  <1>8. ASSUME NEW c \in Callers, InsertRejected(c) PROVE KeepsHolds
    BY <1>8 DEF KeepsHolds, Holds, InsertRejected
  <1>9. ASSUME NEW c \in Callers, RenameJob(c) PROVE KeepsHolds
    BY <1>9 DEF FencingInv, TypeInv, RowsTyped, AttemptRow, KeepsHolds, Holds, RenameJob
  <1>10. ASSUME NEW c \in Callers, UncountFile(c) PROVE KeepsHolds
    BY <1>10 DEF KeepsHolds, Holds, UncountFile
  <1>11. ASSUME NEW c \in Callers, CallerDies(c) PROVE KeepsHolds
    BY <1>11 DEF KeepsHolds, Holds, CallerDies
  <1>12. ASSUME NEW c \in Callers, NEW a \in Attempts, SweepPending(c, a)
         PROVE  KeepsHolds
    BY <1>12 DEF KeepsHolds, Holds, SweepPending
  <1>13. ASSUME NEW c \in Callers, NEW a \in Attempts, ReadExpired(c, a)
         PROVE  KeepsHolds
    BY <1>13 DEF KeepsHolds, Holds, ReadExpired
  <1>14. ASSUME NEW c \in Callers, NEW f \in Files, ResetFile(c, f)
         PROVE  KeepsHolds
    BY <1>14 DEF KeepsHolds, Holds, ResetFile
  <1>15. ASSUME NEW c \in Callers, NEW f \in Files, FindToDelete(c, f)
         PROVE  KeepsHolds
    BY <1>15 DEF KeepsHolds, Holds, FindToDelete
  <1>16. ASSUME NEW a \in Attempts, RequeueRetrying(a) PROVE Relinquishes
    <2>1. LosesOnly(a)
      BY <1>16 DEF FencingInv, TypeInv, RowsTyped, AttemptRow, LosesOnly, Holds, RequeueRetrying
    <2>2. QED
      BY <2>1 DEF Relinquishes
  <1>17. ASSUME NEW a \in Attempts, RequeueQueued(a) PROVE Relinquishes
    <2>1. LosesOnly(a)
      BY <1>17 DEF FencingInv, TypeInv, RowsTyped, AttemptRow, LosesOnly, Holds, RequeueQueued
    <2>2. QED
      BY <2>1 DEF Relinquishes
  <1>18. ASSUME NEW a \in Attempts, RequeueProcessing(a) PROVE Relinquishes
    <2>1. LosesOnly(a)
      BY <1>18 DEF FencingInv, TypeInv, RowsTyped, AttemptRow, LosesOnly, Holds, RequeueProcessing
    <2>2. QED
      BY <2>1 DEF Relinquishes
  <1>19. ASSUME NEW w \in Workers, NEW k \in JobKeys, TakeJob(w, k)
         PROVE  KeepsHolds
    BY <1>19 DEF KeepsHolds, Holds, TakeJob
  <1>20. ASSUME NEW w \in Workers, ClaimRefused(w) PROVE KeepsHolds
    BY <1>20 DEF KeepsHolds, Holds, ClaimRefused
  <1>21. ASSUME NEW w \in Workers, BeginPipeline(w) PROVE KeepsHolds
    BY <1>21 DEF KeepsHolds, Holds, BeginPipeline
  <1>22. ASSUME NEW w \in Workers, PipelineThrows(w) PROVE KeepsHolds
    BY <1>22 DEF KeepsHolds, Holds, PipelineThrows
  <1>23. ASSUME NEW w \in Workers, Publish(w) PROVE Abstract
    BY <1>23, PublicationCommits DEF Publish
  <1>24. ASSUME NEW w \in Workers, PublishUnacknowledged(w) PROVE Abstract
    BY <1>24, PublicationCommits DEF PublishUnacknowledged
  <1>25. ASSUME NEW w \in Workers, PublishRefused(w) PROVE KeepsHolds
    BY <1>25 DEF KeepsHolds, Holds, PublishRefused
  <1>26. ASSUME NEW w \in Workers, CountFile(w) PROVE KeepsHolds
    BY <1>26 DEF KeepsHolds, Holds, CountFile
  <1>27. ASSUME NEW w \in Workers, CountThrows(w) PROVE KeepsHolds
    BY <1>27 DEF KeepsHolds, Holds, CountThrows
  <1>28. ASSUME NEW w \in Workers, RecordRetry(w) PROVE Relinquishes
    <2>1. worker[w].attempt \in Attempts
      BY <1>28 DEF FencingInv, TypeInv, WorkersTyped, RecordRetry
    <2>2. /\ versions' = versions
          /\ \/ attempt' = attempt
             \/ attempt' = Moved(worker[w].attempt, "processing", "retrying")
      BY <1>28 DEF RecordRetry
    <2>3. QED
      BY <2>1, <2>2, MoveRelinquishes DEF FencingInv, ActiveStatuses
  <1>29. ASSUME NEW w \in Workers, RecordFailure(w) PROVE Relinquishes
    <2>1. PICK x \in Attempts : x = worker[w].attempt
      BY <1>29 DEF FencingInv, TypeInv, WorkersTyped, RecordFailure
    <2>2. /\ versions' = versions
          /\ \/ attempt' = attempt
             \/ attempt' = [attempt EXCEPT ![x].status = "failed"]
      BY <1>29, <2>1 DEF RecordFailure
    <2>3. \A b \in Attempts \ {x} : attempt'[b] = attempt[b]
      BY <2>2 DEF FencingInv, TypeInv, RowsTyped
    <2>4. attempt'[x].gen = attempt[x].gen /\ (Holds(x)' => Holds(x))
      BY <2>2 DEF FencingInv, TypeInv, RowsTyped, AttemptRow, Holds
    <2>5. LosesOnly(x)
      BY <2>2, <2>3, <2>4 DEF LosesOnly, Holds
    <2>6. QED
      BY <2>5 DEF Relinquishes
  <1>30. ASSUME NEW w \in Workers, FinishJob(w) PROVE KeepsHolds
    BY <1>30 DEF KeepsHolds, Holds, FinishJob
  <1>31. ASSUME NEW w \in Workers, HandlerThrows(w) PROVE KeepsHolds
    BY <1>31 DEF KeepsHolds, Holds, HandlerThrows
  <1>32. ASSUME NEW w \in Workers, WorkerDies(w) PROVE KeepsHolds
    BY <1>32 DEF KeepsHolds, Holds, WorkerDies
  <1>33. ASSUME NEW k \in JobKeys, StallDead(k) PROVE KeepsHolds
    BY <1>33 DEF KeepsHolds, Holds, StallDead
  <1>34. ASSUME NEW k \in JobKeys, StallAlive(k) PROVE KeepsHolds
    BY <1>34 DEF KeepsHolds, Holds, StallAlive
  <1>35. ASSUME NEW w \in Workers, ClaimAttempt(w) PROVE Abstract
    <2>1. PICK x \in Attempts : x = worker[w].attempt
      BY <1>35 DEF FencingInv, TypeInv, WorkersTyped, ClaimAttempt
    <2>2. /\ ~Holds(x) /\ Holds(x)' /\ versions' = versions
          /\ attempt[x].gen \in Nat /\ attempt'[x].gen = attempt[x].gen + 1
          /\ \A b \in Attempts \ {x} : attempt'[b] = attempt[b]
      BY <1>35, <2>1 DEF FencingInv, TypeInv, RowsTyped, AttemptRow, ClaimAttempt, Claimable, Holds
    <2>3. \A b \in Attempts : Published(b)' = Published(b)
      BY <2>2 DEF Published
    <2>4. \A b \in Attempts \ {x} : Holds(b)' = Holds(b)
      BY <2>2 DEF Holds
    <2>5. Fenced!Claim(x)
      BY <2>2, <2>3, <2>4 DEF Fenced!Claim, Holds
    <2>6. QED
      BY <2>5 DEF Abstract, Fenced!Next
  <1>36. ASSUME NEW c \in Callers, NEW a \in Attempts, Upload(c, a)
         PROVE  KeepsHolds
    <2>1. attempt[a] = NoRow
      BY <1>36 DEF FencingInv, RowsOfLiveFiles, FileExists, Upload
    <2>2. QED
      BY <1>36, <2>1 DEF FencingInv, TypeInv, RowsTyped, AttemptRow, KeepsHolds, Holds, NoRow, Upload
  <1>37. ASSUME NEW c \in Callers, InsertAttempt(c) PROVE KeepsHolds
    BY <1>37 DEF FencingInv, TypeInv, RowsTyped, AttemptRow, KeepsHolds, Holds, NoRow, InsertAttempt
  <1>38. ASSUME NEW c \in Callers, DeleteFile(c) PROVE Abstract
    <2> DEFINE S == {b \in Attempts : FileOf[b] = caller[c].file}
    <2>1. \A b \in S : attempt'[b].gen = 0 /\ ~Holds(b)' /\ ~Published(b)'
      BY <1>38, IdAssumption DEF FencingInv, TypeInv, RowsTyped, DeleteFile, NoRow, Holds, Published
    <2>2. \A b \in Attempts \ S : /\ attempt'[b] = attempt[b]
                                  /\ versions'[FileOf[b]] = versions[FileOf[b]]
      BY <1>38, IdAssumption DEF FencingInv, TypeInv, RowsTyped, DeleteFile
    <2>3. \A b \in Attempts \ S : Holds(b)' = Holds(b) /\ Published(b)' = Published(b)
      BY <2>2 DEF Holds, Published
    <2>4. PICK R \in SUBSET Attempts : R = S
      OBVIOUS
    <2>5. \A b \in Attempts : attempt'[b].gen = IF b \in R THEN 0 ELSE attempt[b].gen
      BY <2>1, <2>2, <2>4
    <2>6. \A b \in Attempts : /\ Holds(b)' = (b \notin R /\ Holds(b))
                               /\ Published(b)' = (b \notin R /\ Published(b))
      BY <2>1, <2>3, <2>4 DEF Holds, Published
    <2>7. Fenced!Remove(R)
      BY <2>5, <2>6 DEF Fenced!Remove, Holds
    <2>8. QED
      BY <2>7 DEF Abstract, Fenced!Next
  <1>39. ASSUME NEW c \in Callers, DispatchThrows(c) PROVE Relinquishes
    <2>1. caller[c].attempt \in Attempts
      BY <1>39 DEF FencingInv, TypeInv, CallersTyped, DispatchThrows
    <2>2. /\ versions' = versions
          /\ \/ attempt' = attempt
             \/ attempt' = Moved(caller[c].attempt, "enqueue_pending", "dispatching")
             \/ attempt' = Moved(caller[c].attempt, "dispatching", "queued")
      BY <1>39 DEF DispatchThrows
    <2>3. QED
      BY <2>1, <2>2, MoveRelinquishes DEF FencingInv, ActiveStatuses
  <1>40. CASE UNCHANGED vars
    <2>1. versions' = versions /\ attempt' = attempt
      BY <1>40 DEF vars
    <2>2. KeepsHolds
      BY <2>1 DEF KeepsHolds, Holds
    <2>3. QED
      BY <2>2, KeepingStutters
  <1>41. QED
    BY <1>1, <1>2, <1>3, <1>4, <1>5, <1>6, <1>7, <1>8, <1>9, <1>10, <1>11,
       <1>12, <1>13, <1>14, <1>15, <1>16, <1>17, <1>18, <1>19, <1>20, <1>21,
       <1>22, <1>23, <1>24, <1>25, <1>26, <1>27, <1>28, <1>29, <1>30, <1>31,
       <1>32, <1>33, <1>34, <1>35, <1>36, <1>37, <1>38, <1>39, <1>40,
       KeepingStutters, LosingReleases DEF Next, CallerStep, Request, WorkerStep,
       Faulty

(* Document processing implements the fenced worker protocol: whatever the *)
(* dispatcher, the reconcilers, the requests and the workers do is a       *)
(* claim, a release, a commit, a removal or a stutter.                     *)
THEOREM ImplementsProtocol == Spec => ImplementsFencedWork
  <1>1. Init => Fenced!Init
    <2> SUFFICES ASSUME Init PROVE Fenced!Init
      OBVIOUS
    <2>1. \A a \in Attempts : Published(a) = FALSE
      BY IdAssumption DEF Init, Published
    <2>2. \A a \in Attempts : attempt[a].gen = 0 /\ attempt[a].status = "absent"
      BY DEF Init, NoRow
    <2>3. QED
      BY <2>1, <2>2 DEF Fenced!Init
  <1>2. FencingInv /\ [Next]_vars => [Fenced!Next]_(Fenced!fencedVars)
    BY RefinementStep DEF Abstract
  <1>3. QED
    BY <1>1, <1>2, FencingInit, FencingStep, PTL DEF Spec, ImplementsFencedWork, Fenced!Spec

-----------------------------------------------------------------------------
(* Waiting files.                                                          *)
(*                                                                         *)
(* That a waiting file is owned holds when the API does not die within a   *)
(* request and a sweep takes up no attempt that a request still works on.  *)
Undisturbed == AccurateLeases /\ "crash" \notin FaultKinds

Waiting(f) == fileStatus[f] \in {"pending", "processing"}

DispatchPcs == {"dispatch", "claimed", "enqueue", "rollback", "expired"}

(* An attempt that still has the job id made from its file has not been    *)
(* dispatched, and its request is about to rename the job.                 *)
PlaceholdersHeld ==
  \A b \in Attempts : attempt[b].key \in Files =>
    /\ attempt[b].key = FileOf[b] /\ attempt[b].status = "enqueue_pending"
    /\ \E d \in Callers : caller[d].pc = "rename" /\ caller[d].attempt = b

(* So no call chain that dispatches works on such an attempt; and the      *)
(* attempt has its row, unless the file was deleted.                       *)
Known(a) == attempt[a].status # "absent" \/ fileStatus[FileOf[a]] = "deleted"

CarriersKnow ==
  \A c \in Callers :
    /\ caller[c].pc \in DispatchPcs \cup {"rename"} => Known(caller[c].attempt)
    /\ caller[c].pc \in DispatchPcs => attempt[caller[c].attempt].key \notin Files

InsertersKnow ==
  \A c \in Callers : caller[c].pc = "insert" =>
    caller[c].file \in Files /\ fileStatus[caller[c].file] # "absent"

(* Every reprocess request between its reset and its insert finds an id.   *)
Inserting(f) == {c \in Callers : caller[c].pc = "insert" /\ caller[c].file = f}
Unused(f) == {a \in Attempts : FileOf[a] = f /\ attempt[a] = NoRow}

IdsLeft == \A f \in Files : Cardinality(Inserting(f)) <= Cardinality(Unused(f))

Owned(f) == (\E a \in Attempts : FileOf[a] = f /\ Active(a)) \/ Inserting(f) # {}

WaitInv ==
  /\ FencingInv
  /\ PlaceholdersHeld /\ CarriersKnow /\ InsertersKnow /\ IdsLeft
  /\ WaitingFileIsOwned

LEMMA OwnedMeaning ==
  WaitingFileIsOwned <=> \A f \in Files : Waiting(f) => Owned(f)
  BY DEF WaitingFileIsOwned, Waiting, Owned, Inserting

LEMMA CountsAreFinite ==
  ASSUME NEW f
  PROVE  /\ IsFiniteSet(Inserting(f)) /\ IsFiniteSet(Unused(f))
         /\ Cardinality(Inserting(f)) \in Nat /\ Cardinality(Unused(f)) \in Nat
  <1>1. Inserting(f) \subseteq Callers /\ Unused(f) \subseteq Attempts
    BY DEF Inserting, Unused
  <1>2. IsFiniteSet(Inserting(f)) /\ IsFiniteSet(Unused(f))
    BY <1>1, FiniteAssumption, FS_Subset
  <1>3. QED
    BY <1>2, FS_CardinalityType

(* Most steps keep rows and their job ids, and leave an attempt that still *)
(* has the id of its file alone; ...                                       *)
RowsStay ==
  \A b \in Attempts :
    /\ attempt'[b].key = attempt[b].key
    /\ attempt'[b].status = "absent" <=> attempt[b].status = "absent"
    /\ attempt[b].key \in Files => attempt'[b].status = attempt[b].status

(* ... end an attempt only together with the wait of its file; ...         *)
FilesStay ==
  \A f \in Files :
    /\ fileStatus'[f] = "absent" => fileStatus[f] = "absent"
    /\ fileStatus[f] = "deleted" => fileStatus'[f] = "deleted"
    /\ Waiting(f)' => /\ Waiting(f)
                      /\ \A b \in Attempts : FileOf[b] = f /\ Active(b) => Active(b)'

(* ... and are none of a request between its reset and its rename.         *)
CallersStay ==
  \A c \in Callers :
    /\ caller'[c].pc = "insert" <=> caller[c].pc = "insert"
    /\ caller[c].pc = "insert" => caller'[c].file = caller[c].file
    /\ caller'[c].pc = "rename" <=> caller[c].pc = "rename"
    /\ caller[c].pc = "rename" => caller'[c].attempt = caller[c].attempt
    /\ caller'[c].pc \in DispatchPcs =>
         /\ caller'[c].attempt \in Attempts
         /\ Known(caller'[c].attempt) /\ attempt[caller'[c].attempt].key \notin Files

LEMMA StayingKeepsWaiting ==
  ASSUME WaitInv, FencingInv', RowsStay, FilesStay, CallersStay
  PROVE  WaitInv'
  <1>1. TypeInv /\ CallersTyped
    BY DEF WaitInv, FencingInv, TypeInv
  <1>2. \A a \in Attempts : Known(a) => Known(a)'
    BY IdAssumption DEF Known, RowsStay, FilesStay
  <1>3. PlaceholdersHeld'
    <2> SUFFICES ASSUME NEW b \in Attempts, attempt'[b].key \in Files
                 PROVE  /\ attempt'[b].key = FileOf[b] /\ attempt'[b].status = "enqueue_pending"
                        /\ \E d \in Callers : caller'[d].pc = "rename" /\ caller'[d].attempt = b
      BY DEF PlaceholdersHeld
    <2>1. attempt'[b].key = attempt[b].key /\ attempt'[b].status = attempt[b].status
      BY DEF RowsStay
    <2>2. PICK d \in Callers : caller[d].pc = "rename" /\ caller[d].attempt = b
      BY <2>1 DEF WaitInv, PlaceholdersHeld
    <2>3. caller'[d].pc = "rename" /\ caller'[d].attempt = b
      BY <2>2 DEF CallersStay
    <2>4. QED
      BY <2>1, <2>3 DEF WaitInv, PlaceholdersHeld
  <1>4. CarriersKnow'
    <2> SUFFICES ASSUME NEW c \in Callers
                 PROVE  /\ caller'[c].pc \in DispatchPcs \cup {"rename"} =>
                             Known(caller[c].attempt)'
                        /\ caller'[c].pc \in DispatchPcs =>
                             attempt'[caller'[c].attempt].key \notin Files
      BY DEF CarriersKnow
    <2>1. CASE caller'[c].pc = "rename"
      <3>1. caller[c].pc = "rename" /\ caller'[c].attempt = caller[c].attempt
        BY <2>1 DEF CallersStay
      <3>2. caller[c].attempt \in Attempts /\ Known(caller[c].attempt)
        BY <1>1, <3>1 DEF CallersTyped, WaitInv, CarriersKnow
      <3>3. QED
        BY <1>2, <2>1, <3>1, <3>2 DEF Known, DispatchPcs
    <2>2. CASE caller'[c].pc \in DispatchPcs
      <3>1. PICK a \in Attempts : a = caller'[c].attempt
        BY <2>2 DEF CallersStay
      <3>2. Known(a) /\ attempt[a].key \notin Files
        BY <2>2, <3>1 DEF CallersStay, Known
      <3>3. Known(a)' /\ attempt'[a].key \notin Files
        BY <1>2, <3>2 DEF RowsStay
      <3>4. QED
        BY <3>1, <3>3 DEF Known
    <2>3. QED
      BY <2>1, <2>2
  <1>5. InsertersKnow'
    BY DEF WaitInv, InsertersKnow, CallersStay, FilesStay
  <1>6. \A f : Inserting(f)' = Inserting(f)
    BY DEF Inserting, CallersStay
  <1>7. \A f : Unused(f)' = Unused(f)
    <2>1. \A a \in Attempts : attempt[a] = NoRow <=> attempt[a].status = "absent"
      BY DEF WaitInv, FencingInv, RowsAreWhole, NoRow
    <2>2. \A a \in Attempts : attempt'[a] = NoRow <=> attempt'[a].status = "absent"
      BY DEF FencingInv, RowsAreWhole, NoRow
    <2>3. QED
      BY <2>1, <2>2 DEF Unused, RowsStay
  <1>8. IdsLeft'
    BY <1>6, <1>7 DEF WaitInv, IdsLeft
  <1>9. WaitingFileIsOwned'
    <2>1. \A f \in Files : Waiting(f)' => Owned(f)'
      BY <1>6, OwnedMeaning DEF WaitInv, Owned, FilesStay
    <2>2. QED
      BY <2>1, <1>6 DEF WaitingFileIsOwned, Waiting, Owned, Inserting
  <1>10. QED
    BY <1>3, <1>4, <1>5, <1>8, <1>9 DEF WaitInv

(* A step that leaves rows and files alone, as far as this goes.           *)
LEMMA UntouchedStay ==
  ASSUME UNCHANGED <<attempt, fileStatus>>
  PROVE  RowsStay /\ FilesStay
  BY DEF RowsStay, FilesStay, Waiting, Active

LEMMA IdleCallersStay ==
  ASSUME WaitInv, UNCHANGED caller
  PROVE  CallersStay
  BY DEF WaitInv, FencingInv, TypeInv, CallersTyped, CarriersKnow, DispatchPcs, CallersStay

(* A call chain moves on, or ends, without a reprocess request.            *)
LEMMA CallerMoves ==
  ASSUME WaitInv, NEW c \in Callers, caller[c].pc \notin {"insert", "rename"},
         NEW r, caller' = [caller EXCEPT ![c] = r], r.pc \notin {"insert", "rename"},
         r.pc \in DispatchPcs =>
           /\ r.attempt \in Attempts
           /\ Known(r.attempt) /\ attempt[r.attempt].key \notin Files
  PROVE  CallersStay
  <1>1. /\ caller'[c] = r
        /\ \A d \in Callers \ {c} : caller'[d] = caller[d]
    BY DEF WaitInv, FencingInv, TypeInv, CallersTyped
  <1>2. \A d \in Callers : caller[d].pc \in DispatchPcs =>
          /\ caller[d].attempt \in Attempts
          /\ Known(caller[d].attempt) /\ attempt[caller[d].attempt].key \notin Files
    BY DEF WaitInv, FencingInv, TypeInv, CallersTyped, CarriersKnow, DispatchPcs
  <1>3. QED
    BY <1>1, <1>2 DEF CallersStay

(* A conditional update of an active attempt that is not waiting to be     *)
(* dispatched for the first time.                                          *)
LEMMA MoveStays ==
  ASSUME WaitInv, UNCHANGED fileStatus, NEW a,
         NEW from \in ActiveStatuses, NEW to \in ActiveStatuses,
         attempt' = attempt \/ attempt' = Moved(a, from, to),
         from = "enqueue_pending" => attempt[a].key \notin Files
  PROVE  RowsStay /\ FilesStay
  <1>1. attempt \in [Attempts -> AttemptRow]
    BY DEF WaitInv, FencingInv, TypeInv, RowsTyped
  <1>2. \A b \in Attempts :
          \/ attempt'[b] = attempt[b]
          \/ /\ b = a /\ attempt[b].status = from
             /\ attempt'[b].status = to /\ attempt'[b].key = attempt[b].key
    BY <1>1 DEF Moved, AttemptRow
  <1>3. RowsStay
    BY <1>2 DEF RowsStay, WaitInv, PlaceholdersHeld, ActiveStatuses
  <1>4. \A b \in Attempts : Active(b) => Active(b)'
    BY <1>2 DEF Active
  <1>5. QED
    BY <1>3, <1>4 DEF FilesStay, Waiting

(* An attempt ends, and with it the wait of its file.                      *)
LEMMA EndStays ==
  ASSUME WaitInv, NEW a \in Attempts, Active(a), attempt[a].key \notin Files,
         NEW s \in TerminalStatuses,
         \A b \in Attempts \ {a} : attempt'[b] = attempt[b],
         attempt'[a].status = s, attempt'[a].key = attempt[a].key,
         NEW t \in {"completed", "failed"},
         fileStatus' = [fileStatus EXCEPT ![FileOf[a]] = t]
  PROVE  RowsStay /\ FilesStay
  <1>1. RowsStay
    BY DEF RowsStay, Active, ActiveStatuses, TerminalStatuses
  <1>2. fileStatus[FileOf[a]] \notin {"absent", "deleted"}
    BY DEF WaitInv, FencingInv, RowsOfLiveFiles, FileExists, Active, ActiveStatuses, NoRow
  <1>3. \A f \in Files : fileStatus'[f] = IF f = FileOf[a] THEN t ELSE fileStatus[f]
    BY IdAssumption DEF WaitInv, FencingInv, TypeInv, RowsTyped
  <1>4. \A f \in Files \ {FileOf[a]}, b \in Attempts :
          FileOf[b] = f /\ Active(b) => Active(b)'
    BY DEF Active
  <1>5. QED
    BY <1>1, <1>2, <1>3, <1>4 DEF FilesStay, Waiting

(* Only an attempt that waits to be dispatched may have the file's job id. *)
LEMMA DispatchedHasOwnKey ==
  ASSUME WaitInv, NEW a \in Attempts, attempt[a].status # "enqueue_pending"
  PROVE  attempt[a].key \notin Files
  BY DEF WaitInv, PlaceholdersHeld

(* Upload: nobody can wait for, or work on, an attempt of a file that was  *)
(* not there.                                                              *)
LEMMA UploadKeepsWaiting ==
  ASSUME WaitInv, FencingInv', NEW c \in Callers, NEW a \in Attempts, Upload(c, a)
  PROVE  WaitInv'
  <1> DEFINE g == FileOf[a]
  <1>1. /\ attempt \in [Attempts -> AttemptRow] /\ CallersTyped
        /\ fileStatus' = [fileStatus EXCEPT ![g] = "pending"]
        /\ g \in Files /\ fileStatus[g] = "absent"
    BY IdAssumption DEF Upload, WaitInv, FencingInv, TypeInv, RowsTyped
  <1>2. /\ attempt'[a].key = a /\ attempt'[a].status = "enqueue_pending"
        /\ \A b \in Attempts \ {a} : attempt'[b] = attempt[b]
    BY <1>1 DEF Upload, NoRow
  <1>3. /\ caller'[c].pc = "dispatch" /\ caller'[c].attempt = a
        /\ caller[c].pc = "idle" /\ \A d \in Callers \ {c} : caller'[d] = caller[d]
    BY <1>1 DEF Upload, CallersTyped, IdleCaller
  <1>4. \A f \in Files : fileStatus'[f] = IF f = g THEN "pending" ELSE fileStatus[f]
    BY <1>1 DEF WaitInv, FencingInv, TypeInv, RowsTyped
  <1>5. attempt[a] = NoRow
    BY <1>1 DEF WaitInv, FencingInv, RowsOfLiveFiles, FileExists
  <1>6. a \notin Files
    BY IdAssumption
  <1>7. PlaceholdersHeld'
    <2> SUFFICES ASSUME NEW b \in Attempts, attempt'[b].key \in Files
                 PROVE  /\ attempt'[b].key = FileOf[b] /\ attempt'[b].status = "enqueue_pending"
                        /\ \E d \in Callers : caller'[d].pc = "rename" /\ caller'[d].attempt = b
      BY DEF PlaceholdersHeld
    <2>1. b # a
      BY <1>2, <1>6
    <2>2. PICK d \in Callers : caller[d].pc = "rename" /\ caller[d].attempt = b
      BY <1>2, <2>1 DEF WaitInv, PlaceholdersHeld
    <2>3. d # c
      BY <1>3, <2>2
    <2>4. QED
      BY <1>2, <1>3, <2>1, <2>2, <2>3 DEF WaitInv, PlaceholdersHeld
  <1>8. CarriersKnow'
    <2> SUFFICES ASSUME NEW d \in Callers, d # c, caller[d].pc \in DispatchPcs \cup {"rename"}
                 PROVE  /\ Known(caller[d].attempt)'
                        /\ caller[d].pc \in DispatchPcs => attempt'[caller[d].attempt].key \notin Files
      BY <1>2, <1>3, <1>6 DEF CarriersKnow, Known
    <2>1. PICK b \in Attempts : b = caller[d].attempt
      BY <1>1 DEF CallersTyped, DispatchPcs
    <2>2. Known(b) /\ (caller[d].pc \in DispatchPcs => attempt[b].key \notin Files)
      BY <2>1 DEF WaitInv, CarriersKnow, Known
    <2>3. b # a
      BY <1>1, <1>5, <2>2 DEF Known, NoRow
    <2>4. fileStatus[FileOf[b]] = "deleted" => fileStatus'[FileOf[b]] = "deleted"
      BY <1>1, <1>4, IdAssumption
    <2>5. Known(b)' /\ (caller[d].pc \in DispatchPcs => attempt'[b].key \notin Files)
      BY <1>2, <2>2, <2>3, <2>4 DEF Known
    <2>6. caller'[d] = caller[d]
      BY <1>3
    <2>7. QED
      BY <2>1, <2>5, <2>6 DEF Known
  <1>9. InsertersKnow'
    BY <1>3, <1>4 DEF InsertersKnow, WaitInv
  <1>10. \A f : Inserting(f)' = Inserting(f)
    BY <1>3 DEF Inserting
  <1>11. IdsLeft'
    <2> SUFFICES ASSUME NEW f \in Files
                 PROVE  Cardinality(Inserting(f)') <= Cardinality(Unused(f)')
      BY DEF IdsLeft
    <2>1. CASE f = g
      <3>1. Inserting(f) = {}
        BY <1>1, <2>1 DEF Inserting, WaitInv, InsertersKnow
      <3>2. Cardinality(Unused(f)') \in Nat
        <4>1. Unused(f)' \subseteq Attempts
          BY DEF Unused
        <4>2. QED
          BY <4>1, FiniteAssumption, FS_Subset, FS_CardinalityType
      <3>3. QED
        BY <1>10, <3>1, <3>2, FS_EmptySet
    <2>2. CASE f # g
      <3>1. Unused(f)' = Unused(f)
        BY <1>2, <2>2 DEF Unused
      <3>2. QED
        BY <1>10, <3>1 DEF WaitInv, IdsLeft
    <2>3. QED
      BY <2>1, <2>2
  <1>12. WaitingFileIsOwned'
    <2>1. \A b \in Attempts : Active(b) => Active(b)'
      BY <1>2 DEF Active, ActiveStatuses
    <2>2. Active(a)'
      BY <1>2 DEF Active, ActiveStatuses
    <2>3. \A f \in Files \ {g} : Waiting(f)' => Waiting(f)
      BY <1>4 DEF Waiting
    <2>4. \A f \in Files : Waiting(f)' => Owned(f)'
      BY <1>10, <2>1, <2>2, <2>3, OwnedMeaning DEF Owned, WaitInv
    <2>5. QED
      BY <2>4 DEF WaitingFileIsOwned, Waiting, Owned, Inserting
  <1>13. QED
    BY <1>7, <1>8, <1>9, <1>11, <1>12 DEF WaitInv

(* ResetFile: the request that resets the file owns it.                    *)
LEMMA ResetKeepsWaiting ==
  ASSUME WaitInv, FencingInv', NEW c \in Callers, NEW g \in Files, ResetFile(c, g)
  PROVE  WaitInv'
  <1>1. /\ attempt' = attempt /\ CallersTyped /\ FileExists(g)
        /\ \A f \in Files : fileStatus'[f] = IF f = g THEN "pending" ELSE fileStatus[f]
    BY DEF ResetFile, WaitInv, FencingInv, TypeInv, RowsTyped
  <1>2. /\ caller'[c].pc = "insert" /\ caller'[c].file = g
        /\ caller[c].pc = "idle" /\ \A d \in Callers \ {c} : caller'[d] = caller[d]
    BY <1>1 DEF ResetFile, CallersTyped, IdleCaller
  <1>3. Cardinality(Unused(g)) > Cardinality(Inserting(g))
    BY DEF ResetFile, Unused, Inserting
  <1>4. PlaceholdersHeld'
    <2> SUFFICES ASSUME NEW b \in Attempts, attempt[b].key \in Files
                 PROVE  /\ attempt[b].key = FileOf[b] /\ attempt[b].status = "enqueue_pending"
                        /\ \E d \in Callers : caller'[d].pc = "rename" /\ caller'[d].attempt = b
      BY <1>1 DEF PlaceholdersHeld
    <2>1. PICK d \in Callers : caller[d].pc = "rename" /\ caller[d].attempt = b
      BY DEF WaitInv, PlaceholdersHeld
    <2>2. d # c
      BY <1>2, <2>1
    <2>3. QED
      BY <1>2, <2>1, <2>2 DEF WaitInv, PlaceholdersHeld
  <1>5. CarriersKnow'
    <2> SUFFICES ASSUME NEW d \in Callers, d # c, caller[d].pc \in DispatchPcs \cup {"rename"}
                 PROVE  /\ Known(caller[d].attempt)'
                        /\ caller[d].pc \in DispatchPcs => attempt[caller[d].attempt].key \notin Files
      BY <1>1, <1>2 DEF CarriersKnow, Known, DispatchPcs
    <2>1. PICK b \in Attempts : b = caller[d].attempt
      BY <1>1 DEF CallersTyped, DispatchPcs
    <2>2. Known(b) /\ (caller[d].pc \in DispatchPcs => attempt[b].key \notin Files)
      BY <2>1 DEF WaitInv, CarriersKnow, Known
    <2>3. fileStatus[FileOf[b]] = "deleted" => fileStatus'[FileOf[b]] = "deleted"
      BY <1>1, IdAssumption DEF FileExists
    <2>4. Known(b)' /\ caller'[d] = caller[d]
      BY <1>1, <1>2, <2>2, <2>3 DEF Known
    <2>5. QED
      BY <2>1, <2>2, <2>4 DEF Known
  <1>6. InsertersKnow'
    <2> SUFFICES ASSUME NEW d \in Callers, caller'[d].pc = "insert"
                 PROVE  caller'[d].file \in Files /\ fileStatus'[caller'[d].file] # "absent"
      BY DEF InsertersKnow
    <2>1. CASE d = c
      BY <1>1, <1>2, <2>1
    <2>2. CASE d # c
      BY <1>1, <1>2, <2>2 DEF WaitInv, InsertersKnow
    <2>3. QED
      BY <2>1, <2>2
  <1>7. /\ Inserting(g)' = Inserting(g) \cup {c} /\ c \notin Inserting(g)
        /\ \A f : f # g => Inserting(f)' = Inserting(f)
    BY <1>2 DEF Inserting
  <1>8. \A f : Unused(f)' = Unused(f)
    BY <1>1 DEF Unused
  <1>9. IdsLeft'
    <2>1. Cardinality(Inserting(g)') <= Cardinality(Unused(g)')
      <3>1. /\ IsFiniteSet(Inserting(g))
            /\ Cardinality(Inserting(g)) \in Nat /\ Cardinality(Unused(g)) \in Nat
        BY CountsAreFinite
      <3>2. Cardinality(Inserting(g) \cup {c}) = Cardinality(Inserting(g)) + 1
        BY <1>7, <3>1, FS_AddElement
      <3>3. QED
        BY <1>3, <1>7, <1>8, <3>1, <3>2
    <2>2. \A f \in Files : f # g => Cardinality(Inserting(f)') <= Cardinality(Unused(f)')
      BY <1>7, <1>8 DEF WaitInv, IdsLeft
    <2>3. QED
      BY <2>1, <2>2 DEF IdsLeft
  <1>10. WaitingFileIsOwned'
    <2>1. \A f \in Files : f # g => (Waiting(f)' => Waiting(f)) /\ Inserting(f)' = Inserting(f)
      BY <1>1, <1>7 DEF Waiting
    <2>2. \A b \in Attempts : Active(b)' = Active(b)
      BY <1>1 DEF Active
    <2>3. \A f \in Files : Waiting(f)' => Owned(f)'
      BY <1>7, <2>1, <2>2, OwnedMeaning DEF Owned, WaitInv
    <2>4. QED
      BY <2>3 DEF WaitingFileIsOwned, Waiting, Owned, Inserting
  <1>11. QED
    BY <1>4, <1>5, <1>6, <1>9, <1>10 DEF WaitInv

(* InsertAttempt: the request hands its file over to the attempt.          *)
LEMMA InsertKeepsWaiting ==
  ASSUME WaitInv, FencingInv', NEW c \in Callers, InsertAttempt(c)
  PROVE  WaitInv'
  <1>1. PICK g : g = caller[c].file
    OBVIOUS
  <1>2. PICK x \in Attempts :
          /\ FileOf[x] = g /\ attempt[x] = NoRow /\ FileExists(g)
          /\ attempt' = [attempt EXCEPT ![x] = [NoRow EXCEPT
                           !.status = "enqueue_pending", !.key = g]]
          /\ caller' = [caller EXCEPT ![c].pc = "rename", ![c].attempt = x]
    BY <1>1 DEF InsertAttempt, InsertAllowed
  <1>3. /\ caller[c].pc = "insert" /\ fileStatus' = fileStatus /\ CallersTyped
        /\ attempt \in [Attempts -> AttemptRow] /\ g \in Files
    BY <1>1 DEF InsertAttempt, WaitInv, FencingInv, TypeInv, RowsTyped, InsertersKnow
  <1>4. /\ attempt'[x].key = g /\ attempt'[x].status = "enqueue_pending"
        /\ \A b \in Attempts \ {x} : attempt'[b] = attempt[b]
    BY <1>2, <1>3 DEF NoRow
  <1>5. /\ caller'[c].pc = "rename" /\ caller'[c].attempt = x
        /\ \A d \in Callers \ {c} : caller'[d] = caller[d]
    BY <1>2, <1>3 DEF CallersTyped, CallerRecord
  <1>6. PlaceholdersHeld'
    <2> SUFFICES ASSUME NEW b \in Attempts, attempt'[b].key \in Files
                 PROVE  /\ attempt'[b].key = FileOf[b] /\ attempt'[b].status = "enqueue_pending"
                        /\ \E d \in Callers : caller'[d].pc = "rename" /\ caller'[d].attempt = b
      BY DEF PlaceholdersHeld
    <2>1. CASE b = x
      BY <1>2, <1>4, <1>5, <2>1
    <2>2. CASE b # x
      <3>1. PICK d \in Callers : caller[d].pc = "rename" /\ caller[d].attempt = b
        BY <1>4, <2>2 DEF WaitInv, PlaceholdersHeld
      <3>2. d # c
        BY <1>3, <3>1
      <3>3. QED
        BY <1>4, <1>5, <2>2, <3>1, <3>2 DEF WaitInv, PlaceholdersHeld
    <2>3. QED
      BY <2>1, <2>2
  <1>7. CarriersKnow'
    <2> SUFFICES ASSUME NEW d \in Callers, d # c, caller[d].pc \in DispatchPcs \cup {"rename"}
                 PROVE  /\ Known(caller[d].attempt)'
                        /\ caller[d].pc \in DispatchPcs => attempt'[caller[d].attempt].key \notin Files
      BY <1>4, <1>5 DEF CarriersKnow, Known, DispatchPcs
    <2>1. PICK b \in Attempts : b = caller[d].attempt
      BY <1>3 DEF CallersTyped, DispatchPcs
    <2>2. Known(b) /\ (caller[d].pc \in DispatchPcs => attempt[b].key \notin Files)
      BY <2>1 DEF WaitInv, CarriersKnow, Known
    <2>3. b # x
      BY <1>2, <2>2 DEF Known, NoRow, FileExists
    <2>4. /\ Known(b)' /\ caller'[d] = caller[d]
          /\ caller[d].pc \in DispatchPcs => attempt'[b].key \notin Files
      BY <1>3, <1>4, <1>5, <2>2, <2>3 DEF Known
    <2>5. QED
      BY <2>1, <2>4 DEF Known
  <1>8. InsertersKnow'
    BY <1>3, <1>5 DEF WaitInv, InsertersKnow
  <1>9. /\ Inserting(g)' = Inserting(g) \ {c} /\ c \in Inserting(g)
        /\ \A f : f # g => Inserting(f)' = Inserting(f)
    BY <1>1, <1>3, <1>5 DEF Inserting
  <1>10. /\ Unused(g)' = Unused(g) \ {x} /\ x \in Unused(g)
         /\ \A f : f # g => Unused(f)' = Unused(f)
    <2>1. attempt'[x] # NoRow
      BY <1>4 DEF NoRow
    <2>2. /\ \A b \in Attempts : attempt'[b] = NoRow <=> b # x /\ attempt[b] = NoRow
          /\ attempt[x] = NoRow /\ FileOf[x] = g
      BY <1>2, <1>4, <2>1
    <2>3. QED
      BY <2>2 DEF Unused
  <1>11. IdsLeft'
    <2>1. Cardinality(Inserting(g)') <= Cardinality(Unused(g)')
      <3>1. /\ IsFiniteSet(Inserting(g)) /\ IsFiniteSet(Unused(g))
            /\ Cardinality(Inserting(g)) \in Nat /\ Cardinality(Unused(g)) \in Nat
        BY CountsAreFinite
      <3>2. Cardinality(Inserting(g) \ {c}) = Cardinality(Inserting(g)) - 1
        BY <1>9, <3>1, FS_RemoveElement
      <3>3. Cardinality(Unused(g) \ {x}) = Cardinality(Unused(g)) - 1
        BY <1>10, <3>1, FS_RemoveElement
      <3>4. Cardinality(Inserting(g)) <= Cardinality(Unused(g))
        BY <1>3 DEF WaitInv, IdsLeft
      <3>5. QED
        BY <1>9, <1>10, <3>1, <3>2, <3>3, <3>4
    <2>2. \A f \in Files : f # g => Cardinality(Inserting(f)') <= Cardinality(Unused(f)')
      BY <1>9, <1>10 DEF WaitInv, IdsLeft
    <2>3. QED
      BY <2>1, <2>2 DEF IdsLeft
  <1>12. WaitingFileIsOwned'
    <2>1. \A b \in Attempts : Active(b) => Active(b)'
      BY <1>4 DEF Active, ActiveStatuses
    <2>2. Active(x)'
      BY <1>4 DEF Active, ActiveStatuses
    <2>3. \A f \in Files : Waiting(f)' => Waiting(f)
      BY <1>3 DEF Waiting
    <2>4. \A f \in Files : Waiting(f)' => Owned(f)'
      BY <1>2, <1>9, <2>1, <2>2, <2>3, OwnedMeaning DEF Owned, WaitInv
    <2>5. QED
      BY <2>4 DEF WaitingFileIsOwned, Waiting, Owned, Inserting
  <1>13. QED
    BY <1>6, <1>7, <1>8, <1>11, <1>12 DEF WaitInv

(* InsertRejected: an id was left, so another attempt is what refused it,  *)
(* by the index on active attempts or by the job id; that one is active.   *)
LEMMA RejectionKeepsWaiting ==
  ASSUME WaitInv, FencingInv', NEW c \in Callers, InsertRejected(c)
  PROVE  WaitInv'
  <1>1. PICK g : g = caller[c].file
    OBVIOUS
  <1>2. /\ caller[c].pc = "insert" /\ UNCHANGED <<fileStatus, attempt>> /\ CallersTyped
        /\ \A a \in Attempts : FileOf[a] = g /\ attempt[a] = NoRow => ~InsertAllowed(g, a)
        /\ g \in Files
    BY <1>1 DEF InsertRejected, WaitInv, FencingInv, TypeInv, InsertersKnow
  <1>3. /\ caller'[c].pc = "idle" /\ \A d \in Callers \ {c} : caller'[d] = caller[d]
    BY <1>2 DEF InsertRejected, CallersTyped, IdleCaller
  <1>4. PlaceholdersHeld'
    <2> SUFFICES ASSUME NEW b \in Attempts, attempt[b].key \in Files
                 PROVE  /\ attempt[b].key = FileOf[b] /\ attempt[b].status = "enqueue_pending"
                        /\ \E d \in Callers : caller'[d].pc = "rename" /\ caller'[d].attempt = b
      BY <1>2 DEF PlaceholdersHeld
    <2>1. PICK d \in Callers : caller[d].pc = "rename" /\ caller[d].attempt = b
      BY DEF WaitInv, PlaceholdersHeld
    <2>2. d # c
      BY <1>2, <2>1
    <2>3. QED
      BY <1>3, <2>1, <2>2 DEF WaitInv, PlaceholdersHeld
  <1>5. CarriersKnow'
    BY <1>2, <1>3 DEF WaitInv, CarriersKnow, Known, DispatchPcs
  <1>6. InsertersKnow'
    BY <1>2, <1>3 DEF WaitInv, InsertersKnow
  <1>7. c \in Inserting(g) /\ \A f : Inserting(f)' = Inserting(f) \ {c}
    BY <1>1, <1>2, <1>3 DEF Inserting
  <1>8. \A f : f # g => Inserting(f)' = Inserting(f)
    BY <1>1, <1>2, <1>3 DEF Inserting
  <1>9. \A f : Unused(f)' = Unused(f)
    BY <1>2 DEF Unused
  <1>10. IdsLeft'
    <2> SUFFICES ASSUME NEW f \in Files
                 PROVE  Cardinality(Inserting(f)') <= Cardinality(Unused(f)')
      BY DEF IdsLeft
    <2>1. Cardinality(Inserting(f) \ {c}) <= Cardinality(Inserting(f))
      BY CountsAreFinite, FS_Subset
    <2>2. Cardinality(Inserting(f)) <= Cardinality(Unused(f))
      BY DEF WaitInv, IdsLeft
    <2>3. /\ Cardinality(Inserting(f)) \in Nat /\ Cardinality(Unused(f)) \in Nat
          /\ Cardinality(Inserting(f) \ {c}) \in Nat
      BY CountsAreFinite, FS_Subset, FS_CardinalityType
    <2>4. QED
      BY <1>7, <1>9, <2>1, <2>2, <2>3
  <1>11. ASSUME Waiting(g)
         PROVE  \E b \in Attempts : FileOf[b] = g /\ Active(b)
    <2>1. Unused(g) # {}
      <3>1. /\ IsFiniteSet(Inserting(g)) /\ Cardinality(Inserting(g)) \in Nat
        BY CountsAreFinite
      <3>2. Cardinality(Inserting(g)) # 0
        BY <1>7, <3>1, FS_EmptySet
      <3>3. Cardinality(Inserting(g)) <= Cardinality(Unused(g))
        BY <1>2 DEF WaitInv, IdsLeft
      <3>4. QED
        BY <3>1, <3>2, <3>3, FS_EmptySet
    <2>2. PICK a \in Attempts : FileOf[a] = g /\ attempt[a] = NoRow
      BY <2>1 DEF Unused
    <2>3. FileExists(g)
      BY <1>11 DEF Waiting, FileExists
    <2>4. ~ActiveIndexAllows(a) \/ \E b \in Attempts : attempt[b].key = g
      BY <1>2, <2>2, <2>3 DEF InsertAllowed
    <2>5. CASE ~ActiveIndexAllows(a)
      BY <2>2, <2>5 DEF ActiveIndexAllows
    <2>6. CASE \E b \in Attempts : attempt[b].key = g
      BY <1>2, <2>6 DEF WaitInv, PlaceholdersHeld, Active, ActiveStatuses
    <2>7. QED
      BY <2>4, <2>5, <2>6
  <1>12. WaitingFileIsOwned'
    <2>1. \A b \in Attempts : Active(b)' = Active(b)
      BY <1>2 DEF Active
    <2>2. \A f \in Files : Waiting(f)' = Waiting(f)
      BY <1>2 DEF Waiting
    <2>3. \A f \in Files : Waiting(f)' => Owned(f)'
      BY <1>8, <1>11, <2>1, <2>2, OwnedMeaning DEF Owned, WaitInv
    <2>4. QED
      BY <2>3 DEF WaitingFileIsOwned, Waiting, Owned, Inserting
  <1>13. QED
    BY <1>4, <1>5, <1>6, <1>10, <1>12 DEF WaitInv

(* RenameJob: the attempt gets a job id of its own, and its request goes   *)
(* on to dispatch it.                                                      *)
LEMMA RenameKeepsWaiting ==
  ASSUME WaitInv, FencingInv', NEW c \in Callers, RenameJob(c)
  PROVE  WaitInv'
  <1>1. /\ caller[c].pc = "rename" /\ fileStatus' = fileStatus /\ CallersTyped
        /\ attempt \in [Attempts -> AttemptRow]
    BY DEF RenameJob, WaitInv, FencingInv, TypeInv, RowsTyped
  <1>2. PICK x \in Attempts : x = caller[c].attempt
    BY <1>1 DEF CallersTyped
  <1>3. /\ caller'[c].pc = "dispatch" /\ caller'[c].attempt = x
        /\ \A d \in Callers \ {c} : caller'[d] = caller[d]
    BY <1>1, <1>2 DEF RenameJob, CallersTyped, IdleCaller
  <1>4. /\ \A b \in Attempts \ {x} : attempt'[b] = attempt[b]
        /\ \A b \in Attempts : attempt'[b].status = attempt[b].status
    BY <1>1, <1>2 DEF RenameJob, AttemptRow
  <1>5. attempt'[x].key \notin Files
    <2>1. CASE attempt[x].status # "absent"
      <3>1. attempt'[x].key = x
        BY <1>1, <1>2, <2>1 DEF RenameJob, AttemptRow
      <3>2. QED
        BY <3>1, IdAssumption
    <2>2. CASE attempt[x].status = "absent"
      <3>1. attempt'[x] = NoRow
        BY <1>2, <2>2 DEF RenameJob, WaitInv, FencingInv, RowsAreWhole
      <3>2. QED
        BY <3>1, IdAssumption DEF NoRow
    <2>3. QED
      BY <2>1, <2>2
  <1>6. PlaceholdersHeld'
    <2> SUFFICES ASSUME NEW b \in Attempts, attempt'[b].key \in Files
                 PROVE  /\ attempt'[b].key = FileOf[b] /\ attempt'[b].status = "enqueue_pending"
                        /\ \E d \in Callers : caller'[d].pc = "rename" /\ caller'[d].attempt = b
      BY DEF PlaceholdersHeld
    <2>1. b # x
      BY <1>5
    <2>2. PICK d \in Callers : caller[d].pc = "rename" /\ caller[d].attempt = b
      BY <1>4, <2>1 DEF WaitInv, PlaceholdersHeld
    <2>3. d # c
      BY <1>2, <2>1, <2>2
    <2>4. QED
      BY <1>3, <1>4, <2>1, <2>2, <2>3 DEF WaitInv, PlaceholdersHeld
  <1>7. \A b \in Attempts : Known(b)' = Known(b)
    BY <1>1, <1>4 DEF Known
  <1>8. CarriersKnow'
    <2> SUFFICES ASSUME NEW d \in Callers, caller'[d].pc \in DispatchPcs \cup {"rename"}
                 PROVE  /\ Known(caller[d].attempt)'
                        /\ caller'[d].pc \in DispatchPcs => attempt'[caller'[d].attempt].key \notin Files
      BY DEF CarriersKnow, Known
    <2>1. caller'[d].attempt = caller[d].attempt
          /\ caller[d].pc \in DispatchPcs \cup {"rename"}
      BY <1>1, <1>2, <1>3
    <2>2. PICK b \in Attempts : b = caller[d].attempt
      BY <1>1, <2>1 DEF CallersTyped, DispatchPcs
    <2>3. Known(b)
      BY <2>1, <2>2 DEF WaitInv, CarriersKnow, Known
    <2>4. Known(b)'
      BY <1>7, <2>3
    <2>5. caller'[d].pc \in DispatchPcs => attempt'[b].key \notin Files
      <3>1. CASE b = x
        BY <1>5, <3>1
      <3>2. CASE b # x
        BY <1>2, <1>3, <1>4, <2>2, <3>2 DEF WaitInv, CarriersKnow
      <3>3. QED
        BY <3>1, <3>2
    <2>6. QED
      BY <2>1, <2>2, <2>4, <2>5 DEF Known
  <1>9. InsertersKnow'
    BY <1>1, <1>3 DEF WaitInv, InsertersKnow
  <1>10. \A f : Inserting(f)' = Inserting(f)
    BY <1>1, <1>3 DEF Inserting
  <1>11. \A f : Unused(f)' = Unused(f)
    <2>1. \A b \in Attempts : attempt[b] = NoRow <=> attempt[b].status = "absent"
      BY DEF WaitInv, FencingInv, RowsAreWhole, NoRow
    <2>2. \A b \in Attempts : attempt'[b] = NoRow <=> attempt'[b].status = "absent"
      BY DEF FencingInv, RowsAreWhole, NoRow
    <2>3. QED
      BY <1>4, <2>1, <2>2 DEF Unused
  <1>12. IdsLeft'
    BY <1>10, <1>11 DEF WaitInv, IdsLeft
  <1>13. WaitingFileIsOwned'
    <2>1. \A b \in Attempts : Active(b)' = Active(b)
      BY <1>4 DEF Active
    <2>2. \A f \in Files : Waiting(f)' = Waiting(f)
      BY <1>1 DEF Waiting
    <2>3. \A f \in Files : Waiting(f)' => Owned(f)'
      BY <1>10, <2>1, <2>2, OwnedMeaning DEF Owned, WaitInv
    <2>4. QED
      BY <2>3 DEF WaitingFileIsOwned, Waiting, Owned, Inserting
  <1>14. QED
    BY <1>6, <1>8, <1>9, <1>12, <1>13 DEF WaitInv

(* DeleteFile: nobody waits for the file any more, and its ids are unused. *)
LEMMA DeletionKeepsWaiting ==
  ASSUME WaitInv, FencingInv', NEW c \in Callers, DeleteFile(c)
  PROVE  WaitInv'
  <1>1. PICK g : g = caller[c].file
    OBVIOUS
  <1>2. /\ caller[c].pc = "delete" /\ CallersTyped
        /\ \A f \in Files : fileStatus'[f] = IF f = g THEN "deleted" ELSE fileStatus[f]
        /\ \A b \in Attempts : attempt'[b] = IF FileOf[b] = g THEN NoRow ELSE attempt[b]
    BY <1>1 DEF DeleteFile, WaitInv, FencingInv, TypeInv, RowsTyped
  <1>3. /\ caller'[c].pc \in {"idle", "uncount"}
        /\ \A d \in Callers \ {c} : caller'[d] = caller[d]
    BY <1>2 DEF DeleteFile, CallersTyped, IdleCaller
  <1>4. PlaceholdersHeld'
    <2> SUFFICES ASSUME NEW b \in Attempts, attempt'[b].key \in Files
                 PROVE  /\ attempt'[b].key = FileOf[b] /\ attempt'[b].status = "enqueue_pending"
                        /\ \E d \in Callers : caller'[d].pc = "rename" /\ caller'[d].attempt = b
      BY DEF PlaceholdersHeld
    <2>1. attempt'[b] = attempt[b]
      BY <1>2, IdAssumption DEF NoRow
    <2>2. PICK d \in Callers : caller[d].pc = "rename" /\ caller[d].attempt = b
      BY <2>1 DEF WaitInv, PlaceholdersHeld
    <2>3. d # c
      BY <1>2, <2>2
    <2>4. QED
      BY <1>3, <2>1, <2>2, <2>3 DEF WaitInv, PlaceholdersHeld
  <1>5. CarriersKnow'
    <2> SUFFICES ASSUME NEW d \in Callers, d # c, caller[d].pc \in DispatchPcs \cup {"rename"}
                 PROVE  /\ Known(caller[d].attempt)'
                        /\ caller[d].pc \in DispatchPcs => attempt'[caller[d].attempt].key \notin Files
      BY <1>3 DEF CarriersKnow, Known, DispatchPcs
    <2>1. PICK b \in Attempts : b = caller[d].attempt
      BY <1>2 DEF CallersTyped, DispatchPcs
    <2>2. Known(b) /\ (caller[d].pc \in DispatchPcs => attempt[b].key \notin Files)
      BY <2>1 DEF WaitInv, CarriersKnow, Known
    <2>3. Known(b)'
      BY <1>2, <2>2, IdAssumption DEF Known
    <2>4. caller[d].pc \in DispatchPcs => attempt'[b].key \notin Files
      BY <1>2, <2>2, IdAssumption DEF NoRow
    <2>5. caller'[d] = caller[d]
      BY <1>3
    <2>6. QED
      BY <2>1, <2>3, <2>4, <2>5 DEF Known
  <1>6. InsertersKnow'
    BY <1>2, <1>3 DEF WaitInv, InsertersKnow
  <1>7. \A f : Inserting(f)' = Inserting(f)
    BY <1>2, <1>3 DEF Inserting
  <1>8. IdsLeft'
    <2> SUFFICES ASSUME NEW f \in Files
                 PROVE  Cardinality(Inserting(f)') <= Cardinality(Unused(f)')
      BY DEF IdsLeft
    <2>1. Unused(f) \subseteq Unused(f)'
      BY <1>2 DEF Unused
    <2>2. Unused(f)' \subseteq Attempts
      BY DEF Unused
    <2>3. /\ IsFiniteSet(Unused(f)') /\ Cardinality(Unused(f)') \in Nat
      BY <2>2, FiniteAssumption, FS_Subset, FS_CardinalityType
    <2>4. Cardinality(Unused(f)) <= Cardinality(Unused(f)')
      BY <2>1, <2>3, FS_Subset
    <2>5. Cardinality(Inserting(f)) \in Nat /\ Cardinality(Unused(f)) \in Nat
      BY CountsAreFinite
    <2>6. QED
      BY <1>7, <2>3, <2>4, <2>5 DEF WaitInv, IdsLeft
  <1>9. WaitingFileIsOwned'
    <2>1. \A f \in Files : Waiting(f)' => Waiting(f) /\ f # g
      BY <1>2 DEF Waiting
    <2>2. \A b \in Attempts : FileOf[b] # g => Active(b)' = Active(b)
      BY <1>2 DEF Active
    <2>3. \A f \in Files : Waiting(f)' => Owned(f)'
      BY <1>7, <2>1, <2>2, OwnedMeaning DEF Owned, WaitInv
    <2>4. QED
      BY <2>3 DEF WaitingFileIsOwned, Waiting, Owned, Inserting
  <1>10. QED
    BY <1>4, <1>5, <1>6, <1>8, <1>9 DEF WaitInv

(* The publish transaction completes the attempt and the file together.    *)
LEMMA PublicationStays ==
  ASSUME WaitInv, NEW w \in Workers, worker[w].pc = "pipeline", PublishTransaction(w)
  PROVE  RowsStay /\ FilesStay
  <1>1. PICK a \in Attempts : a = worker[w].attempt
    BY DEF WaitInv, FencingInv, TypeInv, WorkersTyped
  <1>2. /\ attempt' = [attempt EXCEPT ![a].status = "completed"]
        /\ fileStatus' = [fileStatus EXCEPT ![FileOf[a]] = "completed"]
        /\ attempt[a].status = "processing"
    BY <1>1 DEF PublishTransaction, HoldsToken
  <1>3. /\ \A b \in Attempts \ {a} : attempt'[b] = attempt[b]
        /\ attempt'[a].status = "completed" /\ attempt'[a].key = attempt[a].key
    BY <1>2 DEF WaitInv, FencingInv, TypeInv, RowsTyped, AttemptRow
  <1>4. Active(a) /\ attempt[a].key \notin Files /\ "completed" \in TerminalStatuses
    BY <1>2, DispatchedHasOwnKey DEF Active, ActiveStatuses, TerminalStatuses
  <1>5. QED
    BY <1>2, <1>3, <1>4, EndStays

Stays == RowsStay /\ FilesStay /\ CallersStay

(* The inductive step: one case per action.                                *)
LEMMA WaitStep == Undisturbed /\ WaitInv /\ [Next]_vars => WaitInv'
  <1> SUFFICES ASSUME Undisturbed, WaitInv, [Next]_vars PROVE WaitInv'
    OBVIOUS
  <1>0. FencingInv'
    BY FencingStep DEF WaitInv
  <1>a. /\ TypeInv /\ CallersTyped /\ WorkersTyped
        /\ attempt \in [Attempts -> AttemptRow]
    BY DEF WaitInv, FencingInv, TypeInv, RowsTyped
  <1>b. \A c \in Callers : caller[c].pc \in DispatchPcs =>
          /\ caller[c].attempt \in Attempts
          /\ Known(caller[c].attempt) /\ attempt[caller[c].attempt].key \notin Files
    BY <1>a DEF WaitInv, CallersTyped, CarriersKnow, DispatchPcs
  <1>1. ASSUME NEW c \in Callers, Dispatch(c) PROVE Stays
    <2>1. PICK a \in Attempts : a = caller[c].attempt
      BY <1>1, <1>b DEF Dispatch, DispatchPcs
    <2>2. Known(a) /\ attempt[a].key \notin Files
      BY <1>1, <1>b, <2>1 DEF Dispatch, DispatchPcs, Known
    <2>3. /\ attempt' = attempt \/ attempt' = Moved(a, "enqueue_pending", "dispatching")
          /\ UNCHANGED fileStatus
      BY <1>1, <2>1 DEF Dispatch
    <2>4. RowsStay /\ FilesStay
      BY <2>2, <2>3, MoveStays DEF ActiveStatuses
    <2>5. CallersStay
      <3>1. PICK r : /\ caller' = [caller EXCEPT ![c] = r]
                     /\ r = IdleCaller \/ (r.pc = "claimed" /\ r.attempt = a)
        <4>1. CASE attempt[a].status = "enqueue_pending"
          <5> DEFINE q == [IdleCaller EXCEPT !.pc = "claimed", !.attempt = a,
                                    !.key = attempt[a].key]
          <5>1. caller' = [caller EXCEPT ![c] = q]
            BY <1>1, <2>1, <4>1 DEF Dispatch
          <5>2. q.pc = "claimed" /\ q.attempt = a
            BY DEF IdleCaller
          <5> HIDE DEF q
          <5>3. QED
            BY <5>1, <5>2
        <4>2. CASE ~(attempt[a].status = "enqueue_pending")
          BY <1>1, <2>1, <4>2 DEF Dispatch
        <4>3. QED
          BY <4>1, <4>2
      <3>2. caller[c].pc \notin {"insert", "rename"}
        BY <1>1 DEF Dispatch
      <3>3. r.pc \notin {"insert", "rename"}
        BY <3>1 DEF IdleCaller
      <3>4. r.pc \in DispatchPcs => r.attempt = a
        BY <3>1 DEF IdleCaller, DispatchPcs
      <3>5. QED
        BY <2>1, <2>2, <3>1, <3>2, <3>3, <3>4, CallerMoves
    <2>6. QED
      BY <2>4, <2>5 DEF Stays
  <1>2. ASSUME NEW c \in Callers, MarkQueued(c) PROVE Stays
    <2>1. PICK a \in Attempts : a = caller[c].attempt
      BY <1>2, <1>b DEF MarkQueued, DispatchPcs
    <2>2. Known(a) /\ attempt[a].key \notin Files
      BY <1>2, <1>b, <2>1 DEF MarkQueued, DispatchPcs, Known
    <2>3. /\ attempt' = attempt \/ attempt' = Moved(a, "dispatching", "queued")
          /\ UNCHANGED fileStatus
      BY <1>2, <2>1 DEF MarkQueued
    <2>4. RowsStay /\ FilesStay
      BY <2>2, <2>3, MoveStays DEF ActiveStatuses
    <2>5. CallersStay
      <3>1. PICK r : /\ caller' = [caller EXCEPT ![c] = r]
                     /\ r = IdleCaller \/ (r.pc = "enqueue" /\ r.attempt = a)
        <4>1. CASE FileExists(FileOf[a])
          BY <1>2, <1>a, <2>1, <4>1 DEF MarkQueued, CallersTyped, CallerRecord
        <4>2. CASE ~FileExists(FileOf[a])
          BY <1>2, <2>1, <4>2 DEF MarkQueued
        <4>3. QED
          BY <4>1, <4>2
      <3>2. QED
        BY <1>2, <2>1, <2>2, <3>1, CallerMoves DEF MarkQueued, IdleCaller, DispatchPcs
    <2>6. QED
      BY <2>4, <2>5 DEF Stays
  <1>3. ASSUME NEW c \in Callers, RollBackDispatch(c) PROVE Stays
    <2>1. PICK a \in Attempts : a = caller[c].attempt
      BY <1>3, <1>b DEF RollBackDispatch, DispatchPcs
    <2>2. Known(a) /\ attempt[a].key \notin Files
      BY <1>3, <1>b, <2>1 DEF RollBackDispatch, DispatchPcs, Known
    <2>3. /\ attempt' = attempt \/ attempt' = Moved(a, "queued", "enqueue_pending")
          /\ UNCHANGED fileStatus
      BY <1>3, <2>1 DEF RollBackDispatch
    <2>4. RowsStay /\ FilesStay
      BY <2>2, <2>3, MoveStays DEF ActiveStatuses
    <2>5. CallersStay
      BY <1>3, CallerMoves DEF RollBackDispatch, IdleCaller, DispatchPcs
    <2>6. QED
      BY <2>4, <2>5 DEF Stays
  <1>4. ASSUME NEW c \in Callers, Enqueue(c) PROVE Stays
    <2>1. RowsStay /\ FilesStay
      BY <1>4, UntouchedStay DEF Enqueue
    <2>2. CallersStay
      BY <1>4, CallerMoves DEF Enqueue, IdleCaller, DispatchPcs
    <2>3. QED
      BY <2>1, <2>2 DEF Stays
  <1>5. ASSUME NEW c \in Callers, UncountFile(c) PROVE Stays
    <2>1. RowsStay /\ FilesStay
      BY <1>5, UntouchedStay DEF UncountFile
    <2>2. CallersStay
      BY <1>5, CallerMoves DEF UncountFile, IdleCaller, DispatchPcs
    <2>3. QED
      BY <2>1, <2>2 DEF Stays
  <1>6. ASSUME NEW c \in Callers, EnqueueThrows(c) PROVE Stays
    <2>1. RowsStay /\ FilesStay
      BY <1>6, UntouchedStay DEF EnqueueThrows
    <2>2. CallersStay
      <3>1. caller' = [caller EXCEPT ![c] = [caller[c] EXCEPT !.pc = "rollback"]]
        BY <1>6, <1>a DEF EnqueueThrows, CallersTyped
      <3>2. /\ [caller[c] EXCEPT !.pc = "rollback"].pc = "rollback"
            /\ [caller[c] EXCEPT !.pc = "rollback"].attempt = caller[c].attempt
        BY <1>a DEF CallersTyped, CallerRecord
      <3>3. /\ caller[c].pc = "enqueue" /\ caller[c].attempt \in Attempts
            /\ Known(caller[c].attempt) /\ attempt[caller[c].attempt].key \notin Files
        BY <1>6, <1>b DEF EnqueueThrows, DispatchPcs
      <3>4. QED
        BY <3>1, <3>2, <3>3, CallerMoves DEF Known, DispatchPcs
    <2>3. QED
      BY <2>1, <2>2 DEF Stays
  <1>7. ASSUME NEW c \in Callers, DispatchThrows(c) PROVE Stays
    <2>1. PICK a \in Attempts : a = caller[c].attempt
      BY <1>7, <1>b DEF DispatchThrows, DispatchPcs
    <2>2. Known(a) /\ attempt[a].key \notin Files
      BY <1>7, <1>b, <2>1 DEF DispatchThrows, DispatchPcs, Known
    <2>3. /\ \/ attempt' = attempt \/ attempt' = Moved(a, "enqueue_pending", "dispatching")
             \/ attempt' = Moved(a, "dispatching", "queued")
          /\ UNCHANGED fileStatus
      BY <1>7, <2>1 DEF DispatchThrows
    <2>4. RowsStay /\ FilesStay
      BY <2>2, <2>3, MoveStays DEF ActiveStatuses
    <2>5. CallersStay
      <3>1. caller' = [caller EXCEPT ![c] = [caller[c] EXCEPT !.pc = "rollback"]]
        BY <1>7, <1>a DEF DispatchThrows, CallersTyped
      <3>2. /\ [caller[c] EXCEPT !.pc = "rollback"].pc = "rollback"
            /\ [caller[c] EXCEPT !.pc = "rollback"].attempt = a
        BY <1>a, <2>1 DEF CallersTyped, CallerRecord
      <3>3. caller[c].pc \notin {"insert", "rename"}
        BY <1>7 DEF DispatchThrows
      <3>4. QED
        BY <2>2, <3>1, <3>2, <3>3, CallerMoves DEF Known, DispatchPcs
    <2>6. QED
      BY <2>4, <2>5 DEF Stays
  <1>8. ASSUME NEW c \in Callers, GiveUpExpired(c) PROVE Stays
    <2>1. PICK a \in Attempts : a = caller[c].attempt
      BY <1>8, <1>b DEF GiveUpExpired, DispatchPcs
    <2>2. RowsStay /\ FilesStay
      <3>1. CASE attempt[a].status = "dispatching"
        <4>1. /\ attempt' = [attempt EXCEPT ![a].status = "enqueue_failed",
                                            ![a].dispatches = caller[c].seen + 1]
              /\ fileStatus' = [fileStatus EXCEPT ![FileOf[a]] = "failed"]
          BY <1>8, <2>1, <3>1 DEF GiveUpExpired
        <4>2. /\ \A b \in Attempts \ {a} : attempt'[b] = attempt[b]
              /\ attempt'[a].status = "enqueue_failed" /\ attempt'[a].key = attempt[a].key
          BY <1>a, <4>1 DEF AttemptRow
        <4>3. Active(a) /\ attempt[a].key \notin Files /\ "enqueue_failed" \in TerminalStatuses
          BY <3>1, DispatchedHasOwnKey DEF Active, ActiveStatuses, TerminalStatuses
        <4>4. QED
          BY <4>1, <4>2, <4>3, EndStays
      <3>2. CASE attempt[a].status # "dispatching"
        BY <1>8, <2>1, <3>2, UntouchedStay DEF GiveUpExpired
      <3>3. QED
        BY <3>1, <3>2
    <2>3. CallersStay
      BY <1>8, CallerMoves DEF GiveUpExpired, IdleCaller, DispatchPcs
    <2>4. QED
      BY <2>2, <2>3 DEF Stays
  <1>9. ASSUME NEW c \in Callers, RequeueExpired(c) PROVE Stays
    <2>1. PICK a \in Attempts : a = caller[c].attempt
      BY <1>9, <1>b DEF RequeueExpired, DispatchPcs
    <2>2. Known(a) /\ attempt[a].key \notin Files
      BY <1>9, <1>b, <2>1 DEF RequeueExpired, DispatchPcs, Known
    <2>3. RowsStay /\ FilesStay
      <3>1. CASE attempt[a].status # "absent" /\ ActiveIndexAllows(a)
        <4>1. attempt' = [attempt EXCEPT ![a].status = "enqueue_pending",
                                         ![a].dispatches = caller[c].seen + 1]
          BY <1>9, <2>1, <3>1 DEF RequeueExpired
        <4>2. /\ \A b \in Attempts \ {a} : attempt'[b] = attempt[b]
              /\ attempt'[a].status = "enqueue_pending" /\ attempt'[a].key = attempt[a].key
          BY <1>a, <4>1 DEF AttemptRow
        <4>3. UNCHANGED fileStatus
          BY <1>9 DEF RequeueExpired
        <4>4. QED
          BY <2>2, <3>1, <4>2, <4>3 DEF RowsStay, FilesStay, Waiting, Active, ActiveStatuses
      <3>2. CASE ~(attempt[a].status # "absent" /\ ActiveIndexAllows(a))
        BY <1>9, <2>1, <3>2, UntouchedStay DEF RequeueExpired
      <3>3. QED
        BY <3>1, <3>2
    <2>4. CallersStay
      <3>1. PICK r : /\ caller' = [caller EXCEPT ![c] = r]
                     /\ r = IdleCaller \/ (r.pc = "dispatch" /\ r.attempt = a)
        <4>1. CASE ActiveIndexAllows(a)
          <5> DEFINE q == [IdleCaller EXCEPT !.pc = "dispatch", !.attempt = a]
          <5>1. caller' = [caller EXCEPT ![c] = q]
            BY <1>9, <2>1, <4>1 DEF RequeueExpired
          <5>2. q.pc = "dispatch" /\ q.attempt = a
            BY DEF IdleCaller
          <5> HIDE DEF q
          <5>3. QED
            BY <5>1, <5>2
        <4>2. CASE ~ActiveIndexAllows(a)
          BY <1>9, <2>1, <4>2 DEF RequeueExpired
        <4>3. QED
          BY <4>1, <4>2
      <3>2. caller[c].pc \notin {"insert", "rename"}
        BY <1>9 DEF RequeueExpired
      <3>3. r.pc \notin {"insert", "rename"}
        BY <3>1 DEF IdleCaller
      <3>4. r.pc \in DispatchPcs => r.attempt = a
        BY <3>1 DEF IdleCaller, DispatchPcs
      <3>5. QED
        BY <2>1, <2>2, <3>1, <3>2, <3>3, <3>4, CallerMoves
    <2>5. QED
      BY <2>3, <2>4 DEF Stays
  <1>10. ASSUME NEW c \in Callers, NEW g \in Files, FindToDelete(c, g) PROVE Stays
    <2>1. RowsStay /\ FilesStay
      BY <1>10, UntouchedStay DEF FindToDelete
    <2>2. CallersStay
      BY <1>10, CallerMoves DEF FindToDelete, IdleCaller, DispatchPcs
    <2>3. QED
      BY <2>1, <2>2 DEF Stays
  <1>11. ASSUME NEW c \in Callers, CallerDies(c) PROVE FALSE
    BY <1>11 DEF Undisturbed, CallerDies, Fault
  <1>12. ASSUME NEW c \in Callers, NEW a \in Attempts, SweepPending(c, a) PROVE Stays
    <2>1. RowsStay /\ FilesStay
      BY <1>12, UntouchedStay DEF SweepPending
    <2>2. CallersStay
      <3>1. attempt[a].key \notin Files
        BY <1>12 DEF Undisturbed, SweepPending, WaitInv, PlaceholdersHeld
      <3>2. Known(a)
        BY <1>12 DEF SweepPending, Known
      <3>3. QED
        BY <1>12, <3>1, <3>2, CallerMoves DEF SweepPending, IdleCaller, DispatchPcs
    <2>3. QED
      BY <2>1, <2>2 DEF Stays
  <1>13. ASSUME NEW c \in Callers, NEW a \in Attempts, ReadExpired(c, a) PROVE Stays
    <2>1. RowsStay /\ FilesStay
      BY <1>13, UntouchedStay DEF ReadExpired
    <2>2. CallersStay
      <3>1. attempt[a].key \notin Files /\ Known(a)
        BY <1>13, DispatchedHasOwnKey DEF ReadExpired, Known
      <3>2. QED
        BY <1>13, <3>1, CallerMoves DEF ReadExpired, IdleCaller, DispatchPcs
    <2>3. QED
      BY <2>1, <2>2 DEF Stays
  <1>14. ASSUME NEW a \in Attempts, RequeueRetrying(a) PROVE Stays
    <2>1. attempt' = Moved(a, "retrying", "enqueue_pending") /\ UNCHANGED fileStatus
      BY <1>14 DEF RequeueRetrying, Moved
    <2>2. RowsStay /\ FilesStay
      BY <2>1, MoveStays DEF ActiveStatuses
    <2>3. QED
      BY <1>14, <2>2, IdleCallersStay DEF RequeueRetrying, Stays
  <1>15. ASSUME NEW a \in Attempts, RequeueQueued(a) PROVE Stays
    <2>1. attempt' = Moved(a, "queued", "enqueue_pending") /\ UNCHANGED fileStatus
      BY <1>15 DEF RequeueQueued, Moved
    <2>2. RowsStay /\ FilesStay
      BY <2>1, MoveStays DEF ActiveStatuses
    <2>3. QED
      BY <1>15, <2>2, IdleCallersStay DEF RequeueQueued, Stays
  <1>16. ASSUME NEW a \in Attempts, RequeueProcessing(a) PROVE Stays
    <2>1. attempt' = Moved(a, "processing", "enqueue_pending") /\ UNCHANGED fileStatus
      BY <1>16 DEF RequeueProcessing, Moved
    <2>2. RowsStay /\ FilesStay
      BY <2>1, MoveStays DEF ActiveStatuses
    <2>3. QED
      BY <1>16, <2>2, IdleCallersStay DEF RequeueProcessing, Stays
  <1>17. ASSUME NEW w \in Workers, NEW k \in JobKeys, TakeJob(w, k) PROVE Stays
    BY <1>17, UntouchedStay, IdleCallersStay DEF TakeJob, Stays
  <1>18. ASSUME NEW w \in Workers, ClaimRefused(w) PROVE Stays
    BY <1>18, UntouchedStay, IdleCallersStay DEF ClaimRefused, Stays
  <1>19. ASSUME NEW w \in Workers, PipelineThrows(w) PROVE Stays
    BY <1>19, UntouchedStay, IdleCallersStay DEF PipelineThrows, Stays
  <1>20. ASSUME NEW w \in Workers, PublishRefused(w) PROVE Stays
    BY <1>20, UntouchedStay, IdleCallersStay DEF PublishRefused, Stays
  <1>21. ASSUME NEW w \in Workers, CountFile(w) PROVE Stays
    BY <1>21, UntouchedStay, IdleCallersStay DEF CountFile, Stays
  <1>22. ASSUME NEW w \in Workers, CountThrows(w) PROVE Stays
    BY <1>22, UntouchedStay, IdleCallersStay DEF CountThrows, Stays
  <1>23. ASSUME NEW w \in Workers, FinishJob(w) PROVE Stays
    BY <1>23, UntouchedStay, IdleCallersStay DEF FinishJob, Stays
  <1>24. ASSUME NEW w \in Workers, HandlerThrows(w) PROVE Stays
    BY <1>24, UntouchedStay, IdleCallersStay DEF HandlerThrows, Stays
  <1>25. ASSUME NEW w \in Workers, WorkerDies(w) PROVE Stays
    BY <1>25, UntouchedStay, IdleCallersStay DEF WorkerDies, Stays
  <1>26. ASSUME NEW k \in JobKeys, StallDead(k) PROVE Stays
    BY <1>26, UntouchedStay, IdleCallersStay DEF StallDead, Stays
  <1>27. ASSUME NEW k \in JobKeys, StallAlive(k) PROVE Stays
    BY <1>27, UntouchedStay, IdleCallersStay DEF StallAlive, Stays
  <1>28. ASSUME NEW w \in Workers, ClaimAttempt(w) PROVE Stays
    <2>1. PICK a \in Attempts : a = worker[w].attempt
      BY <1>28, <1>a DEF ClaimAttempt, WorkersTyped
    <2>2. /\ attempt[a].status = "queued" /\ attempt[a].key \notin Files
          /\ attempt' = [attempt EXCEPT ![a].status = "processing", ![a].gen = attempt[a].gen + 1]
      BY <1>28, <2>1, DispatchedHasOwnKey DEF ClaimAttempt, Claimable
    <2>3. /\ \A b \in Attempts \ {a} : attempt'[b] = attempt[b]
          /\ attempt'[a].status = "processing" /\ attempt'[a].key = attempt[a].key
      BY <1>a, <2>2 DEF AttemptRow
    <2>4. UNCHANGED <<fileStatus, caller>>
      BY <1>28 DEF ClaimAttempt
    <2>5. RowsStay /\ FilesStay
      BY <2>2, <2>3, <2>4 DEF RowsStay, FilesStay, Waiting, Active, ActiveStatuses
    <2>6. QED
      BY <2>4, <2>5, IdleCallersStay DEF Stays
  <1>29. ASSUME NEW w \in Workers, BeginPipeline(w) PROVE Stays
    <2>1. /\ attempt' = attempt /\ UNCHANGED caller
          /\ fileStatus' = [fileStatus EXCEPT ![FileOf[worker[w].attempt]] =
                              IF @ = "pending" THEN "processing" ELSE @]
      BY <1>29 DEF BeginPipeline
    <2>2. \A f \in Files : \/ fileStatus'[f] = fileStatus[f]
                           \/ fileStatus[f] = "pending" /\ fileStatus'[f] = "processing"
      BY <1>a, <2>1 DEF TypeInv, RowsTyped
    <2>3. RowsStay /\ FilesStay
      BY <2>1, <2>2 DEF RowsStay, FilesStay, Waiting, Active
    <2>4. QED
      BY <2>1, <2>3, IdleCallersStay DEF Stays
  <1>30. ASSUME NEW w \in Workers, Publish(w) PROVE Stays
    <2>1. worker[w].pc = "pipeline" /\ PublishTransaction(w) /\ UNCHANGED caller
      BY <1>30 DEF Publish
    <2>2. QED
      BY <2>1, PublicationStays, IdleCallersStay DEF Stays
  <1>31. ASSUME NEW w \in Workers, PublishUnacknowledged(w) PROVE Stays
    <2>1. worker[w].pc = "pipeline" /\ PublishTransaction(w) /\ UNCHANGED caller
      BY <1>31 DEF PublishUnacknowledged
    <2>2. QED
      BY <2>1, PublicationStays, IdleCallersStay DEF Stays
  <1>32. ASSUME NEW w \in Workers, RecordRetry(w) PROVE Stays
    <2>1. /\ \/ attempt' = attempt
             \/ attempt' = Moved(worker[w].attempt, "processing", "retrying")
          /\ UNCHANGED <<fileStatus, caller>>
      BY <1>32 DEF RecordRetry
    <2>2. RowsStay /\ FilesStay
      BY <2>1, MoveStays DEF ActiveStatuses
    <2>3. QED
      BY <2>1, <2>2, IdleCallersStay DEF Stays
  <1>33. ASSUME NEW w \in Workers, RecordFailure(w) PROVE Stays
    <2>1. PICK a \in Attempts : a = worker[w].attempt
      BY <1>33, <1>a DEF RecordFailure, WorkersTyped
    <2>2. RowsStay /\ FilesStay
      <3>1. CASE HoldsToken(w)
        <4>1. /\ attempt' = [attempt EXCEPT ![a].status = "failed"]
              /\ fileStatus' = [fileStatus EXCEPT ![FileOf[a]] = "failed"]
              /\ attempt[a].status = "processing"
          BY <1>33, <2>1, <3>1 DEF RecordFailure, HoldsToken
        <4>2. /\ \A b \in Attempts \ {a} : attempt'[b] = attempt[b]
              /\ attempt'[a].status = "failed" /\ attempt'[a].key = attempt[a].key
          BY <1>a, <4>1 DEF AttemptRow
        <4>3. Active(a) /\ attempt[a].key \notin Files /\ "failed" \in TerminalStatuses
          BY <4>1, DispatchedHasOwnKey DEF Active, ActiveStatuses, TerminalStatuses
        <4>4. QED
          BY <4>1, <4>2, <4>3, EndStays
      <3>2. CASE ~HoldsToken(w)
        BY <1>33, <3>2, UntouchedStay DEF RecordFailure
      <3>3. QED
        BY <3>1, <3>2
    <2>3. QED
      BY <1>33, <2>2, IdleCallersStay DEF RecordFailure, Stays
  <1>34. ASSUME UNCHANGED vars PROVE Stays
    <2>1. UNCHANGED <<attempt, fileStatus>> /\ UNCHANGED caller
      BY <1>34 DEF vars
    <2>2. RowsStay /\ FilesStay
      BY <2>1, UntouchedStay
    <2>3. CallersStay
      BY <2>1, IdleCallersStay
    <2>4. QED
      BY <2>2, <2>3 DEF Stays
  <1>35. Stays => WaitInv'
    BY <1>0, StayingKeepsWaiting DEF Stays
  <1>36. QED
    BY <1>0, <1>1, <1>2, <1>3, <1>4, <1>5, <1>6, <1>7, <1>8, <1>9, <1>10,
       <1>11, <1>12, <1>13, <1>14, <1>15, <1>16, <1>17, <1>18, <1>19, <1>20,
       <1>21, <1>22, <1>23, <1>24, <1>25, <1>26, <1>27, <1>28, <1>29, <1>30,
       <1>31, <1>32, <1>33, <1>34, <1>35, UploadKeepsWaiting,
       ResetKeepsWaiting, InsertKeepsWaiting, RejectionKeepsWaiting,
       RenameKeepsWaiting, DeletionKeepsWaiting DEF Next, CallerStep, Request,
       WorkerStep, Faulty

(* Unless the API dies within a reprocess request, and as long as sweeps   *)
(* take up no attempt a request still works on, a file that waits for its  *)
(* document always has an active attempt, or a request about to insert     *)
(* one: whatever redelivery, retries, give-ups and refused inserts do.     *)
THEOREM WaitingOwned == Undisturbed => (Spec => []WaitingFileIsOwned)
  <1> SUFFICES ASSUME Undisturbed PROVE Spec => []WaitingFileIsOwned
    OBVIOUS
  <1>1. Init => WaitInv
    <2> SUFFICES ASSUME Init PROVE WaitInv
      OBVIOUS
    <2>1. PlaceholdersHeld /\ CarriersKnow /\ InsertersKnow /\ WaitingFileIsOwned
      BY IdAssumption DEF Init, PlaceholdersHeld, CarriersKnow, InsertersKnow,
         WaitingFileIsOwned, NoRow, IdleCaller, DispatchPcs
    <2>2. \A f : Inserting(f) = {}
      BY DEF Init, Inserting, IdleCaller
    <2>3. IdsLeft
      BY <2>2, CountsAreFinite, FS_EmptySet DEF IdsLeft
    <2>4. QED
      BY <2>1, <2>3, FencingInit DEF WaitInv
  <1>2. WaitInv /\ [Next]_vars => WaitInv'
    BY WaitStep
  <1>3. WaitInv => WaitingFileIsOwned
    BY DEF WaitInv
  <1>4. QED
    BY <1>1, <1>2, <1>3, PTL DEF Spec
=============================================================================
