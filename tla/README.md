# StudyAI: TLA+ models, checks and proofs

This directory holds the formal models of StudyAI: a NestJS API (`apps/api`), a
Next.js client (`apps/web`) and shared packages (`domain`, `infrastructure`,
`database`, `ast`, `types`) over Postgres (Drizzle), Redis (BullMQ), object
storage, Stripe and AI providers. It models the protocols of the system, the
parts in which several requests, cron sweeps and workers race over shared rows
and a process can die between two statements. CRUD, data transformation and
presentation are not modelled.

## 1. Inventory

| Part | State it keeps | Operations | What is hard |
|---|---|---|---|
| **Document processing** (`modules/files`) | `files.processing_status`, `file_processing_attempts`, `document_versions`, `subjects.file_count`, BullMQ jobs | upload, reprocess, delete; dispatch; five cron sweeps; claim, pipeline, publish, retry, fail | rows and queue are two stores; leases expire under running work; redelivery; lost replies; crashes between statements |
| **Exam evaluation** (`modules/exams`) | `exams.status`, `evaluation_version`, `evaluation_locked_at`, questions with answers and marks, score | create, submit in three phases (claim, grade and AI, commit), release of the lock, challenge progress | double submission, AI calls longer than the lease, answers read outside the transaction, lost commits |
| **Token quota** (`domain/security/quota`, `QuotaInterceptor`, `LeakReconciliationWorker`) | daily counters, pending reservations in Redis | reserve, commit, release (Lua), one sweep per minute | sweep against a running request, client disconnects, swallowed failures, day buckets that expire |
| **Files API** (`modules/files`, the upload page) | chunks and assembled files on the server's disk, stored objects, `files` rows, `subscriptions.files_used_this_month` | chunked upload, direct upload, registration, deletion | three stores without a common transaction; chunks that arrive twice; cleanup of what another request uses |
| **Quiz capacity** (`quota/quiz-monthly-capacity`) | `quiz_monthly_usage` per user and UTC month | consume (one upsert) | races for the last of the month, failed generations, midnight |
| **Billing** (`subscriptions`, `payments`) | the `subscriptions` row, plan columns of `users`, payment rows; customers and subscriptions at Stripe | checkout, cancel, resume; five webhook handlers | events duplicated, reordered and handled concurrently; two tables written one after the other |
| **Authentication and page session** (`auth`, `api-client.ts`, `use-auth.tsx`) | refresh token hash and `isActive` of a user; access token, user, spinner and generation of a page | login, register, refresh, logout; recovery from a 401, retry, stream | answers that arrive in another order, a shared refresh, stale results |
| **Outbox** (`infrastructure/events`) | stored events | append, publish batch | duplicates, events left FAILED |
| **Gamification, study groups** | challenge counters, memberships | increment, join | read-modify-write without a lock |
| **AST, chunking, pipeline stages** (`packages/ast`, `files/services/pipeline`) | none (values) | build, transform | none concurrent: data only |
| **AI, RAG, tutor, chat, learning features, admin, analytics, other pages** | rows of one user | CRUD, external calls | not protocols |

How they interact: the files API inserts a file and its attempt and calls the
dispatcher; the dispatcher moves the attempt to `queued` and adds a BullMQ job;
the worker adapter delivers the job to `FilesProcessor`, which claims the row,
runs the pipeline and publishes through `DocumentPersistenceService` or records
a failure through `FileProcessingStateRepository`; the reconciler's crons read
the same rows and dispatch again. An exam is created from a file, disappears
with it by cascade, takes its questions from the month's capacity, and reports to
gamification when it completes. An upload is charged to the subscription row
that the webhook handlers rewrite. The quota interceptor wraps decorated routes;
its worker cleans up after it. Every page sends its requests through
`api-client.ts`, which holds the token that `AuthProvider` obtained.

What makes the parts correct: a unit of work is done by one worker at a time in
effect, its result is published once, and only by the newest claim; a finished
unit stays finished; whatever waits has somebody who will end it; what was
charged is either used or given back; what two stores say of one thing agrees
once the work on it has ended.

## 2. Modules

| Module | Stands for |
|---|---|
| `FencedWork` | the abstract promise both worker protocols make: claims with growing tokens, at most one hold in force, at most one result, committed under the hold |
| `FileProcessing` | document processing: tables, queue, dispatcher, reconciler, requests, worker |
| `MCFileProcessing` | its small instances and symmetry |
| `FileProcessingProofs` | typing and fencing invariants: `TypeCorrect`, `TokensAreFencing` |
| `FileProcessingHistory` | `OneActive`, `NewestPublishes`, `PublicationSound`, `OwnAttemptFails`, `ImplementsProtocol`, `WaitingOwned` |
| `ExamEvaluation`, `MCExamEvaluation` | the exam row: insertion and submission |
| `ExamCreation`, `MCExamCreation` | creation of exams from the month's capacity, composed with `ExamEvaluation` |
| `ExamEvaluationProofs` | its typing, ownership, scores, rewards, and the refinement of `FencedWork` |
| `ExamCreationProofs` | the same for the composition, and that the month's capacity covers its exams |
| `TokenQuota`, `MCTokenQuota` | the token quota: Lua scripts, interceptor, sweep |
| `TokenQuotaProofs` | `LedgerIsExact`, `QuotaIsKept`, `ChargesFollowService` |
| `FilesApi`, `MCFilesApi` | uploads, registration and deletion over disk, storage and database |
| `FilesApiProofs` | its typing, the upload limit, readable files, what may stay behind, no more files than were sent |
| `Billing`, `MCBilling` | subscriptions and webhooks of one user, against Stripe |
| `BillingProofs` | its typing, the payment history, the convergence of the two tables |
| `WebSession`, `MCWebSession` | one page's session: the auth endpoints and the client that calls them |
| `WebSessionProofs` | its typing, the owner of the token, the outcome of calls |

### FileProcessing

One action is one SQL statement or transaction, one Redis command, or one local
step between two awaits, so that every interleaving of the code's awaits is a
behaviour. A *caller* is a chain of calls in the API process (a request, or one
iteration of a cron), with its place in the code as `pc` and what it read
earlier in its record; a *worker* is one execution of the BullMQ handler.

* `Dispatch`, `MarkQueued`, `Enqueue`, `RollBackDispatch` are the statements of
  `dispatchAttempt`; `DispatchThrows` and `EnqueueThrows` let any of them throw
  with or without its effect. `Moved` is an `UPDATE .. WHERE status = from`.
* `SweepPending`, `ReadExpired` + `GiveUpExpired`/`RequeueExpired`,
  `RequeueRetrying`, `RequeueQueued`, `RequeueProcessing` are the five crons. A
  cron that is one UPDATE is one action; a cron that reads rows and then writes
  them is two, with the stale read kept in the caller.
* `Upload`, `ResetFile` + `InsertAttempt`/`InsertRejected` + `RenameJob`,
  `FindToDelete` + `DeleteFile` + `UncountFile` are the requests. A reprocess
  inserts its attempt under a job id made from the file id and renames it.
* `TakeJob`, `ClaimAttempt`/`ClaimRefused`, `BeginPipeline`, `PipelineThrows`,
  `Publish`/`PublishRefused`/`PublishUnacknowledged`, `CountFile`/`CountThrows`,
  `RecordRetry`, `RecordFailure`, `FinishJob`, `HandlerThrows` are the handler
  and its adapter. `FailurePc` is the retry policy: which error is retryable is
  open, how many attempts are made is not.
* `AddJob`, `HoldsLock`, `ReclaimStalled` model BullMQ from the way the code uses
  it: an add of an existing job id is ignored, a finished job is removed, a
  failed one kept, a stalled one redelivered once.

Abstracted: document contents, error texts, backoff delays, metrics; ages and
leases (any moment may be late, unless `AccurateLeases`). `subjectId` is fixed
per file. A worker fetches the file in the step that marks it `processing`.

### ExamEvaluation

An answer is whether it is right, a score the number of right answers.
`Preflight`, `Claim`/`ClaimRefused`, `Grade`, `Commit`/`CommitRefused`, `Unlock`
and `Reward` are the steps of `submit`; `CommitThrows` is a commit that fails or
loses its acknowledgement; `GradeThrows` is an error outside the try block, which
leaves the lock to expire. `LeaseExpires` is the five minutes of
`STALE_LEASE_MS` after the owner is gone; `LeaseOverrun` lets them pass under a
running evaluation, and counts as a fault. `DropExam` is the cascade from the
deleted file.

`ExamCreation` EXTENDS it: `Consume` is the one statement of
`tryConsumeQuizCapacity`, `Generated` and `CreationFails` the AI's answer, and
`InsertMade` the insertion of `ExamEvaluation` with the number of questions and
the month they were taken from. All actions of `ExamEvaluation` go on beside
them (`Evaluation`, `StartSubmit`), so the properties of both are checked in one
run. A request is one creation or one submission at a time.

`FileProcessing` and `ExamEvaluation` implement `FencedWork` under a refinement mapping: token =
`processing_attempts` or `evaluation_version`, hold = `processing` or an active
locked exam, result = a document version or the completion. Document processing
never claims over a hold (it must be released by a requeue first); an exam claim
may replace an expired one, so it implements the preemptive variant.

### TokenQuota

A script of `TokenAccountant` is one action, since Redis runs it atomically
(`ReserveLua`, `CommitLua`, `ReleaseLua`). A request walks through
`QuotaInterceptor`: `Arrive` computes the key of the day, `Reserve` runs the
script, `HandleReply` is the continuation of the await, `Complete` and
`ControllerThrows` are the ends of the route, `Disconnect` is the client going
away, before the reply (`isUnsubscribed`) or while the route runs (`finalize`),
and `Commit` and `Release` are the scripts that the hooks call without waiting.
The latches `reserved` and `resolved` are the request's `pc`: once it is at
`commit` or `release` no other hook does anything. `ReserveResent`,
`ReserveThrows` and `ResolveThrows` are the failures of a script, with or
without its effect. A sweep reads an entry (`SweepRead`) and releases it later
(`SweepRelease`) without looking again; sweeps of two instances may overlap,
since the leader's lock lives 50 seconds.

The requests are those of one user: users share no counter, and entries of the
hash belong to one request. They all cost `Cost`: one route carries
`@TokenCost`. A missing counter reads as 0, which is what the scripts read it
as, so `ExpireCounter` is an assignment of 0; the guard on requests that are
about to reserve says that a request does not wait two days between computing
the key and running the script. `kept` is a history variable: which entries
were taken out of the hash by a commit. `swept` is another: the requests whose
entry a sweep took; `ChargeFollowsService` needs it, since a sweep that finds a
request older than five minutes refunds it although it may still be served.

### FilesApi

Three stores: `disk` and `temp` (the server's file system), `storage` and the
rows `file` and `sub`. A chunk request walks through `handleChunkUpload`
(`OpenUpload`, `WriteManifest`, `CreateChunk`, `FillChunk`, `JoinChunk`,
`CheckSize`), every error leads to `Abort`, the catch and finally blocks, which
remove the directory of the upload whoever works in it. A chunk file is created
and filled in two steps, so that another request may read it empty. The last
chunk goes on into `registerAndProcessFile` (`CheckQuota`, `StoreObject`,
`Register`, `UndoStore`, `Tidy`), as does the direct upload (`StartDirect`).
`StartDelete`, `DeleteObject`, `DeleteRow` are `deleteFile`. `SendChunk` and
`Reply` are the loop of the upload page. `PeriodStarts` and `StatusChanges` are
what the webhook handlers do to the counter meanwhile.

What fails, and what it leaves behind:

* The checks of a chunk's metadata (`files.service.ts:590-625`) stand before the
  `try` block and before any effect; a request they refuse changes nothing and is
  no step of the model. Those inside the block (header, manifest, type, subject),
  and any statement of the disk or the database there, may refuse at every step
  (`Refused`) and lead to `Abort`.
* A direct upload is on disk before anything is checked: the interceptor writes it
  (`StartDirect`). If the file itself is not valid the pipe removes it
  (`Refused`); if the body of the request is not, nobody does (`RejectDirect`),
  and `disk` keeps `"rejected"`.
* `local-disk.adapter.ts` writes an object in place. A write that fails in the
  middle leaves what it wrote under a key that no row will have (`StoreFails`, the
  object `"partial"`).
* The transaction of the registration may throw without effect (`RegisterFails`),
  or its COMMIT may take effect and only the acknowledgement be lost
  (`RegisterUnacknowledged`). The catch block cannot tell the two apart and
  deletes the object (`UndoStore`): in the second case the row, state
  `"unacked"`, its attempt and the raised counter stay without an object.
* The removals in the catch and finally blocks swallow their errors
  (`CleanupFails`, `DeleteObjectFails`), and the process may die anywhere
  (`Crash`); these set `lost`. A deletion whose second statement fails leaves the
  row without its object, to be deleted again (`DeleteRowFails`).

`FileIsReadable` and `NothingIsLeft` name these outcomes as what they do not
promise; everything else they do.

Not modelled here: the super administrator, whose uploads are not counted; a plan
whose limit is -1 (`payments.service.ts:364` calls it unlimited, yet
`files.service.ts:719` and `:783` compare `used >= -1`, which refuses every upload),
since `Limit` is a natural number; and the steps inside a recursive removal of an
upload's directory, which is one step of the model (`Without`). `FilesWereSent`
rests on it for the first chunk: a last chunk that arrives again after its own
chunk file was unlinked and before the manifest and the other chunks are could
be assembled once more from them, although the first chunk came once. It would
still be whole, and paid for by a last chunk of its own.

`sent` is a history variable: how often each chunk of an upload reached the
server. An upload may become more than one file. The directory of an upload
exists only while it is assembled; when it is removed, by the end of the
registration or by a catch block, nothing remembers the upload, and if all of
its chunks reach the server again they are assembled and registered again. What
the code does guarantee is `FilesWereSent`: no request registers what another
one assembled, so every file was paid for by a first and a last chunk of its own.

### Billing

Stripe is external: `PayCheckout`, `Renew`, `ChargeFails`, `End` and
`PortalCancel` change a subscription and emit events, `Deliver` hands an
unacknowledged event to a handler whenever one is free. A handler is the sequence of its
statements that change rows (`UpdateRow`, `UpdateUser`, `InsertPayment`,
`Respond`), and `HandlerFails` between any two of them sends the event back to
be delivered again. The calls of the subscription page keep the row they read in
their record until they write (`StartCheckout` to `CreateSession`, `StartCancel`
to `CancelRow`). The handlers compare neither the age of an event nor its
subscription, so no property could hold of the rows without saying when the news
that was written was old or foreign: `fresh` and `misled` are history variables
that record exactly this. A third case is a resume. `resumeSubscription` writes
`active` whatever Stripe answers, and an overdue subscription may be resumed: if
the handler of Stripe's `updated` event has written `expired` before, the row
stays `active` although Stripe calls the subscription past due. `answer` keeps
what Stripe said, so that this write misleads as well.

### WebSession

The page's script runs to its next await without interruption, so one action is
what happens between two awaits. `current` is the set of requests that began in
the present generation, the `generationRef` of `use-auth.tsx` without its number.
Answers come in any order; `Ends` also lets any of them be lost. A call that is
refused awaits the recovery in flight or starts it (`AwaitRecovery`), and the end
of the recovery sends all waiting calls again or ends them (`RecoverySucceeds`,
`RecoveryFails`). Results that the code uses without comparing the generation (a
logout's end, the recovery's token, `checkSession`, a cookie) set `crossed`, by
which `ShowsTokenOwner` excludes them.

## 3. Runs

| Run | Question | Bounds | Result |
|---|---|---|---|
| `FP_Redispatch` | can redelivery, requeues, deletes, crashes and lost replies break the fencing of one attempt, or publish it twice? | 1 file, 1 attempt, 2 workers, 2 callers, any 2 faults of 7 kinds, 3 claims | no (about 0.9 M states) |
| `FP_Reprocess` | can the attempts of one file disturb each other, or leave it waiting for nobody? | 1 file, 3 attempts, 2 workers, 2 callers, 3 claims each, any 2 faults of 3 kinds, accurate leases | no (about 2.8 M states) |
| `FP_Liveness` | does every attempt end and every waiting file settle? | 1 attempt, 2 workers, 2 callers, 1 fault, accurate leases | yes |
| `FP_Resurrected` | is a terminal status final? | 1 attempt, 2 workers, 2 callers, no faults | **no**, finding 1 |
| `FP_StaleRetry` | can a stale worker disturb the current one? | 1 attempt, 2 workers, 1 lost lock | **yes**, finding 2 |
| `FP_RetainedJob` | does every attempt end if a statement throws outside the try blocks? | 1 fault | **no**, finding 3 |
| `EX_Submit` | do concurrent creations and submissions mix answers, score, lock, rewards or capacity, and is an exam that is submitted again some day completed? | 2 exams, 1 question to answer, 2 requests, 3 claims, 2 months, any 2 faults of 5 kinds | no; yes (about 0.5 M states) |
| `EX_Override` | does a mark follow the answer? | 1 request | **no**, finding 4 |
| `TQ_Ledger` | are the counters exact and within the quota, does the charge follow the service, does no reservation leak? | 2 requests, 2 sweeps, 3 days, any 2 faults, sweeps of running requests | yes (about 0.3 M states) |
| `BI_Webhooks` | do the tables converge on what Stripe charges for? | 2 subscriptions, 2 customers, 5 events, 2 handlers at once, 2 dashboard calls, 1 fault | yes (about 2.2 M states) |
| `FA_Uploads` | does an upload become a whole, readable file within the limit, no more of them than were sent, and what is left of a failed one? | 3 requests, 1 chunked upload of 2 chunks, 4 files of which one is old, limit 2, any 2 faults of 6 kinds | yes, but for the outcomes that `FileIsReadable` and `NothingIsLeft` name (about 6.4 M states) |
| `WS_Page` | does the page act for the user it shows, and does nothing hang or run twice? | 2 users, 2 calls (a `checkSession`, a stream), 2 logins or logouts, 1 fault | yes (about 1.2 M states) |

The bounds. Two workers and two callers are the smallest numbers that race; a
third of either only repeats the roles. `MaxGen` is larger than `MaxRetries` in
the fault runs, so the claim that must give up happens. One file is enough since
no action touches two; three attempts of it let a second reprocess request meet
the end of the first. A fault
budget of two lets a fault hit the recovery from another. In `EX_Submit` a
request for 4 questions is above the limit of 3 and one for 2 fits once, so both
guards of the upsert refuse something, and the AI may return more than was asked for. In `TQ_Ledger` the
quota of 3 is no multiple of the cost of 2, so the boundary is hit with a
remainder; with three days a reservation can outlive its counter. In `FA_Uploads`
the limit of 2 lets two files of one upload be registered, which needs both faults
(each of its two chunks resent), and makes the third registration meet the locked
check; three requests let a resent chunk, the assembly and a direct upload or a
deletion overlap. In `BI_Webhooks` five events are two subscriptions' checkout and invoice
and one change, or one subscription's life to its end. They are too few to reach
the resume of an overdue subscription, which the proof of `Converges` found and
covers; the invariant it needs was also checked with larger bounds. In `WS_Page` one of the
users has a cookie from before, so the mount's refresh can succeed beside a login
of the other. `FP_Redispatch`, `FP_Reprocess` and `FA_Uploads` use symmetry, runs
with a liveness property do not. Deadlock checking is off because the systems
may rest: there may be no request left to make.

Fairness (`FairSpec`). Weak fairness of a call chain or a worker execution says
that started work goes on: the event loop and the database serve every await.
Weak fairness of the single-statement crons, strong fairness of the crons that
need a free call chain, say that crons fire every minute whatever the requests
do (in the code they have no call-chain limit at all; strong fairness undoes
the bound on callers). Strong fairness of `TakeJob` says that BullMQ serves jobs
in order. Requests and faults are never forced. In `EX_Submit` the student
submits again as long as the exam is active, which is the recovery the code
relies on (strongly fair: a submission finds the exam free again and again), and
the AI answers a creation in the end. In `TQ_Ledger` requests run on, a route
ends in some way, and the sweep of every minute gets to every old entry (strongly
fair, since entries come and go with other sweeps). In `BI_Webhooks` Stripe goes
on delivering what is unanswered and a started handler runs on. In `WS_Page`
every request is served and ends, for calls at the latest by the timer of
`api-client.ts:234`; the recovery's own fetch (`api-client.ts:164`) has no timer,
and its end is assumed of the browser. `FP_Liveness` assumes
`AccurateLeases`: if every lease may always expire
early, two workers can take an attempt from each other for ever, and the code
counts on 15 minutes being more than the 5 minutes bound of the pipeline.

`MaxGen` cannot hide a failure of liveness: the run allows more claims than the
retry policy, and a claim beyond `MaxRetries` ends the attempt.

### Findings

1. `TerminalIsFinal`: the requeue of an expired dispatch
   (`file-processing-reconciler.service.ts:66`) has no condition on the status,
   so an attempt that completed since the read is active again. The publication
   survives it (`PublicationConsistent` holds: `publish` is idempotent), and
   so does `OneActiveAttempt`, thanks to the partial index.
2. `StaleWorkerIsHarmless`: the retry branch of `handleFailure`
   (`files.processor.ts:274`) does not compare the generation.
3. `AttemptTerminates` with the fault `throw`: a failed job kept under its id
   (`file-processing-dispatcher.service.ts:59`) absorbs all later adds.
4. `MarksFollowAnswers`: `exams.service.ts:498` lets the AI replace the mark of
   any question, after the score was computed from the old one.

One weakness shows in what `WaitingFileIsOwned` has to assume, without a statement
of the repository that it contradicts. `reprocessFile` resets the file, inserts the
attempt under a job id made from the file id (`files.service.ts:864`) and renames
it two statements later. If the API dies between insert and rename, the sweep
finishes the attempt under that id, and from then on every reprocessing of the
file resets it to pending and is then refused by the unique index: the file
stays pending. The fault `crash` is therefore not in `FP_Reprocess`, and the run
takes the sweeps' minute of grace as longer than a request (`AccurateLeases`); with
inaccurate leases TLC finds the same end without any crash, after 22 states. The
theorem `WaitingOwned` names the two assumptions `Undisturbed`. That
`OneActiveAttempt`, `PublicationConsistent` and `OldAttemptNeverFailsFile` need
neither assumption is what their proofs add.

## 4. Proofs

The proofs hold for any sets of files, attempts, workers, callers, exams,
questions and requests and any fault budget. Those of `FileProcessing` assume
`IdAssumption` (attempt ids belong to one file and are not file ids, `None` is no
id) and `BoundAssumption` (bounds are numbers), and only `WaitingOwned` also
`FiniteAssumption` (finitely many attempts and callers); those of `ExamEvaluation`
assume `ExamAssumption` (finitely many questions), those of `ExamCreation` also
`CreationAssumption` (finitely many exams and requests), those of `TokenQuota`
`QuotaAssumption` (finitely many requests, a positive cost), those of `FilesApi`
`FilesAssumption` (finitely many requests and files, bounds are numbers, names do
not coincide), those of `Billing`
`BillingAssumption` and those of `WebSession` `WebAssumption` (`None` is no id,
names do not coincide, bounds are numbers). Every run evaluates the assumptions of
its module.

Document processing (`FileProcessingProofs`, `FileProcessingHistory`):

* `TypeCorrect`: `Spec => []TypeOK`. `TypeOK` is not inductive: the steps of a
  caller or worker use the ids in its record, so `TypeInv` adds which `pc` has
  which id (`CallersTyped`, `WorkersTyped`, `JobsTyped`, `RowsTyped`).
* `TokensAreFencing`: `Spec => []FencingTokens`. A generation is unique because
  the row's counter only grows, but deletion resets it, and a worker can then
  carry a token of a row that is gone. `FencingInv` adds that a deleted file
  never gets rows again (ids are not reused), and that only workers past their
  claim carry a token. Each step leaves tokens and generations alone, or is the
  claim, which hands out a number above all others (`MoveKeepsTokens`,
  `MoveWakesNone`).
* `OneActive`: `Spec => []OneActiveAttempt`. Every step that makes an inactive
  attempt active is guarded by `ActiveIndexAllows`; every other step only moves
  attempts among active statuses or out of them.
* `NewestPublishes`: `Spec => NewestWorkerPublishes`, from `FencingInv`: the
  publisher's generation equals the row's, no other worker is above the row and
  none shares a generation.
* `PublicationSound`: `Spec => []PublicationConsistent`. Inductive with
  `FencingInv`: all steps but three publish nothing and complete nothing (`Quiet`);
  the publish transaction adds a version its history does not have together with
  both statuses, and deletion takes all of it away together.
* `OwnAttemptFails`: `Spec => OldAttemptNeverFailsFile`. The two steps that fail a
  file end an active attempt of it, and by `OneActiveInv` there is no other.
* `ImplementsProtocol`: `Spec => ImplementsFencedWork`. A step keeps all holds
  (`KeepsHolds`), gives up at most one (`LosesOnly`), or is the claim, the publish
  transaction (acknowledged or not) or the deletion, which are `Claim`, `Commit`
  and `Remove`.
* `WaitingOwned`: `Undisturbed => (Spec => []WaitingFileIsOwned)`. The danger is a
  reset whose insert is then refused. `WaitInv` adds why each refusal leaves an
  owner: an attempt that still has the job id made from its file is pending and its
  request is about to rename it (`PlaceholdersHeld`), so no dispatching call chain
  works on one (`CarriersKnow`) and a refusal by that id means an active attempt;
  a refusal by the active index means one too; and as a request that resets a file
  sees an unused attempt id of its own (`IdsLeft`, a count of requests against
  ids), no insert fails for want of an id: the code draws a new UUID each time,
  and the guard of `ResetFile` only bounds the requests. Steps outside requests keep rows, waits and requests
  apart (`RowsStay`, `FilesStay`, `CallersStay`, one lemma for all of them); reset,
  insert, refusal, rename, upload and deletion each have a lemma of their own.

Exam evaluation (`ExamEvaluationProofs`):

* `TypeCorrect`: a request that is at work must name an exam, and the score it
  carries must be in range (`TypeInv`).
* `OwnersAreLocked`: `OwnInv` numbers the versions. A version in flight is not 0
  and at most the row's, so the next claim is above all of them; an exam that was
  deleted has version 0 and is never claimed again, so the tokens of its orphaned
  requests never match anything.
* `ScoresMatchAnswers`: on top of `OwnInv`, the request that holds the current
  version and has graded carries the number of the marks that are stored now
  (`OwnersCount`): whoever replaces the answers takes the version away in the same
  transaction. Before completion marks and answers agree (`MarksStored`); only the
  commit itself may change the marks.
* `CountedOnce`: an exam that is not yet completed has no reward and nobody who
  goes to reward it; the commit makes one request rewarding, and it leaves.
* `ImplementsProtocol`: `Spec => ImplementsFencedWork`, from `OwnInv`: a commit
  happens under the hold because the owner is locked.

Creation of exams (`ExamCreationProofs`):

* `CreationKeepsEvaluation`, `CreationImplementsProtocol`: every step of the
  composition is a step of `ExamEvaluation` or leaves its variables alone, so the
  invariants and the refinement carry over.
* `CapacitySuffices`: `CapacityInv` says that the questions of the exams of a
  month and those still claimed by creations are together at most what the
  month's row says was taken (`Covered`). A sum over exams is the cardinality of
  a set of pairs (`Units`), which one step changes by one block; an exam that was
  not inserted has no questions (`Unmade`).

Token quota (`TokenQuotaProofs`):

* `LedgerIsExact`: `LedgerInv` says that the entry of a request names its day
  (`EntriesMatch`), and that each day is balanced or expired for good: an expired
  counter has nobody who is about to charge it. A reservation adds one request to
  the set charged to its day, a refund removes it, a commit moves it from pending
  to kept.
* `QuotaIsKept` and `TypeCorrect` are conjuncts of the same invariant.

* `ChargesFollowService`: `ServiceInv` says of each request what its place in the
  interceptor means for its entry: once served it is pending, kept or swept, or a
  fault happened; before that it is not kept. No step changes the entry of
  another request but a sweep, which records it.

Uploads and files (`FilesApiProofs`):

* `TypeCorrect`, `LimitHolds`: the counter is only raised under the lock, below
  the limit.
* `Readable`: `FileInv` says which places of a request know a file, that no two
  requests register the same one (`OneOwner`), and that what is stored for it is
  whole: the size check makes it so, and its object stays until the transaction has
  ended. The undo deletes the object of a row only if the row's COMMIT was not
  acknowledged. `InvDecides` is the lemma of every step that settles what becomes
  of a stored file, and `InvGivesUp` applies it to the undo, whether storage
  deletes the object or refuses to.
* `Clean`: `CleanInv` says that every stored object belongs to a row, or to a
  request that will register or undo it, or was cut short (`StorageMatches`), and
  that every assembled file belongs to a request that will remove it, or to a
  rejected direct upload (`DiskMatches`), unless `lost`.
* `SentForEach`: `CountInv` counts, for each upload, its files and the requests
  that may still add one. Files and storers (requests past the creation of the
  last chunk) are at most the last chunks sent; files, makers (requests past the
  creation of the directory) and an unused directory are at most the first
  chunks sent. A request becomes a maker of a directory that was not there, and a
  storer by creating the chunk file, exclusively; removal of the directory ends
  the vacancy. `PageInv` says that the one request the page waits for says yes to
  the last chunk only after it registered a file.

Billing (`BillingProofs`):

* `TypeCorrect`: a handler at a statement has an event with such a statement
  (`NewsTyped`), and a call at work knows its subscription (`CallsTyped`).
* `PaymentsRecorded`: `NewsInv` relates the events to Stripe's state (`Told`,
  `InOrder`, `Complete`), `CustomerInv` says that with one customer all sessions
  and subscriptions belong to the row's. So a paid invoice is never skipped as one
  of an unknown customer, and its payment is stored before the answer (`PaidInv`).
* `RowsConverge`: as long as no write has misled, each table either shows the
  latest news up to the event it was last written from (`RowFollows`,
  `UserFollows`), or is behind: an older event is still to be written over a newer
  one (`RowBehind`, `UserBehind`), and that write will mislead. Handlers are ahead
  of nothing they have not written (`Written`). When all events are acknowledged
  nothing is behind, and the latest event is what Stripe has. A call that writes
  the row (`CallsKnow`) knows what Stripe had at the moment of its answer.

Page session (`WebSessionProofs`):

* `OutcomeTrue`: a call that has executed has an `ok` answer, so the retry, which
  needs a refused one, cannot run it again (`OutcomeInv`).
* `OwnerShown`: `OwnerInv` relates everything that can still set the token to the
  user: calls of the present generation carry the token's user (`CallsOfToken`), a
  recovery and a cookie of it too (`RecoveryOfToken`, `CookieOfToken`), and a
  mount, login or logout in the present generation is alone in it (`Alone`). The
  theorem says nothing of a run once `crossed` is set: a late logout, a late
  recovery, `checkSession` and a cookie set meanwhile do make the page hold the
  token of another user than it shows, since the code does not compare their
  generation.

Every invariant and every safety property of a step that a passing run checks is
also a theorem. Model-checked only is what is temporal under fairness
(`AttemptTerminates`, `WaitingFileSettles`, `ExamCompletes`, `ReservationResolves`,
`EventsAcknowledged`, `LoadingEnds`, `CallsSettle`), which the proof system does not handle (nor `ENABLED`). No module uses RECURSIVE
operators, and no claim needs induction over data.

Two invariants turned out false when they were to be proved for every bound, and
the runs had not shown it. An upload was said to register once: the run's limit of
one file hid the second registration. `Converges` lacked the resume of an overdue
subscription: the run had one event too few.

## 5. Plan

*Model*: `Outbox`; a subject's count against its files under assign, delete and
late publication; the counters of gamification; study group capacity.

## 6. Not modelled, and why

Listings, profile and CRUD routes, learning features, analytics and
administration act on rows of one user in single statements, and no two of their
steps depend on each other. The contents of pipeline stages, the AST builder,
chunking and AI answers are data; the models keep whether they fail. The pages of
the web client render what they fetched and keep their own state; of the client,
the token and session handling and the upload loop are modelled. The legacy
in-process path of `reprocessFile` (taken when BullMQ is off), adaptive questions
(a feature flag keeps their route closed), e-mail verification and OAuth redirects are left
out.
