--------------------------- MODULE ExamEvaluation ---------------------------
(***************************************************************************)
(* The evaluation of exams in apps/api/src/modules/exams/exams.service.ts: *)
(* the rows of exams and questions in Postgres, and the API requests that  *)
(* create an exam and submit answers to it.  A submission claims the exam  *)
(* and stores its answers in one transaction, grades and calls the AI      *)
(* outside of any, and commits the result under the version it claimed.    *)
(*                                                                         *)
(* An answer is abstracted to whether it is right, a score to the number   *)
(* of right answers.  Each action is one transaction or one statement.     *)
(***************************************************************************)
EXTENDS Naturals, FiniteSets

CONSTANTS
  Exams,                \* exam ids (random UUIDs, never reused)
  Questions,            \* the questions of an exam
  Submitters,           \* concurrent API requests
  None,                 \* no exam
  MaxVersion,           \* bound: claims of one exam
  Overrides,            \* TRUE: the AI may return isCorrect for a question
  FaultKinds, MaxFaults \* which faults may happen, and how many in all

ASSUME ExamAssumption ==
  /\ IsFiniteSet(Questions) /\ Questions # {}
  /\ None \notin Exams
  /\ MaxVersion \in Nat /\ MaxFaults \in Nat
  /\ Overrides \in BOOLEAN

VARIABLES
  status,     \* exams.status; "absent" before, "deleted" after
  hasItems,   \* are the exam's questions inserted?
  version,    \* exams.evaluation_version
  lease,      \* exams.evaluation_locked_at: null, recent or over 5 min old
  right,      \* the questions whose stored user_answer is right
  marked,     \* the questions whose stored is_correct is true
  score,      \* exams.score, 0 while null
  rewards,    \* calls of updateChallengeProgress for the exam
  request,    \* local state of each request
  faults      \* faults so far

vars == <<status, hasItems, version, lease, right, marked, score, rewards,
          request, faults>>
rows == <<status, hasItems, version, lease, right, marked, score, rewards>>

RequestRecord ==
  [pc : {"idle", "questions", "claim", "grade", "commit", "unlock", "reward"},
   exam : Exams \cup {None}, version : Nat, score : Nat]
IdleRequest == [pc |-> "idle", exam |-> None, version |-> 0, score |-> 0]

TypeOK ==
  /\ status \in [Exams -> {"absent", "active", "completed", "deleted"}]
  /\ hasItems \in [Exams -> BOOLEAN]
  /\ version \in [Exams -> Nat]
  /\ lease \in [Exams -> {"none", "fresh", "stale"}]
  /\ right \in [Exams -> SUBSET Questions]
  /\ marked \in [Exams -> SUBSET Questions]
  /\ score \in [Exams -> 0..Cardinality(Questions)]
  /\ rewards \in [Exams -> Nat]
  /\ request \in [Submitters -> RequestRecord]
  /\ faults \in Nat

Init ==
  /\ status = [e \in Exams |-> "absent"]
  /\ hasItems = [e \in Exams |-> FALSE]
  /\ version = [e \in Exams |-> 0]
  /\ lease = [e \in Exams |-> "none"]
  /\ right = [e \in Exams |-> {}]
  /\ marked = [e \in Exams |-> {}]
  /\ score = [e \in Exams |-> 0]
  /\ rewards = [e \in Exams |-> 0]
  /\ request = [r \in Submitters |-> IdleRequest]
  /\ faults = 0

(* A fault of a kind the scenario allows, within its budget.               *)
Fault(kind) ==
  /\ kind \in FaultKinds
  /\ faults < MaxFaults
  /\ faults' = faults + 1

ExamExists(e) == status[e] \in {"active", "completed"}
Return(r) == request' = [request EXCEPT ![r] = IdleRequest]
GoTo(r, pc) == request' = [request EXCEPT ![r].pc = pc]

-----------------------------------------------------------------------------
(* create: the exam row is inserted active, its questions by a statement   *)
(* of their own.                                                           *)

InsertExam(r, e) ==
  /\ request[r].pc = "idle"
  /\ status[e] = "absent"
  /\ status' = [status EXCEPT ![e] = "active"]
  /\ request' = [request EXCEPT ![r] = [IdleRequest EXCEPT !.pc = "questions",
                                                           !.exam = e]]
  /\ UNCHANGED <<hasItems, version, lease, right, marked, score, rewards, faults>>

InsertQuestions(r) ==
  LET e == request[r].exam IN
  /\ request[r].pc = "questions"
  /\ hasItems' = [hasItems EXCEPT ![e] = ExamExists(e)]
  /\ Return(r)
  /\ UNCHANGED <<status, version, lease, right, marked, score, rewards, faults>>

(* Deleting the file an exam was made from deletes exam and questions.     *)
DropExam(e) ==
  /\ ExamExists(e)
  /\ status' = [status EXCEPT ![e] = "deleted"]
  /\ hasItems' = [hasItems EXCEPT ![e] = FALSE]
  /\ version' = [version EXCEPT ![e] = 0]
  /\ lease' = [lease EXCEPT ![e] = "none"]
  /\ right' = [right EXCEPT ![e] = {}]
  /\ marked' = [marked EXCEPT ![e] = {}]
  /\ score' = [score EXCEPT ![e] = 0]
  /\ UNCHANGED <<rewards, request, faults>>

-----------------------------------------------------------------------------
(* submit, phase 1.                                                        *)

(* The read before the transaction; a completed exam is refused here.      *)
Preflight(r, e) ==
  /\ request[r].pc = "idle"
  /\ status[e] = "active"
  /\ request' = [request EXCEPT ![r] = [IdleRequest EXCEPT !.pc = "claim",
                                                           !.exam = e]]
  /\ UNCHANGED <<rows, faults>>

(* Mutants of Claimable: a claim does not look at the status; a stale      *)
(* lease is never taken over.                                              *)
ClaimableTwice(e) == ExamExists(e) /\ hasItems[e] /\ lease[e] # "fresh"
ClaimableUnlocked(e) == status[e] = "active" /\ hasItems[e] /\ lease[e] = "none"

(* The locked re-check of status and questions, and the WHERE clause of    *)
(* the claim.                                                              *)
Claimable(e) == status[e] = "active" /\ hasItems[e] /\ lease[e] # "fresh"

(* One transaction: the new version is the fencing token, and the answers  *)
(* are graded against the key and stored with it.  Bounded: an exam is     *)
(* claimed MaxVersion times.                                               *)
Claim(r) ==
  LET e == request[r].exam IN
  /\ request[r].pc = "claim"
  /\ Claimable(e)
  /\ version[e] < MaxVersion
  /\ version' = [version EXCEPT ![e] = @ + 1]
  /\ lease' = [lease EXCEPT ![e] = "fresh"]
  /\ \E answers \in SUBSET Questions :
       /\ right' = [right EXCEPT ![e] = answers]
       /\ marked' = [marked EXCEPT ![e] = answers]
  /\ request' = [request EXCEPT ![r].pc = "grade", ![r].version = version[e] + 1]
  /\ UNCHANGED <<status, hasItems, score, rewards, faults>>

ClaimRefused(r) ==
  /\ request[r].pc = "claim"
  /\ ~Claimable(request[r].exam)
  /\ Return(r)
  /\ UNCHANGED <<rows, faults>>

(* A request that evaluates an exam owns it while the version is its own.  *)
InFlight(r) == request[r].pc \in {"grade", "commit", "unlock"}
Owns(r, e) == InFlight(r) /\ request[r].exam = e /\ request[r].version = version[e]

(* A lease that nobody works under passes STALE_LEASE_MS.                  *)
LeaseExpires(e) ==
  /\ lease[e] = "fresh"
  /\ \A r \in Submitters : ~Owns(r, e)
  /\ lease' = [lease EXCEPT ![e] = "stale"]
  /\ UNCHANGED <<status, hasItems, version, right, marked, score, rewards,
                 request, faults>>

(* So does the lease of a working owner: AI calls may run for 15 minutes.  *)
LeaseOverrun(e) ==
  /\ lease[e] = "fresh"
  /\ \E r \in Submitters : Owns(r, e)
  /\ Fault("lease")
  /\ lease' = [lease EXCEPT ![e] = "stale"]
  /\ UNCHANGED <<status, hasItems, version, right, marked, score, rewards, request>>

-----------------------------------------------------------------------------
(* submit, phase 2: outside any transaction.                               *)

(* Mutant of Grade: the count starts at one.                               *)
GradeFromOne(r) ==
  /\ request[r].pc = "grade"
  /\ request' = [request EXCEPT
       ![r].pc = "commit",
       ![r].score = Cardinality(marked[request[r].exam]) + 1]
  /\ UNCHANGED <<rows, faults>>

(* The answers are read again, whoever stored them last.  The AI feedback  *)
(* that follows always yields a result: a failed call has a fallback.      *)
Grade(r) ==
  /\ request[r].pc = "grade"
  /\ request' = [request EXCEPT
       ![r].pc = "commit",
       ![r].score = Cardinality(marked[request[r].exam])]
  /\ UNCHANGED <<rows, faults>>

(* The read throws, or the AI's JSON is not of the shape the code walks:   *)
(* neither is inside a try block, so the lease is left to expire.          *)
GradeThrows(r) ==
  /\ request[r].pc \in {"grade", "commit"}
  /\ Fault("throw")
  /\ Return(r)
  /\ UNCHANGED rows

-----------------------------------------------------------------------------
(* submit, phase 3.                                                        *)

(* Mutant of HoldsVersion: the fencing token is not compared.              *)
HoldsActiveExam(r) == status[request[r].exam] = "active"

HoldsVersion(r) ==
  LET e == request[r].exam IN
  status[e] = "active" /\ version[e] = request[r].version

(* The fenced update, then the feedback of every question; an isCorrect    *)
(* in the feedback replaces the mark, whatever the type of the question.   *)
CommitTransaction(r) ==
  LET e == request[r].exam IN
  /\ HoldsVersion(r)
  /\ status' = [status EXCEPT ![e] = "completed"]
  /\ score' = [score EXCEPT ![e] = request[r].score]
  /\ lease' = [lease EXCEPT ![e] = "none"]
  /\ \E marks \in IF Overrides THEN SUBSET Questions ELSE {marked[e]} :
       marked' = [marked EXCEPT ![e] = marks]
  /\ UNCHANGED <<hasItems, version, right, rewards>>

Commit(r) ==
  /\ request[r].pc = "commit"
  /\ CommitTransaction(r)
  /\ GoTo(r, "reward")
  /\ UNCHANGED faults

(* Mutant of CommitRefused: the number of rows updated is not looked at.   *)
CommitRefusedUnnoticed(r) ==
  /\ request[r].pc = "commit"
  /\ ~HoldsVersion(r)
  /\ GoTo(r, "reward")
  /\ UNCHANGED <<rows, faults>>

(* Fenced out: a conflict, and nothing is written or released.             *)
CommitRefused(r) ==
  /\ request[r].pc = "commit"
  /\ ~HoldsVersion(r)
  /\ Return(r)
  /\ UNCHANGED <<rows, faults>>

(* The transaction fails, or commits and its acknowledgement is lost.      *)
CommitThrows(r) ==
  /\ request[r].pc = "commit"
  /\ Fault("commit")
  /\ CommitTransaction(r) \/ UNCHANGED rows
  /\ GoTo(r, "unlock")

(* Mutant of Unlock: the release is not fenced by the version.             *)
UnlockAny(r) ==
  /\ request[r].pc = "unlock"
  /\ lease' = [lease EXCEPT ![request[r].exam] = "none"]
  /\ Return(r)
  /\ UNCHANGED <<status, hasItems, version, right, marked, score, rewards, faults>>

(* The catch block: a version-fenced release.                              *)
Unlock(r) ==
  LET e == request[r].exam IN
  /\ request[r].pc = "unlock"
  /\ lease' = [lease EXCEPT ![e] = IF version[e] = request[r].version
                                   THEN "none" ELSE @]
  /\ Return(r)
  /\ UNCHANGED <<status, hasItems, version, right, marked, score, rewards, faults>>

(* After the commit, once and best effort: the challenge progress.         *)
Reward(r) ==
  /\ request[r].pc = "reward"
  /\ rewards' = [rewards EXCEPT ![request[r].exam] = @ + 1]
  /\ Return(r)
  /\ UNCHANGED <<status, hasItems, version, lease, right, marked, score, faults>>

(* The API process dies, or the statement under way fails.                 *)
RequestDies(r) ==
  /\ request[r].pc # "idle"
  /\ Fault("api")
  /\ Return(r)
  /\ UNCHANGED rows

-----------------------------------------------------------------------------
RequestStep(r) ==
  \/ InsertQuestions(r) \/ Claim(r) \/ ClaimRefused(r) \/ Grade(r)
  \/ Commit(r) \/ CommitRefused(r) \/ Unlock(r) \/ Reward(r)

Next ==
  \/ \E r \in Submitters, e \in Exams : InsertExam(r, e) \/ Preflight(r, e)
  \/ \E r \in Submitters : RequestStep(r)
  \/ \E e \in Exams : LeaseExpires(e) \/ LeaseOverrun(e) \/ DropExam(e)
  \/ \E r \in Submitters : GradeThrows(r) \/ CommitThrows(r) \/ RequestDies(r)

Spec == Init /\ [][Next]_vars

(***************************************************************************)
(* Fairness: requests that started run on, clocks advance, and the student *)
(* submits again as long as the exam is not completed.                     *)
(***************************************************************************)
FairSpec ==
  /\ Spec
  /\ \A r \in Submitters : WF_vars(RequestStep(r))
  /\ \A e \in Exams : /\ WF_vars(LeaseExpires(e))
                      /\ SF_vars(\E r \in Submitters : Preflight(r, e))

-----------------------------------------------------------------------------
(* exams.service.ts:298 and 595: no two requests obtain the same token,    *)
(* and the lock of the request that carries the current one is never       *)
(* cleared by another: as long as the owner evaluates, the exam is locked. *)
OwnerIsLocked ==
  \A e \in Exams :
    /\ \A r, s \in Submitters : Owns(r, e) /\ Owns(s, e) => r = s
    /\ status[e] = "active" /\ (\E r \in Submitters : Owns(r, e)) => lease[e] # "none"

(* The score of a completed exam was computed from the very answers that   *)
(* are stored with it, although they are read again outside the claim and  *)
(* a later submission may have replaced them.                              *)
ScoreOfStoredAnswers ==
  \A e \in Exams : status[e] = "completed" => score[e] = Cardinality(right[e])

(* An exam counts at most once for the student's challenges, and only when *)
(* it was completed.                                                       *)
RewardedOnce ==
  \A e \in Exams :
    /\ rewards[e] <= 1
    /\ rewards[e] = 1 => status[e] \in {"completed", "deleted"}

(* Evaluation is a preemptive fenced worker protocol: the token is         *)
(* evaluation_version, an active exam is held while it is locked, and its  *)
(* result is its completion.                                               *)
Fenced == INSTANCE FencedWork WITH
  Items <- Exams,
  Preemptive <- TRUE,
  token <- version,
  held <- [e \in Exams |-> status[e] = "active" /\ lease[e] # "none"],
  done <- [e \in Exams |-> status[e] = "completed"]

(* Every step is a claim, a release, a commit or a removal of FencedWork,  *)
(* or leaves the protocol alone: an exam is completed at most once, and    *)
(* only under a lock.                                                      *)
ImplementsFencedWork == Fenced!Spec

(* exams.service.ts:377-379 and 463: neither a crash nor a failed AI call  *)
(* strands an exam, and neither does an owner whose lease is taken over: if *)
(* the student submits again it is some day completed.                     *)
ExamCompletes ==
  \A e \in Exams : status[e] = "active" /\ hasItems[e] ~> status[e] # "active"

(* exams.service.ts:496 lets the AI replace the mark of essay and short    *)
(* answer questions; every question of a release exam is multiple choice,  *)
(* so a mark would always be the comparison with the key.                  *)
MarksFollowAnswers ==
  \A e \in Exams : status[e] = "completed" => marked[e] = right[e]

=============================================================================
