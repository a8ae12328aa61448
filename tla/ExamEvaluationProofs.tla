------------------------ MODULE ExamEvaluationProofs ------------------------
(***************************************************************************)
(* Proofs about ExamEvaluation, for every number of exams, questions and   *)
(* requests and every bound.                                               *)
(***************************************************************************)
EXTENDS ExamEvaluation, FiniteSetTheorems, TLAPS

N == Cardinality(Questions)

(* Typing.  TypeOK is not inductive: a request that is at work must name   *)
(* an exam, and the score it will write must be in range.                  *)
ExamsTyped ==
  /\ status \in [Exams -> {"absent", "active", "completed", "deleted"}]
  /\ hasItems \in [Exams -> BOOLEAN]
  /\ version \in [Exams -> Nat]
  /\ lease \in [Exams -> {"none", "fresh", "stale"}]
  /\ right \in [Exams -> SUBSET Questions]
  /\ marked \in [Exams -> SUBSET Questions]
  /\ score \in [Exams -> 0..N]
  /\ rewards \in [Exams -> Nat]
  /\ faults \in Nat

RequestsTyped ==
  /\ request \in [Submitters -> RequestRecord]
  /\ \A r \in Submitters :
       /\ request[r].pc # "idle" => request[r].exam \in Exams
       /\ request[r].score \in 0..N

TypeInv == ExamsTyped /\ RequestsTyped

-----------------------------------------------------------------------------
(* The number of marks is in the range of a score.                         *)
LEMMA ScoreInRange ==
  ASSUME NEW S \in SUBSET Questions
  PROVE  Cardinality(S) \in 0..N
  <1>1. /\ Cardinality(Questions) \in Nat
        /\ IsFiniteSet(S) /\ Cardinality(S) <= Cardinality(Questions)
    BY ExamAssumption, FS_Subset, FS_CardinalityType
  <1>2. Cardinality(S) \in Nat
    BY <1>1, FS_CardinalityType
  <1>3. QED
    BY <1>1, <1>2 DEF N

(* A request that goes on, or returns, stays well typed.                   *)
LEMMA RequestMoves ==
  ASSUME RequestsTyped, NEW r \in Submitters,
         \/ Return(r)
         \/ /\ request[r].pc # "idle"
            /\ \E pc \in {"commit", "unlock", "reward"} : GoTo(r, pc)
  PROVE  RequestsTyped'
  <1>1. CASE Return(r)
    <2>1. N \in Nat
      BY ExamAssumption, FS_CardinalityType DEF N
    <2>2. QED
      BY <1>1, <2>1 DEF Return, RequestsTyped, IdleRequest, RequestRecord
  <1>2. ASSUME request[r].pc # "idle",
               NEW pc \in {"commit", "unlock", "reward"}, GoTo(r, pc)
        PROVE  RequestsTyped'
    BY <1>2 DEF GoTo, RequestsTyped, RequestRecord
  <1>3. QED
    BY <1>1, <1>2

(* So does a request that begins.                                          *)
LEMMA RequestBegins ==
  ASSUME RequestsTyped, NEW r \in Submitters, NEW e \in Exams,
         NEW pc \in {"questions", "claim"},
         request' = [request EXCEPT ![r] = [IdleRequest EXCEPT !.pc = pc, !.exam = e]]
  PROVE  RequestsTyped'
  <1>1. N \in Nat
    BY ExamAssumption, FS_CardinalityType DEF N
  <1>2. /\ [IdleRequest EXCEPT !.pc = pc, !.exam = e] \in RequestRecord
        /\ [IdleRequest EXCEPT !.pc = pc, !.exam = e].score = 0
        /\ [IdleRequest EXCEPT !.pc = pc, !.exam = e].exam = e
    BY DEF IdleRequest, RequestRecord
  <1>3. QED
    BY <1>1, <1>2 DEF RequestsTyped

(* Every step keeps the state well typed.                                  *)
LEMMA TypeStep ==
  ASSUME TypeInv, [Next]_vars
  PROVE  TypeInv'
  <1> USE DEF TypeInv
  <1>0. N \in Nat
    BY ExamAssumption, FS_CardinalityType DEF N
  <1>1. ASSUME NEW r \in Submitters, NEW e \in Exams, InsertExam(r, e)
        PROVE  TypeInv'
    <2>1. ExamsTyped'
      BY <1>1 DEF InsertExam, ExamsTyped
    <2>2. QED
      BY <1>1, <2>1, RequestBegins DEF InsertExam
  <1>2. ASSUME NEW r \in Submitters, NEW e \in Exams, Preflight(r, e)
        PROVE  TypeInv'
    <2>1. ExamsTyped'
      BY <1>2 DEF Preflight, rows, ExamsTyped
    <2>2. QED
      BY <1>2, <2>1, RequestBegins DEF Preflight
  <1>3. ASSUME NEW r \in Submitters, InsertQuestions(r)  PROVE TypeInv'
    <2>1. ExamsTyped'
      <3>1. request[r].exam \in Exams /\ ExamExists(request[r].exam) \in BOOLEAN
        BY <1>3 DEF InsertQuestions, ExamExists, RequestsTyped
      <3>2. hasItems' \in [Exams -> BOOLEAN]
        BY <1>3, <3>1, Zenon DEF InsertQuestions, ExamsTyped
      <3>3. QED
        BY <1>3, <3>2 DEF InsertQuestions, ExamsTyped
    <2>2. QED
      BY <1>3, <2>1, RequestMoves DEF InsertQuestions
  <1>4. ASSUME NEW r \in Submitters, Claim(r)  PROVE TypeInv'
    <2>1. ExamsTyped'
      <3>1. /\ request[r].exam \in Exams
            /\ version' = [version EXCEPT ![request[r].exam] = @ + 1]
            /\ lease' = [lease EXCEPT ![request[r].exam] = "fresh"]
            /\ \E answers \in SUBSET Questions :
                 /\ right' = [right EXCEPT ![request[r].exam] = answers]
                 /\ marked' = [marked EXCEPT ![request[r].exam] = answers]
            /\ UNCHANGED <<status, hasItems, score, rewards, faults>>
        BY <1>4 DEF Claim, RequestsTyped
      <3>2. QED
        BY <3>1 DEF ExamsTyped
    <2>2. RequestsTyped'
      <3>1. PICK v \in Nat :
              request' = [request EXCEPT ![r].pc = "grade", ![r].version = v]
        BY <1>4, version[request[r].exam] + 1 \in Nat
        DEF Claim, ExamsTyped, RequestsTyped
      <3>2. request[r].exam \in Exams /\ request[r] \in RequestRecord
        BY <1>4 DEF Claim, RequestsTyped
      <3>3. QED
        BY <3>1, <3>2 DEF RequestsTyped, RequestRecord
    <2>3. QED
      BY <2>1, <2>2
  <1>5. ASSUME NEW r \in Submitters, Grade(r)  PROVE TypeInv'
    <2>1. ExamsTyped'
      BY <1>5 DEF Grade, rows, ExamsTyped
    <2>2. Cardinality(marked[request[r].exam]) \in 0..N
      BY <1>5, ScoreInRange DEF Grade, ExamsTyped, RequestsTyped
    <2>3. RequestsTyped'
      <3>1. PICK n \in 0..N :
              request' = [request EXCEPT ![r].pc = "commit", ![r].score = n]
        BY <1>5, <2>2 DEF Grade
      <3>2. /\ request[r].exam \in Exams /\ request[r] \in RequestRecord
            /\ n \in Nat
        BY <1>0, <1>5 DEF Grade, RequestsTyped
      <3>3. QED
        BY <3>1, <3>2 DEF RequestsTyped, RequestRecord
    <2>4. QED
      BY <2>1, <2>3
  <1>6. ASSUME NEW r \in Submitters,
               ClaimRefused(r) \/ CommitRefused(r) \/ GradeThrows(r) \/ RequestDies(r)
        PROVE  TypeInv'
    <2>1. ExamsTyped'
      BY <1>6 DEF ClaimRefused, CommitRefused, GradeThrows, RequestDies, Fault, rows,
                  ExamsTyped
    <2>2. QED
      BY <1>6, <2>1, RequestMoves DEF ClaimRefused, CommitRefused, GradeThrows, RequestDies
  <1>7. ASSUME NEW r \in Submitters, Commit(r) \/ CommitThrows(r)
        PROVE  TypeInv'
    <2>1. CommitTransaction(r) \/ UNCHANGED rows
      BY <1>7 DEF Commit, CommitThrows
    <2>2. request[r].pc = "commit" /\ faults' \in Nat
      BY <1>7 DEF Commit, CommitThrows, Fault, ExamsTyped
    <2>3. CASE CommitTransaction(r)
      <3>1. \E marks \in SUBSET Questions :
              marked' = [marked EXCEPT ![request[r].exam] = marks]
        BY <2>2, <2>3 DEF CommitTransaction, ExamsTyped, RequestsTyped
      <3>2. ExamsTyped'
        BY <2>2, <2>3, <3>1 DEF CommitTransaction, ExamsTyped, RequestsTyped
      <3>3. QED
        BY <1>7, <3>2, RequestMoves DEF Commit, CommitThrows
    <2>4. CASE UNCHANGED rows
      BY <1>7, <2>2, <2>4, RequestMoves DEF Commit, CommitThrows, rows, ExamsTyped
    <2>5. QED
      BY <2>1, <2>3, <2>4
  <1>8. ASSUME NEW r \in Submitters, Unlock(r) \/ Reward(r)  PROVE TypeInv'
    <2>1. ExamsTyped'
      <3>1. request[r].exam \in Exams
        BY <1>8 DEF Unlock, Reward, RequestsTyped
      <3>2. CASE Unlock(r)
        BY <3>1, <3>2 DEF Unlock, ExamsTyped
      <3>3. CASE Reward(r)
        BY <3>1, <3>3 DEF Reward, ExamsTyped
      <3>4. QED
        BY <1>8, <3>2, <3>3
    <2>2. QED
      BY <1>8, <2>1, RequestMoves DEF Unlock, Reward
  <1>9. ASSUME NEW e \in Exams, LeaseExpires(e) \/ LeaseOverrun(e) \/ DropExam(e)  PROVE TypeInv'
    <2>1. ExamsTyped'
      <3>1. CASE LeaseExpires(e) \/ LeaseOverrun(e)
        BY <3>1 DEF LeaseExpires, LeaseOverrun, Fault, ExamsTyped
      <3>2. CASE DropExam(e)
        BY <1>0, <3>2, 0 \in 0..N DEF DropExam, ExamsTyped
      <3>3. QED
        BY <1>9, <3>1, <3>2
    <2>2. QED
      BY <1>9, <2>1 DEF LeaseExpires, LeaseOverrun, Fault, DropExam, RequestsTyped
  <1>10. CASE UNCHANGED vars
    BY <1>10 DEF vars, ExamsTyped, RequestsTyped
  <1>11. QED
    BY <1>1, <1>2, <1>3, <1>4, <1>5, <1>6, <1>7, <1>8, <1>9, <1>10
    DEF Next, RequestStep

(* The typing invariant holds of every reachable state.                    *)
LEMMA InitTyped == Init => TypeInv
  <1>1. N \in Nat
    BY ExamAssumption, FS_CardinalityType DEF N
  <1>2. QED
    BY <1>1 DEF Init, TypeInv, ExamsTyped, RequestsTyped, IdleRequest, RequestRecord

LEMMA TypeHolds == Spec => []TypeInv
  <1>1. Init => TypeInv
    BY InitTyped
  <1>2. TypeInv /\ [Next]_vars => TypeInv'
    BY TypeStep
  <1>3. QED
    BY <1>1, <1>2, PTL DEF Spec

(* Every reachable state is well typed: in particular every score that is  *)
(* written is at most the number of questions.                             *)
THEOREM TypeCorrect == Spec => []TypeOK
  <1>1. TypeInv => TypeOK
    BY DEF TypeInv, ExamsTyped, RequestsTyped, TypeOK, N
  <1>2. QED
    BY <1>1, TypeHolds, PTL

-----------------------------------------------------------------------------
(* Ownership.  OwnerIsLocked is inductive only together with the numbering *)
(* of the versions: a version in flight is positive, at most the row's, and *)
(* carried by one request; an exam that is deleted is never claimed again. *)
Begun ==
  /\ \A r \in Submitters :
       request[r].pc # "idle" => status[request[r].exam] # "absent"
  /\ \A e \in Exams : ~ExamExists(e) => version[e] = 0 /\ lease[e] = "none"

Numbered(r) ==
  /\ request[r].version # 0
  /\ ExamExists(request[r].exam) => request[r].version <= version[request[r].exam]

Apart(r, s) ==
  request[r].exam = request[s].exam => request[r].version # request[s].version

VersionsFence ==
  /\ \A r \in Submitters : InFlight(r) => Numbered(r)
  /\ \A r, s \in Submitters : r # s /\ InFlight(r) /\ InFlight(s) => Apart(r, s)

OwnersLock ==
  \A e \in Exams, r \in Submitters :
    status[e] = "active" /\ Owns(r, e) => lease[e] # "none"

OwnInv == TypeInv /\ Begun /\ VersionsFence /\ OwnersLock

(* What a step of r does to the requests: the others keep their place, and *)
(* r keeps its exam and version unless it begins, claims or is over.       *)
StepOf(r, pcs) ==
  /\ \A s \in Submitters : s # r => request'[s] = request[s]
  /\ request'[r].pc \in pcs
  /\ request'[r].pc # "idle" =>
       request'[r].exam = request[r].exam /\ request'[r].version = request[r].version

(* A step that leaves the rows of version, status and lease alone, and     *)
(* puts nothing in flight, keeps the invariant.                            *)
LEMMA StepKeepsOwners ==
  ASSUME OwnInv, TypeInv', NEW r \in Submitters, request[r].pc # "idle",
         StepOf(r, {"idle", "commit", "unlock", "reward"}),
         request'[r].pc \in {"commit", "unlock"} => InFlight(r),
         UNCHANGED <<version, lease, status>>
  PROVE  OwnInv'
  <1>1. Begun'
    BY DEF OwnInv, Begun, StepOf, ExamExists
  <1>2. VersionsFence'
    BY DEF OwnInv, VersionsFence, Numbered, Apart, InFlight, StepOf, ExamExists
  <1>3. OwnersLock'
    BY DEF OwnInv, OwnersLock, Owns, InFlight, StepOf
  <1>4. QED
    BY <1>1, <1>2, <1>3 DEF OwnInv

(* A claim hands out a version above all those in flight on the exam.      *)
LEMMA ClaimKeepsOwners ==
  ASSUME OwnInv, TypeInv', NEW r \in Submitters, Claim(r)
  PROVE  OwnInv'
  <1> DEFINE e == request[r].exam
  <1>1. /\ e \in Exams /\ status[e] = "active" /\ version[e] \in Nat
        /\ version' = [version EXCEPT ![e] = version[e] + 1]
        /\ lease' = [lease EXCEPT ![e] = "fresh"]
        /\ status' = status
        /\ request' = [request EXCEPT ![r].pc = "grade", ![r].version = version[e] + 1]
    BY DEF OwnInv, TypeInv, ExamsTyped, RequestsTyped, Claim, Claimable
  <1>2. /\ request'[r].pc = "grade" /\ request'[r].exam = e
        /\ request'[r].version = version[e] + 1
        /\ \A s \in Submitters : s # r => request'[s] = request[s]
    BY <1>1 DEF OwnInv, TypeInv, RequestsTyped, RequestRecord
  <1>3. /\ version'[e] = version[e] + 1 /\ lease'[e] = "fresh"
        /\ \A f \in Exams : f # e => version'[f] = version[f] /\ lease'[f] = lease[f]
    BY <1>1 DEF OwnInv, TypeInv, ExamsTyped
  <1>4. \A s \in Submitters : /\ request[s] \in RequestRecord
                              /\ InFlight(s) => request[s].exam \in Exams
    BY DEF OwnInv, TypeInv, RequestsTyped, InFlight
  <1>5. \A s \in Submitters :
          InFlight(s) /\ request[s].exam = e => request[s].version <= version[e]
    BY <1>1 DEF OwnInv, VersionsFence, Numbered, ExamExists
  <1>6. Begun'
    BY <1>1, <1>2, <1>3 DEF OwnInv, Begun, ExamExists
  <1>7. VersionsFence'
    <2>1. ASSUME NEW s \in Submitters, InFlight(s)'  PROVE Numbered(s)'
      <3>1. CASE s = r
        BY <1>1, <1>2, <1>3, <3>1 DEF Numbered
      <3>2. CASE s # r
        <4>1. InFlight(s) /\ Numbered(s) /\ request'[s] = request[s]
          BY <1>2, <2>1, <3>2 DEF OwnInv, VersionsFence, InFlight
        <4>2. CASE request[s].exam = e
          BY <1>1, <1>2, <1>3, <1>4, <1>5, <4>1, <4>2 DEF Numbered, RequestRecord
        <4>3. CASE request[s].exam # e
          BY <1>1, <1>3, <1>4, <4>1, <4>3 DEF Numbered, ExamExists
        <4>4. QED
          BY <4>2, <4>3
      <3>3. QED
        BY <3>1, <3>2
    <2>2. ASSUME NEW s \in Submitters, InFlight(s)', s # r  PROVE Apart(r, s)' /\ Apart(s, r)'
      <3>1. InFlight(s) /\ request'[s] = request[s]
        BY <1>2, <2>2 DEF InFlight
      <3>2. QED
        BY <1>1, <1>2, <1>4, <1>5, <3>1 DEF Apart, RequestRecord
    <2>3. ASSUME NEW s \in Submitters, NEW t \in Submitters, InFlight(s)', InFlight(t)',
                 s # t, s # r, t # r
          PROVE  Apart(s, t)'
      BY <1>2, <2>3 DEF OwnInv, VersionsFence, InFlight, Apart
    <2>4. QED
      BY <2>1, <2>2, <2>3 DEF VersionsFence
  <1>8. ASSUME NEW f \in Exams, NEW s \in Submitters, status'[f] = "active", Owns(s, f)'
        PROVE  lease'[f] # "none"
    <2>1. CASE f = e
      BY <1>3, <2>1
    <2>2. CASE f # e
      BY <1>1, <1>2, <1>3, <1>8, <2>2 DEF OwnInv, OwnersLock, Owns, InFlight
    <2>3. QED
      BY <2>1, <2>2
  <1>9. QED
    BY <1>6, <1>7, <1>8 DEF OwnInv, OwnersLock

(* A commit completes the exam: nobody owns an active exam by it.          *)
LEMMA CommitKeepsOwners ==
  ASSUME OwnInv, TypeInv', NEW r \in Submitters, request[r].pc = "commit",
         StepOf(r, {"reward", "unlock"}), CommitTransaction(r)
  PROVE  OwnInv'
  <1> DEFINE e == request[r].exam
  <1>1. /\ e \in Exams /\ status[e] = "active" /\ version' = version
        /\ status'[e] = "completed" /\ lease'[e] = "none"
        /\ \A f \in Exams : f # e => status'[f] = status[f] /\ lease'[f] = lease[f]
    BY DEF OwnInv, TypeInv, ExamsTyped, RequestsTyped, CommitTransaction, HoldsVersion
  <1>2. \A s \in Submitters : request[s].pc # "idle" => request[s].exam \in Exams
    BY DEF OwnInv, TypeInv, RequestsTyped
  <1>3. Begun'
    BY <1>1, <1>2 DEF OwnInv, Begun, StepOf, ExamExists
  <1>4. VersionsFence'
    BY <1>1, <1>2 DEF OwnInv, VersionsFence, Numbered, Apart, InFlight, StepOf, ExamExists
  <1>5. OwnersLock'
    BY <1>1 DEF OwnInv, OwnersLock, Owns, InFlight, StepOf
  <1>6. QED
    BY <1>3, <1>4, <1>5 DEF OwnInv

(* A release by the owner leaves nobody who owns the exam.                 *)
LEMMA UnlockKeepsOwners ==
  ASSUME OwnInv, TypeInv', NEW r \in Submitters, Unlock(r)
  PROVE  OwnInv'
  <1> DEFINE e == request[r].exam
  <1>1. /\ e \in Exams /\ InFlight(r)
        /\ lease'[e] = IF version[e] = request[r].version THEN "none" ELSE lease[e]
        /\ \A f \in Exams : f # e => lease'[f] = lease[f]
        /\ version' = version /\ status' = status
        /\ request'[r] = IdleRequest
        /\ \A s \in Submitters : s # r => request'[s] = request[s]
    BY DEF OwnInv, TypeInv, ExamsTyped, RequestsTyped, Unlock, Return, InFlight
  <1>2. Begun'
    BY <1>1 DEF OwnInv, Begun, ExamExists, IdleRequest
  <1>3. VersionsFence'
    BY <1>1 DEF OwnInv, VersionsFence, Numbered, Apart, InFlight, ExamExists, IdleRequest
  <1>4. OwnersLock'
    BY <1>1 DEF OwnInv, OwnersLock, VersionsFence, Apart, Owns, InFlight, IdleRequest
  <1>5. QED
    BY <1>2, <1>3, <1>4 DEF OwnInv

(* A request that begins is not in flight.                                 *)
LEMMA BeginKeepsOwners ==
  ASSUME OwnInv, TypeInv', NEW r \in Submitters, NEW e \in Exams,
         request'[r].pc \in {"questions", "claim"}, request'[r].exam = e,
         \A s \in Submitters : s # r => request'[s] = request[s],
         status'[e] = "active", \A f \in Exams : f # e => status'[f] = status[f],
         status[e] \in {"absent", "active"},
         UNCHANGED <<version, lease>>
  PROVE  OwnInv'
  <1>1. \A s \in Submitters : InFlight(s)' => s # r /\ InFlight(s)
    BY DEF InFlight
  <1>2. \A s \in Submitters : request[s].pc # "idle" => request[s].exam \in Exams
    BY DEF OwnInv, TypeInv, RequestsTyped
  <1>3. Begun'
    BY <1>2 DEF OwnInv, Begun, ExamExists
  <1>4. VersionsFence'
    BY <1>1, <1>2 DEF OwnInv, VersionsFence, Begun, Numbered, Apart, InFlight, ExamExists
  <1>5. OwnersLock'
    BY <1>1, <1>2 DEF OwnInv, OwnersLock, Begun, Owns, InFlight
  <1>6. QED
    BY <1>3, <1>4, <1>5 DEF OwnInv

(* Every step keeps the invariant.                                         *)
LEMMA OwnStep ==
  ASSUME OwnInv, [Next]_vars
  PROVE  OwnInv'
  <1> USE DEF StepOf, InFlight
  <1>0. /\ TypeInv' /\ request \in [Submitters -> RequestRecord]
        /\ status \in [Exams -> {"absent", "active", "completed", "deleted"}]
    BY TypeStep DEF OwnInv, TypeInv, RequestsTyped, ExamsTyped
  <1>1. ASSUME NEW r \in Submitters, NEW e \in Exams, InsertExam(r, e)
        PROVE  OwnInv'
    BY <1>0, <1>1, BeginKeepsOwners DEF InsertExam, IdleRequest
  <1>2. ASSUME NEW r \in Submitters, NEW e \in Exams, Preflight(r, e)
        PROVE  OwnInv'
    BY <1>0, <1>2, BeginKeepsOwners DEF Preflight, IdleRequest, rows
  <1>3. ASSUME NEW r \in Submitters, Claim(r)  PROVE OwnInv'
    BY <1>0, <1>3, ClaimKeepsOwners
  <1>4. ASSUME NEW r \in Submitters,
               \/ InsertQuestions(r) \/ ClaimRefused(r) \/ Grade(r)
               \/ CommitRefused(r) \/ Reward(r) \/ GradeThrows(r) \/ RequestDies(r)
        PROVE  OwnInv'
    <2>1. /\ request[r].pc # "idle" /\ StepOf(r, {"idle", "commit", "unlock", "reward"})
          /\ UNCHANGED <<version, lease, status>>
          /\ request'[r].pc \in {"commit", "unlock"} => InFlight(r)
      BY <1>0, <1>4 DEF InsertQuestions, ClaimRefused, Grade, CommitRefused, Reward,
           GradeThrows, RequestDies, Return, IdleRequest, rows, RequestRecord
    <2>2. QED
      BY <1>0, <2>1, StepKeepsOwners
  <1>5. ASSUME NEW r \in Submitters, Commit(r) \/ CommitThrows(r)
        PROVE  OwnInv'
    <2>1. /\ request[r].pc = "commit" /\ StepOf(r, {"reward", "unlock"})
          /\ CommitTransaction(r) \/ UNCHANGED <<version, lease, status>>
      BY <1>0, <1>5 DEF Commit, CommitThrows, GoTo, rows, RequestRecord
    <2>2. CASE CommitTransaction(r)
      BY <1>0, <2>1, <2>2, CommitKeepsOwners
    <2>3. CASE UNCHANGED <<version, lease, status>>
      BY <1>0, <2>1, <2>3, StepKeepsOwners
    <2>4. QED
      BY <2>1, <2>2, <2>3
  <1>6. ASSUME NEW r \in Submitters, Unlock(r)  PROVE OwnInv'
    BY <1>0, <1>6, UnlockKeepsOwners
  <1>7. ASSUME NEW e \in Exams, LeaseExpires(e) \/ LeaseOverrun(e)  PROVE OwnInv'
    <2>1. /\ UNCHANGED <<request, version, status>> /\ lease[e] = "fresh"
          /\ \A f \in Exams : lease'[f] = IF f = e THEN "stale" ELSE lease[f]
      BY <1>7 DEF LeaseExpires, LeaseOverrun, Fault, OwnInv, TypeInv, ExamsTyped
    <2>2. Begun' /\ VersionsFence' /\ OwnersLock'
      BY <2>1 DEF OwnInv, Begun, VersionsFence, Numbered, Apart, OwnersLock, Owns, ExamExists
    <2>3. QED
      BY <1>0, <2>2 DEF OwnInv
  <1>8. ASSUME NEW e \in Exams, DropExam(e)  PROVE OwnInv'
    <2>1. /\ request' = request
          /\ status'[e] = "deleted" /\ version'[e] = 0 /\ lease'[e] = "none"
          /\ \A f \in Exams : f # e => /\ status'[f] = status[f]
                                       /\ version'[f] = version[f] /\ lease'[f] = lease[f]
      BY <1>8 DEF DropExam, OwnInv, TypeInv, ExamsTyped
    <2>2. \A s \in Submitters : request[s].pc # "idle" => request[s].exam \in Exams
      BY DEF OwnInv, TypeInv, RequestsTyped
    <2>3. Begun'
      BY <2>1, <2>2 DEF OwnInv, Begun, ExamExists
    <2>4. VersionsFence'
      BY <2>1, <2>2 DEF OwnInv, VersionsFence, Numbered, Apart, ExamExists
    <2>5. OwnersLock'
      BY <2>1 DEF OwnInv, OwnersLock, Owns
    <2>6. QED
      BY <1>0, <2>3, <2>4, <2>5 DEF OwnInv
  <1>9. CASE UNCHANGED vars
    BY <1>0, <1>9 DEF vars, OwnInv, Begun, VersionsFence, Numbered, Apart, OwnersLock, Owns,
                      ExamExists
  <1>10. QED
    BY <1>1, <1>2, <1>3, <1>4, <1>5, <1>6, <1>7, <1>8, <1>9 DEF Next, RequestStep

LEMMA InitOwned == Init => OwnInv
  BY InitTyped DEF Init, OwnInv, Begun, VersionsFence, Numbered, Apart, OwnersLock, Owns,
                   InFlight, ExamExists, IdleRequest

LEMMA OwnHolds == Spec => []OwnInv
  <1>1. Init => OwnInv
    BY InitOwned
  <1>2. OwnInv /\ [Next]_vars => OwnInv'
    BY OwnStep
  <1>3. QED
    BY <1>1, <1>2, PTL DEF Spec

(* Tokens are never shared and the owner's lock is never cleared by        *)
(* another request, for any number of exams, requests and faults.          *)
THEOREM OwnersAreLocked == Spec => []OwnerIsLocked
  <1>1. OwnInv => OwnerIsLocked
    <2>1. ASSUME OwnInv, NEW e \in Exams, NEW r \in Submitters, NEW s \in Submitters,
                 Owns(r, e), Owns(s, e)
          PROVE  r = s
      BY <2>1 DEF OwnInv, VersionsFence, Apart, Owns
    <2>2. QED
      BY <2>1 DEF OwnInv, OwnersLock, OwnerIsLocked
  <1>2. QED
    BY <1>1, OwnHolds, PTL

-----------------------------------------------------------------------------
(* Scores.  Until it is completed, the marks of an exam are those of the   *)
(* answers stored with them; and the request that may still complete it    *)
(* counted these very marks, since whoever stores others takes the version *)
(* away from it.                                                           *)
MarksStored == \A e \in Exams : status[e] # "completed" => marked[e] = right[e]

OwnersCount ==
  \A e \in Exams, r \in Submitters :
    status[e] = "active" /\ Owns(r, e) /\ request[r].pc = "commit"
      => request[r].score = Cardinality(marked[e])

ScoreInv == OwnInv /\ MarksStored /\ OwnersCount /\ ScoreOfStoredAnswers

LEMMA ClaimKeepsScores ==
  ASSUME ScoreInv, OwnInv', NEW r \in Submitters, Claim(r)
  PROVE  ScoreInv'
  <1> DEFINE e == request[r].exam
  <1>1. /\ e \in Exams /\ status[e] = "active" /\ status' = status /\ score' = score
        /\ right'[e] = marked'[e]
        /\ \A f \in Exams : f # e => right'[f] = right[f] /\ marked'[f] = marked[f]
    BY DEF ScoreInv, OwnInv, TypeInv, ExamsTyped, RequestsTyped, Claim, Claimable
  <1>2. /\ request'[r].pc = "grade" /\ request'[r].exam = e
        /\ request'[r].version = version'[e]
        /\ \A s \in Submitters : s # r => request'[s] = request[s]
        /\ \A f \in Exams : f # e => version'[f] = version[f]
    BY DEF ScoreInv, OwnInv, TypeInv, ExamsTyped, RequestsTyped, RequestRecord, Claim
  <1>3. MarksStored' /\ ScoreOfStoredAnswers'
    BY <1>1 DEF ScoreInv, MarksStored, ScoreOfStoredAnswers
  <1>4. ASSUME NEW f \in Exams, NEW s \in Submitters, Owns(s, f)',
               status'[f] = "active", request'[s].pc = "commit"
        PROVE  request'[s].score = Cardinality(marked'[f])
    <2>1. s # r
      BY <1>2, <1>4
    <2>2. f # e
      <3>1. InFlight(s)' /\ InFlight(r)'
        BY <1>2, <1>4 DEF Owns, InFlight
      <3>2. Apart(r, s)'
        BY <2>1, <3>1 DEF OwnInv, VersionsFence
      <3>3. QED
        BY <1>2, <1>4, <3>2 DEF Apart, Owns
    <2>3. QED
      BY <1>1, <1>2, <1>4, <2>1, <2>2 DEF ScoreInv, OwnersCount, Owns, InFlight
  <1>5. QED
    BY <1>3, <1>4 DEF ScoreInv, OwnersCount

LEMMA CommitKeepsScores ==
  ASSUME ScoreInv, OwnInv', NEW r \in Submitters, request[r].pc = "commit",
         StepOf(r, {"reward", "unlock"}), CommitTransaction(r)
  PROVE  ScoreInv'
  <1> DEFINE e == request[r].exam
  <1>1. /\ e \in Exams /\ status[e] = "active" /\ Owns(r, e) /\ version' = version
        /\ status'[e] = "completed" /\ score'[e] = request[r].score /\ right' = right
        /\ \A f \in Exams : f # e => /\ status'[f] = status[f] /\ score'[f] = score[f]
                                     /\ marked'[f] = marked[f]
    BY DEF ScoreInv, OwnInv, TypeInv, ExamsTyped, RequestsTyped, CommitTransaction,
           HoldsVersion, Owns, InFlight
  <1>2. request[r].score = Cardinality(right[e])
    BY <1>1 DEF ScoreInv, MarksStored, OwnersCount
  <1>3. MarksStored' /\ ScoreOfStoredAnswers'
    BY <1>1, <1>2 DEF ScoreInv, MarksStored, ScoreOfStoredAnswers
  <1>4. OwnersCount'
    BY <1>1 DEF ScoreInv, OwnersCount, Owns, InFlight, StepOf
  <1>5. QED
    BY <1>3, <1>4 DEF ScoreInv

(* Steps that change no answers, and hand no request over to its commit    *)
(* except the grading, keep the scores.                                    *)
LEMMA OthersKeepScores ==
  ASSUME ScoreInv, OwnInv', UNCHANGED <<right, marked, score, version>>,
         \A e \in Exams : /\ status'[e] = "completed" <=> status[e] = "completed"
                          /\ status'[e] = "active" => status[e] \in {"absent", "active"},
         \A s \in Submitters :
           request'[s].pc = "commit" =>
             \/ request'[s] = request[s]
             \/ /\ request'[s].score = Cardinality(marked[request[s].exam])
                /\ request'[s].exam = request[s].exam
  PROVE  ScoreInv'
  <1>1. MarksStored' /\ ScoreOfStoredAnswers'
    BY DEF ScoreInv, MarksStored, ScoreOfStoredAnswers
  <1>2. ASSUME NEW f \in Exams, NEW s \in Submitters, Owns(s, f)',
               status'[f] = "active", request'[s].pc = "commit"
        PROVE  request'[s].score = Cardinality(marked'[f])
    <2>1. CASE request'[s] = request[s]
      <3>1. InFlight(s) /\ Owns(s, f)
        BY <1>2, <2>1 DEF Owns, InFlight
      <3>2. status[f] = "active"
        BY <1>2, <3>1 DEF ScoreInv, OwnInv, Begun, Owns, InFlight
      <3>3. QED
        BY <1>2, <2>1, <3>1, <3>2 DEF ScoreInv, OwnersCount
    <2>2. CASE /\ request'[s].score = Cardinality(marked[request[s].exam])
               /\ request'[s].exam = request[s].exam
      BY <1>2, <2>2 DEF Owns
    <2>3. QED
      BY <1>2, <2>1, <2>2
  <1>3. QED
    BY <1>1, <1>2 DEF ScoreInv, OwnersCount

LEMMA ScoreStep ==
  ASSUME ScoreInv, [Next]_vars
  PROVE  ScoreInv'
  <1>0. /\ OwnInv' /\ request \in [Submitters -> RequestRecord]
        /\ status \in [Exams -> {"absent", "active", "completed", "deleted"}]
    BY OwnStep DEF ScoreInv, OwnInv, TypeInv, RequestsTyped, ExamsTyped
  <1>1. ASSUME NEW r \in Submitters, NEW e \in Exams, InsertExam(r, e) \/ Preflight(r, e)
        PROVE  ScoreInv'
    <2>1. /\ UNCHANGED <<right, marked, score, version>> /\ request'[r].pc # "commit"
          /\ \A s \in Submitters : s # r => request'[s] = request[s]
          /\ status[e] \in {"absent", "active"} /\ status'[e] = "active"
          /\ \A f \in Exams : f # e => status'[f] = status[f]
      BY <1>0, <1>1 DEF InsertExam, Preflight, IdleRequest, rows
    <2>2. QED
      BY <1>0, <2>1, OthersKeepScores
  <1>2. ASSUME NEW r \in Submitters, Claim(r)  PROVE ScoreInv'
    BY <1>0, <1>2, ClaimKeepsScores
  <1>3. ASSUME NEW r \in Submitters,
               \/ InsertQuestions(r) \/ ClaimRefused(r) \/ Grade(r) \/ CommitRefused(r)
               \/ Unlock(r) \/ Reward(r) \/ GradeThrows(r) \/ RequestDies(r)
        PROVE  ScoreInv'
    <2>1. /\ UNCHANGED <<right, marked, score, version, status>>
          /\ \A s \in Submitters : s # r => request'[s] = request[s]
          /\ request'[r].pc = "commit" =>
               /\ request'[r].score = Cardinality(marked[request[r].exam])
               /\ request'[r].exam = request[r].exam
      <3>1. CASE Grade(r)
        BY <1>0, <3>1 DEF Grade, rows, RequestRecord
      <3>2. CASE Return(r)
        BY <1>0, <1>3, <3>2 DEF InsertQuestions, ClaimRefused, Grade, CommitRefused, Unlock,
             Reward, GradeThrows, RequestDies, Return, IdleRequest, rows
      <3>3. QED
        BY <1>3, <3>1, <3>2 DEF InsertQuestions, ClaimRefused, CommitRefused, Unlock, Reward,
             GradeThrows, RequestDies
    <2>2. QED
      BY <1>0, <2>1, OthersKeepScores
  <1>4. ASSUME NEW r \in Submitters, Commit(r) \/ CommitThrows(r)
        PROVE  ScoreInv'
    <2>1. /\ request[r].pc = "commit" /\ StepOf(r, {"reward", "unlock"})
          /\ CommitTransaction(r) \/ UNCHANGED rows
      BY <1>0, <1>4 DEF Commit, CommitThrows, GoTo, RequestRecord, StepOf
    <2>2. CASE CommitTransaction(r)
      BY <1>0, <2>1, <2>2, CommitKeepsScores
    <2>3. CASE UNCHANGED rows
      BY <1>0, <2>1, <2>3, OthersKeepScores DEF rows, StepOf
    <2>4. QED
      BY <2>1, <2>2, <2>3
  <1>5. ASSUME NEW e \in Exams, LeaseExpires(e) \/ LeaseOverrun(e)  PROVE ScoreInv'
    BY <1>0, <1>5, OthersKeepScores DEF LeaseExpires, LeaseOverrun, Fault
  <1>6. ASSUME NEW e \in Exams, DropExam(e)  PROVE ScoreInv'
    <2>1. /\ request' = request /\ status'[e] = "deleted"
          /\ right'[e] = {} /\ marked'[e] = {}
          /\ \A f \in Exams : f # e =>
               /\ status'[f] = status[f] /\ version'[f] = version[f]
               /\ right'[f] = right[f] /\ marked'[f] = marked[f] /\ score'[f] = score[f]
      BY <1>6 DEF DropExam, ScoreInv, OwnInv, TypeInv, ExamsTyped
    <2>2. MarksStored' /\ ScoreOfStoredAnswers'
      BY <2>1 DEF ScoreInv, MarksStored, ScoreOfStoredAnswers
    <2>3. OwnersCount'
      BY <2>1 DEF ScoreInv, OwnersCount, Owns, InFlight
    <2>4. QED
      BY <1>0, <2>2, <2>3 DEF ScoreInv
  <1>7. CASE UNCHANGED vars
    BY <1>0, <1>7, OthersKeepScores DEF vars
  <1>8. QED
    BY <1>1, <1>2, <1>3, <1>4, <1>5, <1>6, <1>7 DEF Next, RequestStep

(* A completed exam shows the score of the answers stored with it, for any *)
(* number of concurrent submissions, leases that expire, and faults.       *)
THEOREM ScoresMatchAnswers == Spec => []ScoreOfStoredAnswers
  <1>1. Init => ScoreInv
    <2>1. Init => OwnInv
      BY InitOwned
    <2>2. QED
      BY <2>1 DEF Init, ScoreInv, MarksStored, OwnersCount, ScoreOfStoredAnswers, IdleRequest
  <1>2. ScoreInv /\ [Next]_vars => ScoreInv'
    BY ScoreStep
  <1>3. ScoreInv => ScoreOfStoredAnswers
    BY DEF ScoreInv
  <1>4. QED
    BY <1>1, <1>2, <1>3, PTL DEF Spec

-----------------------------------------------------------------------------
(* Rewards.  The one request that completes the exam goes on to count it.  *)
Rewarding(r, e) == request[r].pc = "reward" /\ request[r].exam = e

RewardInv ==
  /\ TypeInv
  /\ \A e \in Exams :
       /\ status[e] \in {"absent", "active"} =>
            rewards[e] = 0 /\ \A r \in Submitters : ~Rewarding(r, e)
       /\ rewards[e] <= 1
       /\ rewards[e] = 1 => \A r \in Submitters : ~Rewarding(r, e)
       /\ \A r, s \in Submitters : Rewarding(r, e) /\ Rewarding(s, e) => r = s

(* Steps that complete and reward nothing, nor revive an exam.             *)
LEMMA OthersKeepRewards ==
  ASSUME RewardInv, TypeInv', rewards' = rewards,
         \A e \in Exams : status'[e] \in {"absent", "active"} =>
                            status[e] \in {"absent", "active"},
         \A s \in Submitters : request'[s] = request[s] \/ request'[s].pc # "reward"
  PROVE  RewardInv'
  BY DEF RewardInv, Rewarding

LEMMA RewardStep ==
  ASSUME RewardInv, [Next]_vars
  PROVE  RewardInv'
  <1>0. /\ TypeInv' /\ request \in [Submitters -> RequestRecord]
        /\ status \in [Exams -> {"absent", "active", "completed", "deleted"}]
        /\ rewards \in [Exams -> Nat]
    BY TypeStep DEF RewardInv, TypeInv, RequestsTyped, ExamsTyped
  <1>1. ASSUME NEW r \in Submitters, NEW e \in Exams, InsertExam(r, e) \/ Preflight(r, e)
        PROVE  RewardInv'
    <2>1. /\ rewards' = rewards /\ request'[r].pc # "reward"
          /\ \A s \in Submitters : s # r => request'[s] = request[s]
          /\ status[e] \in {"absent", "active"}
          /\ \A f \in Exams : f # e => status'[f] = status[f]
      BY <1>0, <1>1 DEF InsertExam, Preflight, IdleRequest, rows
    <2>2. QED
      BY <1>0, <2>1, OthersKeepRewards
  <1>2. ASSUME NEW r \in Submitters,
               \/ InsertQuestions(r) \/ Claim(r) \/ ClaimRefused(r) \/ Grade(r)
               \/ CommitRefused(r) \/ Unlock(r) \/ GradeThrows(r) \/ RequestDies(r)
        PROVE  RewardInv'
    <2>1. /\ UNCHANGED <<rewards, status>> /\ request'[r].pc # "reward"
          /\ \A s \in Submitters : s # r => request'[s] = request[s]
      <3>1. CASE Claim(r)
        BY <1>0, <3>1 DEF Claim, RequestRecord
      <3>2. CASE Grade(r)
        BY <1>0, <3>2 DEF Grade, rows, RequestRecord
      <3>3. CASE Return(r)
        BY <1>0, <1>2, <3>3 DEF InsertQuestions, Claim, ClaimRefused, Grade, CommitRefused,
             Unlock, GradeThrows, RequestDies, Return, IdleRequest, rows
      <3>4. QED
        BY <1>2, <3>1, <3>2, <3>3 DEF InsertQuestions, ClaimRefused, CommitRefused, Unlock,
             GradeThrows, RequestDies
    <2>2. QED
      BY <1>0, <2>1, OthersKeepRewards
  <1>3. ASSUME NEW r \in Submitters, Commit(r)  PROVE RewardInv'
    <2>1. PICK e \in Exams : e = request[r].exam
      BY <1>3 DEF Commit, RewardInv, TypeInv, RequestsTyped
    <2>2. /\ status[e] = "active" /\ status'[e] = "completed" /\ rewards' = rewards
          /\ request'[r].pc = "reward" /\ request'[r].exam = e
          /\ \A s \in Submitters : s # r => request'[s] = request[s]
          /\ \A f \in Exams : f # e => status'[f] = status[f]
      BY <1>0, <1>3, <2>1 DEF Commit, CommitTransaction, HoldsVersion, GoTo, RequestRecord
    <2>3. rewards'[e] = 0 /\ \A s \in Submitters : s # r => ~Rewarding(s, e)'
      BY <2>2 DEF RewardInv, Rewarding
    <2>4. QED
      BY <1>0, <2>2, <2>3 DEF RewardInv, Rewarding
  <1>4. ASSUME NEW r \in Submitters, CommitThrows(r)  PROVE RewardInv'
    <2>1. /\ rewards' = rewards /\ request'[r].pc = "unlock"
          /\ \A s \in Submitters : s # r => request'[s] = request[s]
          /\ CommitTransaction(r) \/ status' = status
      BY <1>0, <1>4 DEF CommitThrows, CommitTransaction, GoTo, rows, RequestRecord
    <2>2. CASE CommitTransaction(r)
      <3>1. \A f \in Exams : status'[f] = "completed" \/ status'[f] = status[f]
        BY <1>0, <2>2 DEF CommitTransaction
      <3>2. QED
        BY <1>0, <2>1, <3>1, OthersKeepRewards
    <2>3. CASE status' = status
      BY <1>0, <2>1, <2>3, OthersKeepRewards
    <2>4. QED
      BY <2>1, <2>2, <2>3
  <1>5. ASSUME NEW r \in Submitters, Reward(r)  PROVE RewardInv'
    <2>1. PICK e \in Exams : e = request[r].exam
      BY <1>5 DEF Reward, RewardInv, TypeInv, RequestsTyped
    <2>2. Rewarding(r, e)
      BY <1>5, <2>1 DEF Reward, Rewarding
    <2>3. status[e] \notin {"absent", "active"} /\ rewards[e] = 0
      BY <1>0, <2>2 DEF RewardInv
    <2>4. /\ status' = status /\ rewards'[e] = 1 /\ request'[r].pc = "idle"
          /\ \A s \in Submitters : s # r => request'[s] = request[s]
          /\ \A f \in Exams : f # e => rewards'[f] = rewards[f]
      BY <1>0, <1>5, <2>1, <2>3 DEF Reward, Return, IdleRequest
    <2>5. \A s \in Submitters : ~Rewarding(s, e)'
      BY <2>2, <2>4 DEF RewardInv, Rewarding
    <2>6. QED
      BY <1>0, <2>3, <2>4, <2>5 DEF RewardInv, Rewarding
  <1>6. ASSUME NEW e \in Exams, LeaseExpires(e) \/ LeaseOverrun(e) \/ DropExam(e)  PROVE RewardInv'
    BY <1>0, <1>6, OthersKeepRewards DEF LeaseExpires, LeaseOverrun, Fault, DropExam
  <1>7. CASE UNCHANGED vars
    BY <1>0, <1>7, OthersKeepRewards DEF vars
  <1>8. QED
    BY <1>1, <1>2, <1>3, <1>4, <1>5, <1>6, <1>7 DEF Next, RequestStep

(* An exam counts at most once for the challenges, and only if it was      *)
(* completed, whoever submits it and whatever fails.                       *)
THEOREM CountedOnce == Spec => []RewardedOnce
  <1>1. Init => RewardInv
    BY InitTyped DEF Init, RewardInv, Rewarding, IdleRequest
  <1>2. RewardInv /\ [Next]_vars => RewardInv'
    BY RewardStep
  <1>3. RewardInv => RewardedOnce
    BY DEF RewardInv, RewardedOnce, TypeInv, ExamsTyped
  <1>4. QED
    BY <1>1, <1>2, <1>3, PTL DEF Spec

-----------------------------------------------------------------------------
(* Refinement of FencedWork.                                               *)
Held(e) == status[e] = "active" /\ lease[e] # "none"
Done(e) == status[e] = "completed"

(* A step that changes neither versions nor the hold and completion of any *)
(* exam is a stutter of the abstract protocol.                             *)
LEMMA Stutters ==
  ASSUME version' = version,
         \A e \in Exams : Held(e)' = Held(e) /\ Done(e)' = Done(e)
  PROVE  UNCHANGED Fenced!fencedVars
  <1>1. [e \in Exams |-> Held(e)]' = [e \in Exams |-> Held(e)]
    OBVIOUS
  <1>2. [e \in Exams |-> Done(e)]' = [e \in Exams |-> Done(e)]
    OBVIOUS
  <1>3. QED
    BY <1>1, <1>2 DEF Fenced!fencedVars, Held, Done

LEMMA RefinementStep ==
  ASSUME OwnInv, [Next]_vars
  PROVE  [Fenced!Next]_(Fenced!fencedVars)
  <1> DEFINE abstract == [Fenced!Next]_(Fenced!fencedVars)
  <1>0. TypeInv
    BY DEF OwnInv
  <1>1. ASSUME NEW r \in Submitters, Claim(r)  PROVE abstract
    <2>1. PICK e \in Exams : e = request[r].exam
      BY <1>0, <1>1 DEF Claim, TypeInv, RequestsTyped
    <2>2. Fenced!Claim(e)
      BY <1>0, <1>1, <2>1 DEF Claim, Claimable, Fenced!Claim, TypeInv, ExamsTyped
    <2>3. QED
      BY <2>2 DEF Fenced!Next
  <1>2. ASSUME NEW r \in Submitters, request[r].pc = "commit", CommitTransaction(r)
        PROVE  abstract
    <2>1. PICK e \in Exams : e = request[r].exam
      BY <1>0, <1>2 DEF TypeInv, RequestsTyped
    <2>2. Held(e) /\ ~Done(e)
      BY <1>2, <2>1 DEF CommitTransaction, HoldsVersion, OwnInv, OwnersLock, Owns, InFlight,
                        Held, Done
    <2>3. Fenced!Commit(e)
      BY <1>0, <1>2, <2>1, <2>2 DEF CommitTransaction, Fenced!Commit, Held, Done,
                                    TypeInv, ExamsTyped
    <2>4. QED
      BY <2>3 DEF Fenced!Next
  <1>3. ASSUME NEW r \in Submitters, Unlock(r)  PROVE abstract
    <2>1. PICK e \in Exams : e = request[r].exam
      BY <1>0, <1>3 DEF Unlock, TypeInv, RequestsTyped
    <2>2. CASE version[e] = request[r].version /\ Held(e)
      <3>1. Fenced!Release(e)
        BY <1>0, <1>3, <2>1, <2>2 DEF Unlock, Fenced!Release, Held, TypeInv, ExamsTyped
      <3>2. QED
        BY <3>1 DEF Fenced!Next
    <2>3. CASE ~(version[e] = request[r].version /\ Held(e))
      BY <1>0, <1>3, <2>1, <2>3, Stutters DEF Unlock, Held, Done, TypeInv, ExamsTyped
    <2>4. QED
      BY <2>2, <2>3
  <1>4. ASSUME NEW e \in Exams, DropExam(e)  PROVE abstract
    <2>1. Fenced!Remove({e})
      BY <1>0, <1>4 DEF DropExam, ExamExists, Fenced!Remove, TypeInv, ExamsTyped
    <2>2. QED
      BY <2>1 DEF Fenced!Next
  <1>5. ASSUME NEW e \in Exams, LeaseExpires(e) \/ LeaseOverrun(e)  PROVE abstract
    BY <1>0, <1>5, Stutters DEF LeaseExpires, LeaseOverrun, Fault, Held, Done, TypeInv, ExamsTyped
  <1>6. ASSUME NEW r \in Submitters, NEW e \in Exams, InsertExam(r, e)  PROVE abstract
    <2>1. lease[e] = "none"
      BY <1>6 DEF InsertExam, OwnInv, Begun, ExamExists
    <2>2. QED
      BY <1>0, <1>6, <2>1, Stutters DEF InsertExam, Held, Done, TypeInv, ExamsTyped
  <1>7. ASSUME UNCHANGED <<status, version, lease>>  PROVE abstract
    BY <1>7, Stutters DEF Held, Done
  <1>8. QED
    BY <1>1, <1>2, <1>3, <1>4, <1>5, <1>6, <1>7
    DEF Next, RequestStep, Preflight, InsertQuestions, ClaimRefused, Grade, Commit,
        CommitRefused, Reward, GradeThrows, CommitThrows, RequestDies, rows, vars

(* Evaluation implements the preemptive fenced worker protocol: every step *)
(* maps to a claim, a release, a commit, a removal or a stutter.           *)
THEOREM ImplementsProtocol == Spec => ImplementsFencedWork
  <1>1. Init => Fenced!Init
    BY DEF Init, Fenced!Init
  <1>2. OwnInv /\ [Next]_vars => [Fenced!Next]_(Fenced!fencedVars)
    BY RefinementStep
  <1>3. QED
    BY <1>1, <1>2, OwnHolds, PTL DEF Spec, ImplementsFencedWork, Fenced!Spec

=============================================================================
