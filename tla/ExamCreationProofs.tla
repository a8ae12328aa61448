-------------------------- MODULE ExamCreationProofs --------------------------
(***************************************************************************)
(* Proofs about ExamCreation: what is proved of ExamEvaluation survives    *)
(* beside the creations, and the capacity of a month covers its exams.     *)
(***************************************************************************)
EXTENDS ExamCreation, ExamEvaluationProofs

-----------------------------------------------------------------------------
(* Composition.                                                            *)

(* The failure of a creation is seen by ExamEvaluation as a fault alone.   *)
FaultOnly == faults' = faults + 1 /\ UNCHANGED <<rows, request>>

(* Every step is a step of ExamEvaluation, a stutter of it, or a fault.    *)
LEMMA CreationSteps ==
  ASSUME [CreationNext]_allVars
  PROVE  [Next]_vars \/ FaultOnly
  <1>1. CASE UNCHANGED allVars
    BY <1>1 DEF allVars
  <1>2. ASSUME NEW r \in Submitters, Generated(r) \/ CreationFails(r)
        PROVE  [Next]_vars \/ FaultOnly
    BY <1>2 DEF Generated, CreationFails, Fault, FaultOnly
  <1>3. ASSUME NEW r \in Submitters, NEW n \in Asked, Consume(r, n)
        PROVE  [Next]_vars \/ FaultOnly
    BY <1>3 DEF Consume
  <1>4. ASSUME NEW r \in Submitters, NEW e \in Exams, InsertMade(r, e) \/ StartSubmit(r, e)
        PROVE  [Next]_vars \/ FaultOnly
    BY <1>4 DEF InsertMade, StartSubmit, Next
  <1>5. CASE Evaluation
    BY <1>5 DEF Evaluation, Next
  <1>6. CASE NextMonth
    BY <1>6 DEF NextMonth
  <1>7. QED
    BY <1>1, <1>2, <1>3, <1>4, <1>5, <1>6 DEF CreationNext

(* What is inductive for ExamEvaluation does not depend on the faults.     *)
ExamInv == ScoreInv /\ RewardInv

LEMMA FaultKeepsExams ==
  ASSUME ExamInv, FaultOnly
  PROVE  ExamInv'
  <1>1. UNCHANGED <<rows, request>> /\ faults' \in Nat
    BY DEF ExamInv, RewardInv, TypeInv, ExamsTyped, FaultOnly
  <1>2. /\ status' = status /\ hasItems' = hasItems /\ version' = version
        /\ lease' = lease /\ right' = right /\ marked' = marked /\ score' = score
        /\ rewards' = rewards /\ request' = request
    BY <1>1 DEF rows
  <1>3. TypeInv'
    BY <1>1, <1>2 DEF ExamInv, RewardInv, TypeInv, ExamsTyped, RequestsTyped
  <1>4. OwnInv'
    BY <1>2, <1>3 DEF ExamInv, ScoreInv, OwnInv, Begun, VersionsFence, Numbered, Apart,
                      OwnersLock, Owns, InFlight, ExamExists
  <1>5. ScoreInv'
    BY <1>2, <1>4 DEF ExamInv, ScoreInv, MarksStored, OwnersCount, ScoreOfStoredAnswers,
                      Owns, InFlight
  <1>6. RewardInv'
    BY <1>2, <1>3, OthersKeepRewards DEF ExamInv
  <1>7. QED
    BY <1>5, <1>6 DEF ExamInv

LEMMA ExamStep ==
  ASSUME ExamInv, [CreationNext]_allVars
  PROVE  ExamInv'
  <1>1. CASE [Next]_vars
    BY <1>1, ScoreStep, RewardStep DEF ExamInv
  <1>2. QED
    BY <1>1, CreationSteps, FaultKeepsExams

LEMMA ExamInit == Init => ExamInv
  <1> SUFFICES ASSUME Init PROVE ExamInv
    OBVIOUS
  <1>1. TypeInv /\ OwnInv
    BY InitTyped, InitOwned
  <1>2. ScoreInv
    BY <1>1 DEF Init, ScoreInv, MarksStored, OwnersCount, ScoreOfStoredAnswers, IdleRequest
  <1>3. RewardInv
    BY <1>1 DEF Init, RewardInv, Rewarding, IdleRequest
  <1>4. QED
    BY <1>2, <1>3 DEF ExamInv

(* ExamEvaluation's invariants hold beside any number of creations.        *)
LEMMA ExamHolds == CreationSpec => []ExamInv
  <1>1. CreationInit => ExamInv
    BY ExamInit DEF CreationInit
  <1>2. ExamInv /\ [CreationNext]_allVars => ExamInv'
    BY ExamStep
  <1>3. QED
    BY <1>1, <1>2, PTL DEF CreationSpec

(* With creations beside them, submissions keep every promise that         *)
(* ExamEvaluation makes: the owner of an exam is locked, the score is that *)
(* of the stored answers, and an exam is counted once.                     *)
THEOREM CreationKeepsEvaluation ==
  CreationSpec => [](TypeOK /\ OwnerIsLocked /\ ScoreOfStoredAnswers /\ RewardedOnce)
  <1>1. ExamInv => TypeOK
    BY DEF ExamInv, RewardInv, TypeInv, ExamsTyped, RequestsTyped, TypeOK, N
  <1>2. ExamInv => OwnerIsLocked
    <2>1. ASSUME ExamInv, NEW e \in Exams, NEW r \in Submitters, NEW s \in Submitters,
                 Owns(r, e), Owns(s, e)
          PROVE  r = s
      BY <2>1 DEF ExamInv, ScoreInv, OwnInv, VersionsFence, Apart, Owns
    <2>2. QED
      BY <2>1 DEF ExamInv, ScoreInv, OwnInv, OwnersLock, OwnerIsLocked
  <1>3. ExamInv => ScoreOfStoredAnswers
    BY DEF ExamInv, ScoreInv
  <1>4. ExamInv => RewardedOnce
    BY DEF ExamInv, RewardInv, RewardedOnce, TypeInv, ExamsTyped
  <1>5. QED
    BY <1>1, <1>2, <1>3, <1>4, ExamHolds, PTL

(* A creation never takes part in the fenced protocol of the evaluation.   *)
THEOREM CreationImplementsProtocol == CreationSpec => ImplementsFencedWork
  <1>1. CreationInit => Fenced!Init
    BY DEF CreationInit, Init, Fenced!Init
  <1>2. ExamInv /\ [CreationNext]_allVars => [Fenced!Next]_(Fenced!fencedVars)
    <2> SUFFICES ASSUME ExamInv, [CreationNext]_allVars
                 PROVE  [Fenced!Next]_(Fenced!fencedVars)
      OBVIOUS
    <2>1. CASE [Next]_vars
      BY <2>1, RefinementStep DEF ExamInv, ScoreInv
    <2>2. CASE FaultOnly
      BY <2>2, Stutters DEF FaultOnly, rows, Held, Done
    <2>3. QED
      BY <2>1, <2>2, CreationSteps
  <1>3. QED
    BY <1>1, <1>2, ExamHolds, PTL DEF CreationSpec, ImplementsFencedWork, Fenced!Spec

-----------------------------------------------------------------------------
(* Counting.  A set of things, x of which comes in size[x] numbered units. *)
Units(S, n, size) == {u \in S \X (1..n) : u[2] <= size[u[1]]}

LEMMA UnitsCounted ==
  ASSUME NEW S, IsFiniteSet(S), NEW n \in Nat, NEW size
  PROVE  IsFiniteSet(Units(S, n, size)) /\ Cardinality(Units(S, n, size)) \in Nat
  <1>0. IsFiniteSet(1..n)
    BY FS_Interval
  <1>1. IsFiniteSet(S \X (1..n))
    BY <1>0, FS_Product
  <1>2. IsFiniteSet(Units(S, n, size))
    BY <1>1, FS_Subset DEF Units
  <1>3. QED
    BY <1>2, FS_CardinalityType

(* The units of one thing.                                                 *)
LEMMA UnitsOfOne ==
  ASSUME NEW x, NEW k \in Nat
  PROVE  IsFiniteSet({x} \X (1..k)) /\ Cardinality({x} \X (1..k)) = k
  <1>1. IsFiniteSet(1..k) /\ Cardinality(1..k) = k
    BY FS_Interval
  <1>2. IsFiniteSet({x}) /\ Cardinality({x}) = 1
    BY FS_Singleton
  <1>3. QED
    BY <1>1, <1>2, FS_Product

(* When one thing changes its size, the count changes by as much.          *)
LEMMA UnitsChanged ==
  ASSUME NEW S, IsFiniteSet(S), NEW n \in Nat, NEW old, NEW new, NEW x \in S,
         old[x] \in 0..n, new[x] \in 0..n,
         \A y \in S : y # x => new[y] = old[y]
  PROVE  Cardinality(Units(S, n, new)) + old[x] = Cardinality(Units(S, n, old)) + new[x]
  <1> DEFINE rest == {u \in S \X (1..n) : u[1] # x /\ u[2] <= old[u[1]]}
  <1>1. IsFiniteSet(rest) /\ Cardinality(rest) \in Nat
    <2>0. IsFiniteSet(1..n)
      BY FS_Interval
    <2>1. IsFiniteSet(S \X (1..n))
      BY <2>0, FS_Product
    <2>2. IsFiniteSet(rest)
      BY <2>1, FS_Subset
    <2>3. QED
      BY <2>2, FS_CardinalityType
  <1>2. ASSUME NEW size, size[x] \in 0..n, \A y \in S : y # x => size[y] = old[y]
        PROVE  Cardinality(Units(S, n, size)) = Cardinality(rest) + size[x]
    <2> DEFINE own == {x} \X (1..size[x])
    <2>1. Units(S, n, size) = rest \cup own
      BY <1>2 DEF Units
    <2>2. rest \cap own = {}
      OBVIOUS
    <2>3. IsFiniteSet(own) /\ Cardinality(own) = size[x]
      <3>1. size[x] \in Nat
        BY <1>2
      <3>2. QED
        BY <3>1, UnitsOfOne
    <2>4. Cardinality(rest \cup own) =
            Cardinality(rest) + Cardinality(own) - Cardinality(rest \cap own)
      BY <1>1, <2>3, FS_Union
    <2>5. Cardinality({}) = 0 /\ size[x] \in Nat
      BY <1>2, FS_EmptySet
    <2> HIDE DEF rest, own
    <2>6. QED
      BY <1>1, <2>1, <2>2, <2>3, <2>4, <2>5
  <1>3. Cardinality(Units(S, n, old)) = Cardinality(rest) + old[x]
    BY <1>2
  <1>4. Cardinality(Units(S, n, new)) = Cardinality(rest) + new[x]
    BY <1>2
  <1> HIDE DEF rest
  <1>5. QED
    BY <1>1, <1>3, <1>4

-----------------------------------------------------------------------------
(* Capacity.  CapacityCoversExams is inductive only together with what is  *)
(* under way: a creation between its admission and the insert of its exam  *)
(* still has a claim on the month it was admitted in, which the clock may  *)
(* have left.  The questions of the exams and those claimed never exceed   *)
(* what was taken; and an exam id that is not in use carries no question.  *)

CreationTyped ==
  /\ month \in Months
  /\ used \in [Months -> Nat \cup {None}]
  /\ maker \in [Submitters -> [pc : {"none", "generate", "insert"},
                               asked : 0..Limit, month : Months]]
  /\ \A r \in Submitters :
       /\ maker[r].pc = "none" => maker[r] = NoMaker
       /\ maker[r].pc = "generate" => maker[r].asked \in AskedFor
       /\ maker[r].pc = "insert" => maker[r].asked <= MaxGenerated
  /\ made \in [Exams -> [size : 0..MaxGenerated, month : Months]]

Unmade == \A e \in Exams : status[e] = "absent" => made[e] = NotMade

(* What a creation claims, and an exam has, of the capacity of a month.    *)
Claims(m) == [r \in Submitters |-> IF maker[r].month = m THEN maker[r].asked ELSE 0]
Sizes(m) == [e \in Exams |-> IF made[e].month = m THEN made[e].size ELSE 0]

Claimed(m) == Cardinality(Units(Submitters, Limit, Claims(m)))
Sized(m) == Cardinality(Units(Exams, MaxGenerated, Sizes(m)))

Covered == \A m \in Months : Taken(m) <= Limit /\ Sized(m) + Claimed(m) <= Taken(m)

CapacityInv == ExamInv /\ CreationTyped /\ Unmade /\ Covered

LEMMA TypedCreation == CreationTyped => CreationTypeOK
  <1> SUFFICES ASSUME CreationTyped PROVE CreationTypeOK
    OBVIOUS
  <1>1. ASSUME NEW r \in Submitters
        PROVE  maker[r] \in [pc : {"none", "generate", "insert"},
                             asked : AskedFor \cup 0..MaxGenerated, month : Months]
    <2>1. maker[r].asked \in AskedFor \cup 0..MaxGenerated
      BY CreationAssumption DEF CreationTyped, NoMaker
    <2>2. QED
      BY <2>1 DEF CreationTyped
  <1>2. QED
    BY <1>1 DEF CreationTyped, CreationTypeOK

LEMMA CountsTyped ==
  ASSUME NEW m
  PROVE  /\ Claimed(m) \in Nat /\ Sized(m) \in Nat
         /\ Claimed(m)' \in Nat /\ Sized(m)' \in Nat
  <1>1. /\ IsFiniteSet(Submitters) /\ IsFiniteSet(Exams)
        /\ Limit \in Nat /\ MaxGenerated \in Nat
    BY CreationAssumption
  <1>2. \A size : /\ Cardinality(Units(Submitters, Limit, size)) \in Nat
                 /\ Cardinality(Units(Exams, MaxGenerated, size)) \in Nat
    BY <1>1, UnitsCounted
  <1>3. QED
    BY <1>2 DEF Claimed, Sized, Units

(* One creation's claim changes, or one exam's size.                       *)
LEMMA ClaimChanged ==
  ASSUME CreationTyped, CreationTyped', NEW r \in Submitters, NEW m \in Months,
         \A s \in Submitters : s # r => maker'[s] = maker[s]
  PROVE  Claimed(m)' + Claims(m)[r] = Claimed(m) + Claims(m)'[r]
  <1>1. Claims(m)[r] \in 0..Limit /\ Claims(m)'[r] \in 0..Limit
    BY CreationAssumption DEF Claims, CreationTyped
  <1>2. \A s \in Submitters : s # r => Claims(m)'[s] = Claims(m)[s]
    BY DEF Claims
  <1>3. IsFiniteSet(Submitters) /\ Limit \in Nat
    BY CreationAssumption
  <1> HIDE DEF Claims
  <1>4. Cardinality(Units(Submitters, Limit, Claims(m)')) + Claims(m)[r]
          = Cardinality(Units(Submitters, Limit, Claims(m))) + Claims(m)'[r]
    BY <1>1, <1>2, <1>3, UnitsChanged
  <1>5. QED
    BY <1>4 DEF Claimed, Units

LEMMA SizeChanged ==
  ASSUME CreationTyped, CreationTyped', NEW e \in Exams, NEW m \in Months,
         \A f \in Exams : f # e => made'[f] = made[f]
  PROVE  Sized(m)' + Sizes(m)[e] = Sized(m) + Sizes(m)'[e]
  <1>1. Sizes(m)[e] \in 0..MaxGenerated /\ Sizes(m)'[e] \in 0..MaxGenerated
    BY CreationAssumption DEF Sizes, CreationTyped
  <1>2. \A f \in Exams : f # e => Sizes(m)'[f] = Sizes(m)[f]
    BY DEF Sizes
  <1>3. IsFiniteSet(Exams) /\ MaxGenerated \in Nat
    BY CreationAssumption
  <1>4. Cardinality(Units(Exams, MaxGenerated, Sizes(m)')) + Sizes(m)[e]
          = Cardinality(Units(Exams, MaxGenerated, Sizes(m))) + Sizes(m)'[e]
    BY <1>1, <1>2, <1>3, UnitsChanged
  <1>5. QED
    BY <1>4 DEF Sized, Units

LEMMA SameClaims ==
  ASSUME maker' = maker, NEW m  PROVE Claimed(m)' = Claimed(m)
  BY DEF Claimed, Claims, Units

LEMMA SameSizes ==
  ASSUME made' = made, NEW m  PROVE Sized(m)' = Sized(m)
  BY DEF Sized, Sizes, Units

(* The steps of ExamEvaluation never take an exam id back.                 *)
LEMMA EvaluationKeepsIds ==
  ASSUME TypeInv, Evaluation, NEW e \in Exams, status'[e] = "absent"
  PROVE  status[e] = "absent"
  <1>1. ASSUME NEW r \in Submitters, RequestStep(r) \/ GradeThrows(r)
                                     \/ CommitThrows(r) \/ RequestDies(r)
        PROVE  status[e] = "absent"
    <2>1. CASE UNCHANGED status
      BY <2>1
    <2>2. CASE CommitTransaction(r)
      BY <2>2 DEF CommitTransaction, TypeInv, ExamsTyped
    <2>3. QED
      BY <1>1, <2>1, <2>2
      DEF RequestStep, InsertQuestions, Claim, ClaimRefused, Grade, Commit, CommitRefused,
          Unlock, Reward, GradeThrows, CommitThrows, RequestDies, rows
  <1>2. ASSUME NEW f \in Exams, LeaseExpires(f) \/ LeaseOverrun(f) \/ DropExam(f)
        PROVE  status[e] = "absent"
    BY <1>2 DEF LeaseExpires, LeaseOverrun, DropExam, TypeInv, ExamsTyped
  <1>3. QED
    BY <1>1, <1>2 DEF Evaluation

(* A step that leaves the creations and the counters alone.                *)
LEMMA IdleCreations ==
  ASSUME CapacityInv, ExamInv', UNCHANGED <<used, maker, made>>, month' \in Months,
         \A e \in Exams : status'[e] = "absent" => status[e] = "absent"
  PROVE  CapacityInv'
  <1>1. CreationTyped' /\ Unmade'
    BY DEF CapacityInv, CreationTyped, Unmade
  <1>2. \A m \in Months : Taken(m)' = Taken(m)
    BY DEF Taken
  <1>3. Covered'
    BY <1>2, SameClaims, SameSizes DEF CapacityInv, Covered
  <1>4. QED
    BY <1>1, <1>3 DEF CapacityInv

(* Admission: the month's counter grows by what the creation now claims.   *)
LEMMA ConsumeKeepsCapacity ==
  ASSUME CapacityInv, ExamInv', NEW r \in Submitters, NEW n \in Asked, Consume(r, n)
  PROVE  CapacityInv'
  <1>1. /\ n \in Nat /\ n \in AskedFor /\ n \in 0..Limit /\ Limit \in Nat
        /\ month \in Months /\ None \notin Nat
    BY CreationAssumption DEF Consume, Admits, AskedFor, CapacityInv, CreationTyped
  <1>2. /\ used' = [used EXCEPT ![month] = Taken(month) + n]
        /\ Taken(month) \in Nat /\ Taken(month) + n <= Limit
    <2>1. used[month] = None \/ used[month] \in Nat
      BY <1>1 DEF CapacityInv, CreationTyped
    <2>2. used' = [used EXCEPT ![month] =
                     IF used[month] = None THEN n ELSE used[month] + n]
      BY DEF Consume
    <2>3. n <= Limit /\ (used[month] # None => used[month] + n <= Limit)
      BY DEF Consume, Admits
    <2>4. QED
      BY <1>1, <2>1, <2>2, <2>3 DEF Taken
  <1>3. /\ maker' = [maker EXCEPT ![r] = [pc |-> "generate", asked |-> n, month |-> month]]
        /\ maker[r] = NoMaker /\ UNCHANGED <<vars, month, made>>
    BY DEF Consume
  <1>4. CreationTyped'
    BY <1>1, <1>2, <1>3 DEF CapacityInv, CreationTyped
  <1>5. Unmade'
    BY <1>3 DEF CapacityInv, Unmade, vars
  <1>6. ASSUME NEW m \in Months
        PROVE  Taken(m)' <= Limit /\ Sized(m)' + Claimed(m)' <= Taken(m)'
    <2>1. Claimed(m)' + Claims(m)[r] = Claimed(m) + Claims(m)'[r]
      BY <1>3, <1>4, ClaimChanged DEF CapacityInv, CreationTyped
    <2>2. Claims(m)[r] = 0 /\ Claims(m)'[r] = IF m = month THEN n ELSE 0
      BY <1>3 DEF Claims, NoMaker, CapacityInv, CreationTyped
    <2>3. Taken(m)' = IF m = month THEN Taken(m) + n ELSE Taken(m)
      BY <1>1, <1>2 DEF Taken, CapacityInv, CreationTyped
    <2>4. Sized(m)' = Sized(m)
      BY <1>3, SameSizes
    <2>5. Taken(m) \in Nat /\ Taken(m) <= Limit /\ Sized(m) + Claimed(m) <= Taken(m)
      BY DEF CapacityInv, Covered, CreationTyped, Taken
    <2>6. Claimed(m) \in Nat /\ Sized(m) \in Nat
      BY CountsTyped
    <2>7. Claimed(m)' \in Nat
      BY CountsTyped
    <2> HIDE DEF Claimed, Sized, Taken, Claims
    <2>8. Claimed(m)' = Claimed(m) + (IF m = month THEN n ELSE 0)
      BY <1>1, <2>1, <2>2, <2>6, <2>7
    <2>9. QED
      BY <1>1, <1>2, <2>3, <2>4, <2>5, <2>6, <2>8
  <1>7. QED
    BY <1>4, <1>5, <1>6 DEF CapacityInv, Covered

(* A creation's claim shrinks to what the AI returned, or is given up.     *)
LEMMA ShrinkKeepsCapacity ==
  ASSUME CapacityInv, ExamInv', CreationTyped', UNCHANGED <<used, made, status>>,
         NEW r \in Submitters,
         \A s \in Submitters : s # r => maker'[s] = maker[s],
         \/ maker'[r].asked = 0
         \/ maker'[r].month = maker[r].month /\ maker'[r].asked <= maker[r].asked
  PROVE  CapacityInv'
  <1>1. ASSUME NEW m \in Months
        PROVE  Taken(m)' <= Limit /\ Sized(m)' + Claimed(m)' <= Taken(m)'
    <2>1. Claimed(m)' + Claims(m)[r] = Claimed(m) + Claims(m)'[r]
      BY ClaimChanged DEF CapacityInv
    <2>2. Claims(m)'[r] <= Claims(m)[r] /\ Claims(m)[r] \in Nat /\ Claims(m)'[r] \in Nat
      BY CreationAssumption DEF Claims, CapacityInv, CreationTyped
    <2>3. Taken(m)' = Taken(m) /\ Sized(m)' = Sized(m)
      BY SameSizes DEF Taken
    <2>4. Taken(m) \in Nat /\ Taken(m) <= Limit /\ Sized(m) + Claimed(m) <= Taken(m)
      BY DEF CapacityInv, Covered, CreationTyped, Taken
    <2>5. Claimed(m) \in Nat /\ Sized(m) \in Nat
      BY CountsTyped
    <2>6. Claimed(m)' \in Nat
      BY CountsTyped
    <2>7. Claimed(m)' <= Claimed(m)
      BY <2>1, <2>2, <2>5, <2>6
    <2>8. QED
      BY <2>3, <2>4, <2>5, <2>6, <2>7
  <1>2. Unmade'
    BY DEF CapacityInv, Unmade
  <1>3. QED
    BY <1>1, <1>2 DEF CapacityInv, Covered

(* The insert turns a claim into the questions of an exam.                 *)
LEMMA InsertKeepsCapacity ==
  ASSUME CapacityInv, ExamInv', NEW r \in Submitters, NEW e \in Exams, InsertMade(r, e)
  PROVE  CapacityInv'
  <1>1. /\ maker[r].pc = "insert" /\ status[e] = "absent"
        /\ status' = [status EXCEPT ![e] = "active"]
        /\ made' = [made EXCEPT ![e] = [size |-> maker[r].asked, month |-> maker[r].month]]
        /\ maker' = [maker EXCEPT ![r] = NoMaker]
        /\ UNCHANGED <<month, used>>
    BY DEF InsertMade, InsertExam
  <1>2. /\ maker[r].asked \in 0..MaxGenerated /\ maker[r].asked \in Nat
        /\ maker[r].month \in Months /\ 0 \in Months /\ 0 \in 0..Limit
    BY <1>1, CreationAssumption DEF CapacityInv, CreationTyped, Months
  <1>3. made[e] = NotMade
    BY <1>1 DEF CapacityInv, Unmade
  <1>4. CreationTyped'
    BY <1>1, <1>2 DEF CapacityInv, CreationTyped, NoMaker
  <1>5. Unmade'
    BY <1>1 DEF CapacityInv, Unmade, ExamInv, RewardInv, TypeInv, ExamsTyped, CreationTyped
  <1>6. ASSUME NEW m \in Months
        PROVE  Taken(m)' <= Limit /\ Sized(m)' + Claimed(m)' <= Taken(m)'
    <2>1. Claimed(m)' + Claims(m)[r] = Claimed(m) + Claims(m)'[r]
      BY <1>1, <1>4, ClaimChanged DEF CapacityInv, CreationTyped
    <2>2. Sized(m)' + Sizes(m)[e] = Sized(m) + Sizes(m)'[e]
      BY <1>1, <1>4, SizeChanged DEF CapacityInv, CreationTyped
    <2>3. /\ Sizes(m)[e] = 0 /\ Claims(m)'[r] = 0
          /\ Sizes(m)'[e] = Claims(m)[r] /\ Claims(m)[r] \in Nat
      BY <1>1, <1>2, <1>3 DEF Sizes, Claims, NotMade, NoMaker, CapacityInv, CreationTyped
    <2>4. Taken(m)' = Taken(m)
      BY <1>1 DEF Taken
    <2>5. Taken(m) \in Nat /\ Taken(m) <= Limit /\ Sized(m) + Claimed(m) <= Taken(m)
      BY DEF CapacityInv, Covered, CreationTyped, Taken
    <2>6. Claimed(m) \in Nat /\ Sized(m) \in Nat
      BY CountsTyped
    <2>7. Claimed(m)' \in Nat /\ Sized(m)' \in Nat
      BY CountsTyped
    <2>8. Sized(m)' + Claimed(m)' = Sized(m) + Claimed(m)
      BY <2>1, <2>2, <2>3, <2>6, <2>7
    <2>9. QED
      BY <2>4, <2>5, <2>8
  <1>7. QED
    BY <1>4, <1>5, <1>6 DEF CapacityInv, Covered

LEMMA CapacityStep ==
  ASSUME CapacityInv, [CreationNext]_allVars
  PROVE  CapacityInv'
  <1>0. ExamInv' /\ TypeInv
    BY ExamStep DEF CapacityInv, ExamInv, RewardInv
  <1>1. ASSUME NEW r \in Submitters, NEW n \in Asked, Consume(r, n)  PROVE CapacityInv'
    BY <1>0, <1>1, ConsumeKeepsCapacity
  <1>2. ASSUME NEW r \in Submitters, NEW e \in Exams, InsertMade(r, e)  PROVE CapacityInv'
    BY <1>0, <1>2, InsertKeepsCapacity
  <1>3. ASSUME NEW r \in Submitters, Generated(r)  PROVE CapacityInv'
    <2>1. PICK n \in 1..MaxGenerated :
            maker' = [maker EXCEPT ![r].pc = "insert",
                                   ![r].asked = IF n < maker[r].asked
                                                THEN n ELSE maker[r].asked]
      BY <1>3 DEF Generated
    <2>2. /\ maker[r].asked \in Nat /\ maker[r].asked <= Limit
          /\ maker'[r].pc = "insert" /\ maker'[r].month = maker[r].month
          /\ maker'[r].asked = IF n < maker[r].asked THEN n ELSE maker[r].asked
          /\ UNCHANGED <<vars, month, used, made>>
      BY <1>3, <2>1 DEF Generated, CapacityInv, CreationTyped
    <2>3. /\ \A s \in Submitters : s # r => maker'[s] = maker[s]
          /\ maker'[r].asked <= maker[r].asked
      BY <2>1, <2>2 DEF CapacityInv, CreationTyped
    <2>4. CreationTyped'
      <3>1. /\ maker'[r].asked \in 0..Limit /\ maker'[r].asked <= MaxGenerated
        BY <2>2, CreationAssumption
      <3>2. maker' \in [Submitters -> [pc : {"none", "generate", "insert"},
                                       asked : 0..Limit, month : Months]]
        BY <2>1, <2>2, <3>1 DEF CapacityInv, CreationTyped
      <3>3. ASSUME NEW s \in Submitters
            PROVE  /\ maker'[s].pc = "none" => maker'[s] = NoMaker
                   /\ maker'[s].pc = "generate" => maker'[s].asked \in AskedFor
                   /\ maker'[s].pc = "insert" => maker'[s].asked <= MaxGenerated
        <4>1. CASE s = r
          BY <2>2, <3>1, <4>1
        <4>2. CASE s # r
          BY <2>3, <4>2 DEF CapacityInv, CreationTyped
        <4>3. QED
          BY <4>1, <4>2
      <3>4. QED
        BY <2>2, <3>2, <3>3 DEF CapacityInv, CreationTyped
    <2>5. QED
      BY <1>0, <2>2, <2>3, <2>4, ShrinkKeepsCapacity DEF vars
  <1>4. ASSUME NEW r \in Submitters, CreationFails(r)  PROVE CapacityInv'
    <2>1. /\ maker' = [maker EXCEPT ![r] = NoMaker]
          /\ UNCHANGED <<status, month, used, made>>
      BY <1>4 DEF CreationFails, rows
    <2>2. CreationTyped'
      BY <2>1, CreationAssumption DEF CapacityInv, CreationTyped, NoMaker, Months
    <2>3. /\ \A s \in Submitters : s # r => maker'[s] = maker[s]
          /\ maker'[r].asked = 0
      BY <2>1 DEF CapacityInv, CreationTyped, NoMaker
    <2>4. QED
      BY <1>0, <2>1, <2>2, <2>3, ShrinkKeepsCapacity
  <1>5. CASE Evaluation
    BY <1>0, <1>5, EvaluationKeepsIds, IdleCreations
    DEF Evaluation, creation, CapacityInv, CreationTyped
  <1>6. ASSUME NEW r \in Submitters, NEW e \in Exams, StartSubmit(r, e)  PROVE CapacityInv'
    BY <1>0, <1>6, IdleCreations
    DEF StartSubmit, Preflight, rows, creation, CapacityInv, CreationTyped
  <1>7. CASE NextMonth
    <2>1. month' \in Months
      BY <1>7, CreationAssumption DEF NextMonth, CapacityInv, CreationTyped, Months
    <2>2. QED
      BY <1>0, <1>7, <2>1, IdleCreations DEF NextMonth, vars
  <1>8. CASE UNCHANGED allVars
    BY <1>0, <1>8, IdleCreations DEF allVars, vars, creation, CapacityInv, CreationTyped
  <1>9. QED
    BY <1>1, <1>2, <1>3, <1>4, <1>5, <1>6, <1>7, <1>8 DEF CreationNext

LEMMA CapacityInit == CreationInit => CapacityInv
  <1> SUFFICES ASSUME CreationInit PROVE CapacityInv
    OBVIOUS
  <1>1. ExamInv
    BY ExamInit DEF CreationInit
  <1>2. CreationTyped
    BY CreationAssumption DEF CreationInit, CreationTyped, NoMaker, NotMade, Months
  <1>3. Unmade
    BY DEF CreationInit, Unmade
  <1>4. ASSUME NEW m \in Months
        PROVE  Taken(m) <= Limit /\ Sized(m) + Claimed(m) <= Taken(m)
    <2>1. Taken(m) = 0
      BY <1>2, CreationAssumption DEF CreationInit, Taken
    <2>2. Units(Submitters, Limit, Claims(m)) = {}
      BY DEF CreationInit, Units, Claims, NoMaker
    <2>3. Units(Exams, MaxGenerated, Sizes(m)) = {}
      BY DEF CreationInit, Units, Sizes, NotMade
    <2>4. QED
      BY <2>1, <2>2, <2>3, FS_EmptySet, CreationAssumption DEF Claimed, Sized
  <1>5. QED
    BY <1>1, <1>2, <1>3, <1>4 DEF CapacityInv, Covered

LEMMA CapacityHolds == CreationSpec => []CapacityInv
  <1>1. CapacityInv /\ [CreationNext]_allVars => CapacityInv'
    BY CapacityStep
  <1>2. QED
    BY <1>1, CapacityInit, PTL DEF CreationSpec

(* Every reachable state of the creations is well typed: in particular no  *)
(* creation keeps more questions than were asked for or generated.         *)
THEOREM CreationTypeCorrect == CreationSpec => []CreationTypeOK
  <1>1. CapacityInv => CreationTypeOK
    BY TypedCreation DEF CapacityInv
  <1>2. QED
    BY <1>1, CapacityHolds, PTL

(* No month gives away more questions than its limit, and the exams made   *)
(* of a month never have more than it gave away: for any number of         *)
(* creations at once, failures and months.                                 *)
THEOREM CapacitySuffices == CreationSpec => []CapacityCoversExams
  <1>1. CapacityInv => CapacityCoversExams
    <2> SUFFICES ASSUME CapacityInv, NEW m \in Months
                 PROVE  Taken(m) <= Limit /\ Cardinality(MadeIn(m)) <= Taken(m)
      BY DEF CapacityCoversExams
    <2>1. MadeIn(m) = Units(Exams, MaxGenerated, Sizes(m))
      BY DEF MadeIn, Units, Sizes
    <2>2. Taken(m) <= Limit /\ Sized(m) + Claimed(m) <= Taken(m) /\ Taken(m) \in Nat
      BY DEF CapacityInv, Covered, CreationTyped, Taken
    <2>3. QED
      BY <2>1, <2>2, CountsTyped DEF Sized
  <1>2. QED
    BY <1>1, CapacityHolds, PTL

=============================================================================
