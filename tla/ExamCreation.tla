---------------------------- MODULE ExamCreation ----------------------------
(***************************************************************************)
(* ExamsService.create beside the evaluation of exams: a request takes the *)
(* questions it asks for from the month's capacity of the student (the     *)
(* upsert of QuizMonthlyCapacityService), has the AI generate them, and    *)
(* then inserts the exam by the two actions of ExamEvaluation.             *)
(*                                                                         *)
(* The requests are those of one student; each is a submission or a        *)
(* creation at a time.                                                     *)
(***************************************************************************)
EXTENDS ExamEvaluation

CONSTANTS
  Asked,                \* numbers of questions a student asks for
  Limit,                \* FREE_QUIZ_QUESTIONS_PER_MONTH
  MaxMonth,             \* bound: months that pass
  MaxGenerated          \* bound: questions the AI returns at most

ASSUME CreationAssumption ==
  /\ IsFiniteSet(Exams) /\ IsFiniteSet(Submitters)
  /\ Asked \subseteq Nat \ {0} /\ None \notin Nat
  /\ Limit \in Nat /\ MaxMonth \in Nat /\ MaxGenerated \in Nat \ {0}

VARIABLES
  month,   \* the current UTC month
  used,    \* quiz_monthly_usage.used_questions of each month, None: no row
  maker,   \* local state of each creation before its exam is inserted
  made     \* exams.total_questions, and (history) the month it was taken from

creation == <<month, used, maker, made>>
allVars == <<vars, creation>>

Months == 0..MaxMonth
NoMaker == [pc |-> "none", asked |-> 0, month |-> 0]
NotMade == [size |-> 0, month |-> 0]
AskedFor == {n \in Asked : n <= Limit}

CreationTypeOK ==
  /\ month \in Months
  /\ used \in [Months -> Nat \cup {None}]
  /\ maker \in [Submitters -> [pc : {"none", "generate", "insert"},
                               asked : AskedFor \cup 0..MaxGenerated, month : Months]]
  /\ made \in [Exams -> [size : 0..MaxGenerated, month : Months]]

CreationInit ==
  /\ Init
  /\ month = 0
  /\ used = [m \in Months |-> None]
  /\ maker = [r \in Submitters |-> NoMaker]
  /\ made = [e \in Exams |-> NotMade]

-----------------------------------------------------------------------------
(* Mutants of Admits: the guard is left to the caller, which read the      *)
(* counter before; a request larger than a month's capacity is let in.     *)
AdmitsAny(n) == n <= Limit
AdmitsFirst(n) == used[month] # None => used[month] + n <= Limit

(* A request larger than the limit is thrown out before the statement; its *)
(* INSERT is unconditional, its UPDATE guarded.                            *)
Admits(n) == n <= Limit /\ (used[month] # None => used[month] + n <= Limit)

(* tryConsumeQuizCapacity: one statement.  A refusal changes nothing.      *)
(* Bounded: the model keeps an exam id for every creation under way.       *)
Consume(r, n) ==
  /\ request[r].pc = "idle" /\ maker[r] = NoMaker
  /\ Cardinality({e \in Exams : status[e] = "absent"})
       > Cardinality({q \in Submitters : maker[q] # NoMaker})
  /\ Admits(n)
  /\ used' = [used EXCEPT ![month] = IF @ = None THEN n ELSE @ + n]
  /\ maker' = [maker EXCEPT ![r] = [pc |-> "generate", asked |-> n, month |-> month]]
  /\ UNCHANGED <<vars, month, made>>

(* Mutant of Generated: all that the AI returns is kept.                   *)
GeneratedAll(r) ==
  /\ maker[r].pc = "generate"
  /\ \E n \in 1..MaxGenerated :
       maker' = [maker EXCEPT ![r].pc = "insert", ![r].asked = n]
  /\ UNCHANGED <<vars, month, used, made>>

(* The AI returns some valid questions, of which as many are kept as were  *)
(* asked for.                                                              *)
Generated(r) ==
  /\ maker[r].pc = "generate"
  /\ \E n \in 1..MaxGenerated :
       maker' = [maker EXCEPT ![r].pc = "insert",
                              ![r].asked = IF n < maker[r].asked
                                           THEN n ELSE maker[r].asked]
  /\ UNCHANGED <<vars, month, used, made>>

(* The AI fails or returns an invalid question, or the process dies; what  *)
(* was consumed stays consumed.                                            *)
CreationFails(r) ==
  /\ maker[r].pc # "none"
  /\ Fault("generate")
  /\ maker' = [maker EXCEPT ![r] = NoMaker]
  /\ UNCHANGED <<rows, request, month, used, made>>

(* The exam row; its questions follow by InsertQuestions.                  *)
InsertMade(r, e) ==
  /\ maker[r].pc = "insert"
  /\ InsertExam(r, e)
  /\ made' = [made EXCEPT ![e] = [size |-> maker[r].asked, month |-> maker[r].month]]
  /\ maker' = [maker EXCEPT ![r] = NoMaker]
  /\ UNCHANGED <<month, used>>

NextMonth ==
  /\ month < MaxMonth
  /\ month' = month + 1
  /\ UNCHANGED <<vars, used, maker, made>>

(* The steps of ExamEvaluation, a creation being busy until its exam is in.*)
StartSubmit(r, e) == maker[r] = NoMaker /\ Preflight(r, e) /\ UNCHANGED creation

Evaluation ==
  /\ \/ \E r \in Submitters : \/ RequestStep(r) \/ GradeThrows(r)
                              \/ CommitThrows(r) \/ RequestDies(r)
     \/ \E e \in Exams : LeaseExpires(e) \/ LeaseOverrun(e) \/ DropExam(e)
  /\ UNCHANGED creation

CreationNext ==
  \/ \E r \in Submitters :
       \/ Generated(r) \/ CreationFails(r)
       \/ \E n \in Asked : Consume(r, n)
       \/ \E e \in Exams : InsertMade(r, e) \/ StartSubmit(r, e)
  \/ Evaluation
  \/ NextMonth

CreationSpec == CreationInit /\ [][CreationNext]_allVars

(* The fairness of ExamEvaluation, whose steps these are; a creation may   *)
(* take as long as the AI does.                                            *)
CreationFairSpec ==
  /\ CreationSpec
  /\ \A r \in Submitters :
       /\ WF_allVars(RequestStep(r) /\ UNCHANGED creation)
       /\ WF_allVars(Generated(r))
       /\ WF_allVars(\E e \in Exams : InsertMade(r, e))
  /\ \A e \in Exams : /\ WF_allVars(LeaseExpires(e) /\ UNCHANGED creation)
                      /\ SF_allVars(\E r \in Submitters : StartSubmit(r, e))

-----------------------------------------------------------------------------
(* The questions of the exams made of a month's capacity, by their number. *)
MadeIn(m) ==
  {q \in Exams \X (1..MaxGenerated) :
     made[q[1]].month = m /\ q[2] <= made[q[1]].size}

Taken(m) == IF used[m] = None THEN 0 ELSE used[m]

(* quiz-monthly-capacity.service.ts:45-47: concurrent creations, failed    *)
(* ones and those that run past midnight included, never take more than    *)
(* the month's limit, and every question of an exam was taken from it.     *)
CapacityCoversExams ==
  \A m \in Months :
    /\ Taken(m) <= Limit
    /\ Cardinality(MadeIn(m)) <= Taken(m)
=============================================================================
