-------------------------- MODULE MCExamEvaluation --------------------------
(* Small instances of ExamEvaluation.                                       *)
EXTENDS ExamEvaluation, TLC

\* Sound for the safety runs: nothing distinguishes requests or questions.
Symmetry == Permutations(Submitters) \cup Permutations(Questions)
=============================================================================
