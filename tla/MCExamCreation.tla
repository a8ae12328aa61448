--------------------------- MODULE MCExamCreation ---------------------------
(* Instances of ExamCreation for TLC.                                      *)
EXTENDS ExamCreation
=============================================================================
