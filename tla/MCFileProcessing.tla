-------------------------- MODULE MCFileProcessing --------------------------
(* Small instances of FileProcessing: every attempt id belongs to one file. *)
EXTENDS FileProcessing, TLC

CONSTANTS f1

MCFiles == {f1}
MCFileOf == [a \in Attempts |-> f1]

\* Sound for the safety runs: nothing distinguishes executions or ids.
Symmetry == Permutations(Workers) \cup Permutations(Callers)
              \cup Permutations(Attempts)
=============================================================================
