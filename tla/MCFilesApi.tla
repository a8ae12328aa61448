----------------------------- MODULE MCFilesApi -----------------------------
(* Instances of FilesApi for TLC.                                          *)
EXTENDS FilesApi, TLC
Symmetry == Permutations(Requests) \cup Permutations(Files \ OldFiles)
=============================================================================
