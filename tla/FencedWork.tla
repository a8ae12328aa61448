----------------------------- MODULE FencedWork -----------------------------
(***************************************************************************)
(* What a fenced worker protocol promises, whoever runs it: an item of     *)
(* work is held by at most one claim at a time, each claim carries a token *)
(* one larger than the last, a hold may be given up or taken away at any   *)
(* moment, and the result is committed at most once and only under the     *)
(* hold.  In a preemptive protocol a claim may also replace a hold that    *)
(* nobody released.  Document processing implements the protocol with      *)
(* processing_attempts, exam evaluation, preemptively, with                *)
(* evaluation_version.                                                     *)
(***************************************************************************)
EXTENDS Naturals

CONSTANTS
  Items,
  Preemptive  \* may a claim replace a hold that is in force?

VARIABLES
  token,  \* the last token handed out for each item, 0 before the first
  held,   \* is the last token still in force?
  done    \* has a result been committed?

fencedVars == <<token, held, done>>

Init ==
  /\ token = [i \in Items |-> 0]
  /\ held = [i \in Items |-> FALSE]
  /\ done = [i \in Items |-> FALSE]

Claim(i) ==
  /\ held[i] => Preemptive
  /\ token' = [token EXCEPT ![i] = @ + 1]
  /\ held' = [held EXCEPT ![i] = TRUE]
  /\ UNCHANGED done

Release(i) ==
  /\ held[i]
  /\ held' = [held EXCEPT ![i] = FALSE]
  /\ UNCHANGED <<token, done>>

Commit(i) ==
  /\ held[i]
  /\ ~done[i]
  /\ held' = [held EXCEPT ![i] = FALSE]
  /\ done' = [done EXCEPT ![i] = TRUE]
  /\ UNCHANGED token

(* The owner of a group of items deletes them all.                         *)
Remove(S) ==
  /\ token' = [i \in Items |-> IF i \in S THEN 0 ELSE token[i]]
  /\ held' = [i \in Items |-> i \notin S /\ held[i]]
  /\ done' = [i \in Items |-> i \notin S /\ done[i]]

Next ==
  \/ \E i \in Items : Claim(i) \/ Release(i) \/ Commit(i)
  \/ \E S \in SUBSET Items : Remove(S)

Spec == Init /\ [][Next]_fencedVars

=============================================================================
