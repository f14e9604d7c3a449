---------------------------- MODULE MCDiagnosis ----------------------------
(* Instance of Diagnosis for TLC: the two commits are interchangeable. *)
EXTENDS Diagnosis, TLC

Commits == Permutations(Heads)
=============================================================================
