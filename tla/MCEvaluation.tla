---------------------------- MODULE MCEvaluation ----------------------------
(* Small instances of Evaluation for TLC. *)
EXTENDS Evaluation, TLC

CONSTANTS r1, r2, e1, e2, d1, d2, s1, s2, a1, a2

Interchangeable ==
  Permutations(Evaluator) \cup Permutations(Desk) \cup Permutations(Sheet) \cup Permutations(Admin)
=============================================================================
