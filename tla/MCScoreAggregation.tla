------------------------- MODULE MCScoreAggregation -------------------------
(* Small instances of ScoreAggregation for TLC. *)
EXTENDS ScoreAggregation, TLC

CONSTANTS a1, a2, d1, d2, s1, s2

Interchangeable == Permutations(Desk) \cup Permutations(Sheet)
=============================================================================
