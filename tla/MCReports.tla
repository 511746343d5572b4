----------------------------- MODULE MCReports -----------------------------
(* Instances of Reports: a report, its reissue, and two overrides at once. *)
EXTENDS Reports, TLC

Interchangeable == Permutations(Run) \cup Permutations(Request)
=============================================================================
