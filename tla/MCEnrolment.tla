---------------------------- MODULE MCEnrolment ----------------------------
(* Instances of Enrolment: one place less in the plan than requests that   *)
(* may take it.                                                            *)
EXTENDS Enrolment, TLC

Interchangeable == Permutations(Person) \cup Permutations(Batch) \cup Permutations(Request)
=============================================================================
