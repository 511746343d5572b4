----------------------------- MODULE MCCapture ------------------------------
(* Small instances of Capture for TLC. *)
EXTENDS Capture, TLC

CONSTANTS s1, s2, d1, d2, q1, g1, g2, p1, p2

Interchangeable ==
  Permutations(Student) \cup Permutations(Document) \cup Permutations(Question)
  \cup Permutations(Region) \cup Permutations(Process)

\* Where a request has failed MappedIsAnswered says nothing any more, and the
\* run goes no further.
Whole == \A d \in Document : gap[d] # "failure"
=============================================================================
