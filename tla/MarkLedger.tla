----------------------------- MODULE MarkLedger -----------------------------
(***************************************************************************)
(* What grading promises about the answers of one assessment delivery,     *)
(* with no word on how: an answer arrives, an AI may suggest marks for it, *)
(* a human approves marks, an answer is discarded with its marks, and the  *)
(* delivery is sealed (LOCKED) or reopened.  docs/32-AI-GOVERNANCE-        *)
(* POLICY.md states the two promises the guards below make: a suggestion   *)
(* never displaces an approved mark, and a graded delivery is sealed only  *)
(* over approved marks.  Module Evaluation is shown to implement this one. *)
(***************************************************************************)
CONSTANTS
  Response,    \* the answers that need a human's mark
  Collected,   \* those captured before the delivery reaches evaluation
  Graded       \* whether Assessment.stakesLevel is GRADED

VARIABLES
  standing,    \* what counts for each answer
  sealed       \* AssessmentDelivery.status = LOCKED

ledger == <<standing, sealed>>

Standing == {"absent", "unmarked", "suggested", "approved", "discarded"}

exists(r) == standing[r] \notin {"absent", "discarded"}

LedgerTypeOK ==
  /\ standing \in [Response -> Standing]
  /\ sealed \in BOOLEAN

Init ==
  /\ standing = [r \in Response |-> IF r \in Collected THEN "unmarked" ELSE "absent"]
  /\ sealed = FALSE

Arrive(r) ==
  /\ standing[r] = "absent"
  /\ standing' = [standing EXCEPT ![r] = "unmarked"]
  /\ sealed' = sealed

\* An AI pass may replace an earlier suggestion, never an approved mark.
Suggest(r) ==
  /\ standing[r] \in {"unmarked", "suggested"}
  /\ standing' = [standing EXCEPT ![r] = "suggested"]
  /\ sealed' = sealed

\* A human settles several answers at once when a whole sheet is submitted.
Approve(S) ==
  /\ S # {}
  /\ \A r \in S : exists(r)
  /\ standing' = [r \in Response |-> IF r \in S THEN "approved" ELSE standing[r]]
  /\ sealed' = sealed

\* For good: what is captured again for the question is another answer.
Discard(r) ==
  /\ exists(r)
  /\ standing' = [standing EXCEPT ![r] = "discarded"]
  /\ sealed' = sealed

Seal ==
  /\ ~sealed
  /\ Graded => \A r \in Collected : standing[r] \in {"approved", "discarded"}
  /\ sealed' = TRUE
  /\ standing' = standing

Unseal ==
  /\ sealed
  /\ sealed' = FALSE
  /\ standing' = standing

\* Whatever leaves the ledger as it is, is none of its steps.
Next ==
  /\ ledger' # ledger
  /\ \/ \E r \in Response : Arrive(r) \/ Suggest(r) \/ Discard(r)
     \/ \E S \in SUBSET Response : Approve(S)
     \/ Seal
     \/ Unseal

Spec == Init /\ [][Next]_ledger

-----------------------------------------------------------------------------

\* What a student was told stands: an approved mark is only ever replaced by
\* another approved mark, or discarded with its answer.
KeepsApproved ==
  \A r \in Response : standing[r] = "approved" => standing'[r] \in {"approved", "discarded"}

ApprovalStands == [][KeepsApproved]_ledger
=============================================================================
