----------------------------- MODULE StatusFlow -----------------------------
(***************************************************************************)
(* What the status of an exam promises to those who read it: it moves one  *)
(* stage at a time, only an unlock goes back, every move is a version of   *)
(* its own, and a lock or an unlock comes with its audit entry.            *)
(***************************************************************************)
EXTENDS Naturals

VARIABLES
  status,   \* the stage, or "deleted"
  version,  \* moves so far
  locks,    \* LOCK entries in the audit log
  unlocks   \* UNLOCK entries

flow == <<status, version, locks, unlocks>>

Stage == {"DRAFT", "REVIEW", "APPROVED", "PUBLISHED", "ONGOING", "EVALUATING", "LOCKED"}

\* EXAM_STATUS_TRANSITIONS
NextStage ==
  [DRAFT |-> "REVIEW", REVIEW |-> "APPROVED", APPROVED |-> "PUBLISHED",
   PUBLISHED |-> "ONGOING", ONGOING |-> "EVALUATING", EVALUATING |-> "LOCKED"]

FlowInit == status = "DRAFT" /\ version = 0 /\ locks = 0 /\ unlocks = 0

Move(to) == status' = to /\ version' = version + 1

Advance ==
  /\ status \in Stage \ {"EVALUATING", "LOCKED"}
  /\ Move(NextStage[status])
  /\ UNCHANGED <<locks, unlocks>>

Lock ==
  /\ status = "EVALUATING"
  /\ Move("LOCKED")
  /\ locks' = locks + 1
  /\ UNCHANGED unlocks

Unlock ==
  /\ status = "LOCKED"
  /\ Move("EVALUATING")
  /\ unlocks' = unlocks + 1
  /\ UNCHANGED locks

Delete ==
  /\ status \in Stage
  /\ status' = "deleted"
  /\ UNCHANGED <<version, locks, unlocks>>

FlowSpec == FlowInit /\ [][Advance \/ Lock \/ Unlock \/ Delete]_flow
=============================================================================
