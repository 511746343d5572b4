SPECIFICATION FairSpec
CONSTANTS
  Run = {r1, r2}
  Attempts = 2
  Box = {left, right}
  Request = {q1}
  Faults = {"redis", "service", "slow", "worker"}
INVARIANTS TypeOK GradedOnItsBox OnlyErrorsDeadLetter
PROPERTY WaitingAnswerIsRead
CHECK_DEADLOCK FALSE
