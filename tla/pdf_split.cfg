SPECIFICATION FairSpec
CONSTANTS
  Run = {r1, r2}
  Caller = {q1, q2}
  Attempts = 2
  Faults = {"redis", "service", "worker", "storage"}
INVARIANTS SplitTypeOK
PROPERTY WaitingSplitSettles RetryIsQueued
CHECK_DEADLOCK FALSE
