SPECIFICATION Spec
CONSTANTS
  Run = {r1, r2}
  Attempts = 2
  Report = {1, 2}
  Request = {q1, q2}
  Faults = {"redis", "storage", "worker"}
SYMMETRY Interchangeable
INVARIANTS TypeOK EveryReportSettles
PROPERTIES OriginalIsKept
CHECK_DEADLOCK FALSE
