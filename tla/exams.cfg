SPECIFICATION ExamSpec
CONSTANTS
  Request = {r1, r2, r3}
  Student = {s1, s2}
  MaxVersion = 8
INVARIANTS ExamTypeOK LogTellsLock
PROPERTY FlowsInStages
CHECK_DEADLOCK FALSE
