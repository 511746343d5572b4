SPECIFICATION FairSpec
CONSTANTS
  a1 = a1
  a2 = a2
  d1 = d1
  d2 = d2
  s1 = s1
  s2 = s2
  Answer = {a1}
  Collected = {a1}
  Desk = {d1, d2}
  Sheet = {s1, s2}
  Faults = {"database", "retention"}
  Attempts = 3
  MaxRevision = 3
INVARIANT TypeOK
PROPERTIES WaitingJobCounts
CHECK_DEADLOCK FALSE
