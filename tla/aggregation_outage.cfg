SPECIFICATION FairSpec
CONSTANTS
  a1 = a1
  a2 = a2
  d1 = d1
  d2 = d2
  s1 = s1
  s2 = s2
  Answer = {a1, a2}
  Collected = {a1}
  Desk = {d1}
  Sheet = {s1}
  Faults = {"redis", "database"}
  Attempts = 2
  MaxRevision = 2
INVARIANT RecordIsHumanWork
PROPERTIES WaitingJobCounts
CHECK_DEADLOCK FALSE
