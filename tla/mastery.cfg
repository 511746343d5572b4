SPECIFICATION FairSpec
CONSTANTS
  Run = {r1, r2}
  Attempts = 2
  Key = {alone, together}
  Request = {q1}
  MaxMarks = 2
  Faults = {"redis", "slow", "service", "database"}
INVARIANTS MasteryTypeOK OneInterventionPerEpisode ClaimsAreAnswered
PROPERTY QueuedMarksCount
CHECK_DEADLOCK FALSE
