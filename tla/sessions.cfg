SPECIFICATION Spec
CONSTANTS
  Tab = {a, b}
  Token = {1, 2, 3}
  Grace = 2
  Transit = 1
  MaxVersion = 2
  Faults = {"contention", "errors"}
SYMMETRY Tabs
INVARIANTS TypeOK OneLiveTokenPerSession HonestNeverFlagged CookieIsCurrent
CHECK_DEADLOCK FALSE
