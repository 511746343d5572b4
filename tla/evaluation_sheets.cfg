SPECIFICATION Spec
CONSTANTS
  r1 = r1
  r2 = r2
  e1 = e1
  e2 = e2
  d1 = d1
  d2 = d2
  s1 = s1
  s2 = s2
  a1 = a1
  a2 = a2
  Response = {r1, r2}
  Collected = {r1}
  Graded = TRUE
  Evaluator = {e1}
  Desk = {}
  Sheet = {s1, s2}
  Admin = {a1}
  MaxVersions = 2
  MaxDelivery = 3
SYMMETRY Interchangeable
INVARIANTS HistoryNeverForks
PROPERTIES SubmitMarksWholeSheet ImplementsLedger
