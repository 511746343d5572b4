SPECIFICATION Spec
CONSTANTS
  Person = {p1, p2}
  Batch = {b1, b2}
  Request = {q1, q2}
  Limit = {0, 1}
SYMMETRY Interchangeable
INVARIANTS TypeOK OverbookingIsBounded HistoryTellsBatch BarredStayOut
