SPECIFICATION Spec
CONSTANTS
  s1 = s1
  s2 = s2
  d1 = d1
  d2 = d2
  q1 = q1
  g1 = g1
  g2 = g2
  p1 = p1
  p2 = p2
  none = none
  Student = {s1,s2}
  Document = {d1,d2}
  Question = {q1}
  Region = {g1,g2}
  Process = {p1,p2}
SYMMETRY Interchangeable
INVARIANTS TypeOK LinkIsResolved MappedIsAnswered
CONSTRAINT Whole
