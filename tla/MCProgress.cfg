SPECIFICATION MCSpec
CONSTANTS
  e1 = e1
  e2 = e2
  d1 = d1
  n1 = n1
  n2 = n2
  t1 = t1
  m1 = m1
  k1 = k1
  q1 = q1
  q2 = q2
  x1 = x1
  s1 = s1
  p1 = p1
  p2 = p2
  p3 = p3
  Nil = Nil
PROPERTIES
  WorkEnds
  RecordsSpread
  BackInUse
CHECK_DEADLOCK FALSE
