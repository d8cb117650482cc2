SPECIFICATION MCSpec
CONSTANTS
  u1 = u1
  u2 = u2
  r1 = r1
  r2 = r2
  k1 = k1
  Nil = Nil
  n1 = n1
  n2 = n2
  a1 = a1
  a2 = a2
  a3 = a3
  Size = 2
  Node = {n1, n2}
  Addr = {a1, a2, a3}
  NoAddr = NoAddr
  Home <- Homes
  Allow <- Mutual
  Encrypted = {n1, n2}
  MaxCtr <- Counters
  MaxMove = 1
  MaxRestart = 1
  Nowhere = Nil
  Endpoints = {1, 2}
  Dialer = {1, 2}
  DeadAfter = 0
  MaxTime = 1
  MaxProbes = 2
  MaxFrames = 2
INVARIANTS
  AtMostOnce
  WindowExact
  EndpointIsNewest
  FoundIsSo
PROPERTIES
  DirectIsProven
CHECK_DEADLOCK FALSE
