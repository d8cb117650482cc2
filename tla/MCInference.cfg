SPECIFICATION MCSpec
CONSTANTS
  a = a
  b = b
  k1 = k1
  u = u
  e1 = e1
  e2 = e2
  f = f
  p1 = p1
  p2 = p2
  t1 = t1
  c = c
  Nil = Nil
  Nodes <- MCNodes
  Broker = k1
  User = u
  Objects <- Reports
  ResetOf <- OneReset
  Links <- MCLinks
  CanMint = TRUE
  Sources = {b}
  Entries = {}
  DirIncidents = 1
  TTL = 2
  MaxTime = 2
  MaxLeases = 3
  MaxVersion = 2
  MaxBeats = 1
  MaxDirs = 0
  None = Nil
  Client = u
  Serving <- OneServer
  Standby <- OneForwarder
  Providers = {p1, p2}
  ModelOf <- ModelNames
  Transit = {t1}
  Coordinator = c
  LinkState <- Hops
  Broken <- Cut
  MayExclude = {}
  Greets = FALSE
  Order <- Ranks
  Outputs = {"yes", "no"}
  Quorum = 1
  Fanout = 1
  MaxTries = 1
  MaxAttempts = 2
  MaxRestarts = 1
INVARIANTS
  LatchedByWhatIsKnown
  ExposedIsNeverLent
  RevokedStaysOut
  AcceptedIsAgreed
  HonestIsNotConvicted
PROPERTIES
  NeverInHaste
CHECK_DEADLOCK FALSE
