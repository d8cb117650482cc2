SPECIFICATION RunsSpec
CONSTANTS
  m1 = m1
  m2 = m2
  x = x
  app = app
  n1 = n1
  n2 = n2
  t1 = t1
  t2 = t2
  Members = {m1, m2, x}
  Home = m1
  Rogues = {x}
  App = app
  Memories <- AllMemories
  Secrets <- Pin
  RunKinds <- AllRuns
  MinRuns = 2
  MaxItems = 1
  MaxRuns = 4
  MaxEvents = 3
  MaxRequests = 2
  Nothing = Nothing
  None = None
  Node = {n1, n2}
  Task = {t1, t2}
  Prio <- Urgency
  Conn <- Connections
  max_concurrent = 1
  max_task_attempts = 2
  Raises = TRUE
  Backoff = FALSE
  MaxCut = 1
  MaxOps = 1
  MaxRevoked = 1
  Goal = {1}
  Deps <- Chain
  max_attempts = 2
  MaxActs = 2
  MaxCrash = 1
  MaxControl = 0
INVARIANT RedoIsChecked
CHECK_DEADLOCK FALSE
