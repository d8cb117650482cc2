SPECIFICATION MCSpec
CONSTANTS
  None = None
  e1 = e1
  e2 = e2
  cmd = cmd
  Configs <- MCConfigs
  Choices <- MCChoices
  Frames = {1, 2}
  Elements = {e1}
  Allowed = {cmd}
  StallLimit = 2
  Retries = 1
  SubtaskLimit = 2
  TransientRetries = 1
  d1 = d1
  d2 = d2
  d3 = d3
  m1 = m1
  m2 = m2
  stranger = stranger
  s1 = s1
  p1 = p1
  p2 = p2
  Did = {d1, d2, d3}
  Process = {p1, p2}
  SelfOf <- Selves
  Store = {s1}
  NoStore = NoStore
  StoreOf <- OneStore
  Peers <- Pair
  Gossips = {p1, p2}
  EarlyTicker = {p2}
  Ticker = {1}
  Obj <- Records
  IdOf <- RecordIds
  Revokes <- Names
  Sigs <- Signatures
  Master = {m1, m2}
  Threshold = 2
  Fault = {"raise", "torn", "cut", "unreadable"}
  MaxFault = 1
INVARIANTS
  HighRiskIsConfirmed
  StopWithinAStep
  TraceTellsAll
  OnlyMastersRevoke
  NeverForgets
  NoRevokedRunner
CHECK_DEADLOCK FALSE
