SPECIFICATION MCSpec
CONSTANTS
  w1 = w1
  w2 = w2
  Gui = Gui
  Typed = Typed
  Empty = Empty
  Copied = Copied
  k1 = k1
  v1 = v1
  v2 = v2
  Nil = Nil
  Nowhere = Nil
  Windows = {w1, w2}
  Servers = {"windows", "wayland", "macos"}
  MaxActions = 1
  MaxUser = 1
  Actions <- Choosable
  Grants <- Granted
  Issuers = {"owner"}
  Unattended = FALSE
  KnownFailures = {}
  Goals = {"goal"}
  RequireIntent = TRUE
  Window = 1
  MaxStep = 2
  MaxDown = 1
INVARIANTS
  ExecutedIsSigned
  HandsOff
  AllowedIsMeant
  SeenIsThere
  AimIsMeant
PROPERTIES
  StaysInScope
  SettledOnce
SYMMETRY Alike
CHECK_DEADLOCK FALSE
