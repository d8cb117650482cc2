SPECIFICATION MCSpec
CONSTANTS
  Nil = Nil
  MaxMsg = 2
  MaxTotal = 2
  FragmentCounts = {1, 2}
  MaxReassemblies = 1
  RetryMax = 2
  WindowSize = 1
  MaxDown = 1
INVARIANTS
  AckedIsHanded
  ToldIsSo
PROPERTIES
  ImplementsChannel
CHECK_DEADLOCK FALSE
