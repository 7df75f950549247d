SPECIFICATION Spec
CONSTANTS
  x1 = x1
  x2 = x2
  g1 = g1
  g2 = g2
  f1 = f1
  Attempts = {x1, x2}
  Triggers = {g1, g2}
  Foreign = {f1}
  Lots = 2
  Armed = TRUE
  StoreFails = TRUE
  Slips = {"outside", "attributed"}
  MaxTasks = 1
  None = None
CHECK_DEADLOCK FALSE
SYMMETRY Symmetric
INVARIANTS
  Fenced
  OneExit
  OneSeller
  OneTrigger
  NeverShort
  ClosedMeansFlat
