SPECIFICATION Spec
CONSTANTS
  x1 = x1
  x2 = x2
  g1 = g1
  g2 = g2
  f1 = f1
  Attempts = {x1, x2}
  Triggers = {g1, g2}
  Foreign = {}
  Lots = 2
  Armed = TRUE
  StoreFails = FALSE
  Slips = {"rearm"}
  MaxTasks = 1
  None = None
CHECK_DEADLOCK FALSE
SYMMETRY Symmetric
INVARIANTS
  NeverSoldShort
