SPECIFICATION Spec
CONSTANTS
  p1 = p1
  p2 = p2
  i1 = i1
  i2 = i2
  i3 = i3
  i4 = i4
  NoFile = NoFile
  Processes = {p1, p2}
  Conditions <- MCConditions
  Acks = {TRUE, FALSE}
  Inodes = {i1, i2, i3, i4}
SYMMETRY Symmetric
INVARIANTS
  BlockedUntilAsked
  NeverTorn
PROPERTIES
  TurnsKeepTriggersProperty
