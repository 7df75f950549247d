SPECIFICATION Spec
CONSTANTS
  h1 = h1
  h2 = h2
  o1 = o1
  o2 = o2
  o3 = o3
  Holdings = {h1, h2}
  Orders = {o1, o2, o3}
  Reports <- Contradictory
  Charges = {1, 2}
  Notes = {""}
INVARIANTS
  LedgerTypeOK
  OneLadder
  BooksMatchBroker
  BooksBalance
  DayTotalsAgree
  ChargedOnce
  DoubtIsFlagged
  WholeOrdersCommute
