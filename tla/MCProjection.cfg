SPECIFICATION FairSpec
CONSTANTS
  Lots = 3
  MaxFaults = 2
  Slips = {"skipped", "overwritten"}
INVARIANTS
  BookedOrFlagged
  RowIsRight
PROPERTIES
  EventuallyProjected
