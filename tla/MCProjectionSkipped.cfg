SPECIFICATION Spec
CONSTANTS
  Lots = 2
  MaxFaults = 0
  Slips = {"skipped", "overwritten"}
INVARIANTS
  BookedOnReplay
