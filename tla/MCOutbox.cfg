SPECIFICATION FairSpec
CONSTANTS
  Faults = {"halted"}
  Polled = {"halted"}
  Logins = {"login"}
  Sessions = 2
  MaxAttempts = 2
  Limit = 2
  MaxErrors = 1
INVARIANTS
  HeardOnce
  FailureIsHonest
PROPERTIES
  EventuallySettled
  FaultRecorded
