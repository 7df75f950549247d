SPECIFICATION Spec
CONSTANTS
  Faults = {"halted"}
  Polled = {"halted"}
  Logins = {"login"}
  Sessions = 2
  MaxAttempts = 2
  Limit = 1
  MaxErrors = 0
INVARIANTS
  DeliveredMeansHeard
