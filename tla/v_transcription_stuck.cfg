SPECIFICATION Spec
CONSTANTS
  Workers = {w1}
  Lease = 4
  Stale = 4
  MaxPrepare = 2
  MaxAttempts = 3
  MaxTries = 3
  MaxCrashes = 1
  MaxOutages = 0
INVARIANT Attended
CHECK_DEADLOCK FALSE
