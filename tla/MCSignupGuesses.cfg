SPECIFICATION Spec
CONSTANTS
  Requests = {r1, r2}
  MaxAttempts = 2
  MaxResends = 1
  MaxFaults = 4
INVARIANT AttemptsLimited
CHECK_DEADLOCK FALSE
