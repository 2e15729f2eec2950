SPECIFICATION FairSpec
CONSTANTS
  Requests = {r1, r2, r3}
  MaxAttempts = 2
  MaxResends = 5
  MaxFaults = 2
INVARIANT TypeOK
PROPERTIES NothingUndone GetsIn
CHECK_DEADLOCK FALSE
