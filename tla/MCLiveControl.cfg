SPECIFICATION FairSpec
CONSTANTS
  Requests = {q1, q2}
  MaxClicks = 2
  MaxInputs = 2
  MaxFaults = 1
INVARIANTS TypeOK OneDriver
PROPERTIES InOrder SinceGrant RefusedForCause HandsBack
CHECK_DEADLOCK FALSE
