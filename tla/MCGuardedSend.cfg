SPECIFICATION FairSpec
CONSTANTS
  w1 = w1
  w2 = w2
  Workers = {w1, w2}
  Free = Free
  Left = Left
  MaxRetries = 2
  MaxDeaths = 2
INVARIANTS TypeOK OneInGuard OncePlusForgotten NeverLost
PROPERTY Ends
CHECK_DEADLOCK FALSE
