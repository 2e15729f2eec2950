SPECIFICATION Spec
CONSTANTS
  NoRun = NoRun  NoProfile = NoProfile
  Runs = {r1}
  Workers = {w1, w2}
  Profiles = {p1}
  MaxActive = 1
  MaxInFlight = 2
  MaxRecoveries = 1
  MaxQuestions = 1
  MaxFaults = 0
  Timely = TRUE
INVARIANT NoDeafWaiting
CHECK_DEADLOCK FALSE
