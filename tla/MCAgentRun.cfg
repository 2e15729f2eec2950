SPECIFICATION SharedProfile
CONSTANTS
  NoRun = NoRun  NoProfile = NoProfile
  Runs = {r1, r2}
  Workers = {w1, w2}
  Profiles = {p1}
  MaxActive = 2
  MaxInFlight = 1
  MaxRecoveries = 1
  MaxQuestions = 1
  MaxFaults = 2
  Timely = TRUE
SYMMETRY MCSymmetry
INVARIANTS TypeOK ProfileExclusive
CHECK_DEADLOCK FALSE
