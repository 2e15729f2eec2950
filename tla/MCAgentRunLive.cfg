SPECIFICATION FairSpec
CONSTANTS
  NoRun = NoRun  NoProfile = NoProfile
  Runs = {r1}
  Workers = {w1, w2}
  Profiles = {p1}
  MaxActive = 1
  MaxInFlight = 1
  MaxRecoveries = 1
  MaxQuestions = 2
  MaxFaults = 2
  Timely = TRUE
INVARIANTS SharedOnlyIfClaimedTwice QueuedHasDelivery AnswerFitsQuestion
PROPERTIES RunsEnd FollowsLifecycle
CHECK_DEADLOCK FALSE
