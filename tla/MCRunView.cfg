SPECIFICATION FairSpec
CONSTANTS
  Run = run
  Posts = {p1}
  PageSize = 1
  MaxEvents = 2
  MaxQuestions = 2
  MaxFaults = 1
INVARIANTS TypeOK NoGapNoRepeat NothingMissed
PROPERTIES AnswersWhatWasShown ShowsTheEnd
CHECK_DEADLOCK FALSE
