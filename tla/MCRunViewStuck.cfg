SPECIFICATION Spec
CONSTANTS
  Run = run
  Posts = {p1}
  PageSize = 1
  MaxEvents = 1
  MaxQuestions = 1
  MaxFaults = 0
INVARIANT StopsAtTheEnd
CHECK_DEADLOCK FALSE
