SPECIFICATION BenchSpec
CONSTANTS
  NumInstructions = {1, 2, 3, 4, 5}
  RESET_EDGES = 2
  MAX_EDGES = 30
  Windows <- MCWindows
CHECK_DEADLOCK FALSE
INVARIANT PassedRunsChecked
