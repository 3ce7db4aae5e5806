CONSTANTS
  Lines = 3
  MAXLINE = 2
  Capacity = 2
  Crashes = FALSE
SPECIFICATION Spec
INVARIANT NormalMeansAll
CHECK_DEADLOCK FALSE
