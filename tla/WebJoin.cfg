CONSTANTS
  nfiles = 3
  maxnconn = 2
  Refused = FALSE
SPECIFICATION Spec
INVARIANT DoneNeedsNothing
CHECK_DEADLOCK FALSE
