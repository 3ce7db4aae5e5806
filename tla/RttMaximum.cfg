CONSTANTS
  Lines = 2
  Buffer = 1
  MaxDuplicates = 0
  RTT_RXTMIN = 2
  RTT_RXTMAX = 60
  RTT_MAXNREXMT = 3
SPECIFICATION Spec
INVARIANT TimeoutBounded
CHECK_DEADLOCK FALSE
