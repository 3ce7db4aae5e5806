CONSTANTS
  c1 = c1  c2 = c2  c3 = c3
  Clients = {c1, c2, c3}
  MaxFd = 5
  Free = Free
SPECIFICATION Spec
INVARIANT ParentClosesConnection
CHECK_DEADLOCK FALSE
