CONSTANTS
  c1 = c1  c2 = c2  c3 = c3
  Clients = {c1, c2, c3}
  Programs = {"multithreadserver"}
  MaxFd = 7
  Address = Address
  Unset = Unset
  Free = Free
SPECIFICATION Spec
INVARIANT ConvertsToDescriptor
CHECK_DEADLOCK FALSE
