CONSTANTS
  t1 = t1  t2 = t2  t3 = t3
  Threads = {t1, t2}
  high = high
  low1 = low1
  low2 = low2
  top = top
  Mutexes <- MCMutexes
  hierarchy_value <- MCHierarchy
  ULONG_MAX = 3
  LIFO = TRUE
  MaxCalls = 3
  p1 = p1  p2 = p2  c1 = c1  c2 = c2  c3 = c3
  Producers = {p1, p2}
  Consumers = {c1, c2}
  Items = 2
  MaxThrows = 1
  Moved = Moved
  Tests = {"wait_and_pop", "stress", "counted"}
  s = s  w1 = w1  w2 = w2  w3 = w3
  Waiters = {w1, w2, w3}
  Signaller = s
  MaxSpurious = 2
  QueueThreads = {t1, t2, t3}
  QueueValues = {v1}  v1 = v1
  QueueCalls = 3
  None = None
  Nothing = Nothing
  BUFFSIZE = 2
  NLOOP = 5
  N = 3
  Null = Null
  Names = {"test_blocking_operations", "test_performance", "queue_mixed_operations",
    "stack_mixed_operations", "stack_stress_test", "test_async_future",
    "test_async_packaged_task", "test_async_promise", "test_unique_lock",
    "test_multithread_singlethread", "test3", "test1", "test_thread_id", "example01", "example02"}
  Peers = {c1, c2, c3}
  ForkMaxFd = 6
  ThreadClients = {c1, c2}
  ThreadPrograms = {"multithreadserver", "tcpserv01", "tcpserv02"}
  ThreadMaxFd = 6
  Address = Address
  Unset = Unset
  EventPrograms = {"select", "poll"}
  EventMaxFd = 6
  EventSlots = 2
  MaxSends = 1
  Free = Free
  QSIZE = 3
  Datagrams = 6
SPECIFICATION MCFairSpec
INVARIANTS
  LIFOInv LevelMatchesHeld HierarchicalLocking NoDeadlock SingleOwner BufferInv TestsPass
  OwnConnection NoForgottenZombie TableConsistent RingKeepsOrder
PROPERTIES StackLinearizable ExercisesEnd SleepersServed EveryClientServed
