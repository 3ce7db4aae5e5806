CONSTANTS
  t1 = t1  t2 = t2  t3 = t3
  Threads = {t1, t2, t3}
  v1 = v1  v2 = v2
  Values = {v1, v2}
  Throwing = {"push", "wait_and_pop", "try_pop", "copy"}
  MaxCalls = 2
  MaxSpurious = 1
  None = None
  k1 = k1  k2 = k2
  Tasks = {k1, k2}
  UserTexts <- MCUserTexts
  Greetings <- MCGreetings
  MESSAGE_BUFFER_SIZE = 4
  CountLimit = 2
  MaxWrites = 3
  MaxLoads = 2
  Placeholder = Placeholder
  Torn = Torn
  Nil = Nil
SPECIFICATION SharedSpec
SYMMETRY Symmetry
INVARIANTS
  QueueInv NoLostWakeup MessageMatchesCount ReadIsSnapshot NoUseAfterExit UnloadedAfterAll
PROPERTY Linearizable
CHECK_DEADLOCK FALSE
