CONSTANTS
  MaxAllocs = 9
  ClientA = c1
  ClientB = c2
  Sizes = {1, 2}
  MaxSends = 1
  MaxPackets = 1
  NoOne = NoOne
  Short = Short
  Connections = {n1, n2}
  LittleEndian = TRUE
  LongSize = 8
  UIO_MAXIOV = 2
  MaxSent = 3
  MAX_DUP_CHK = 2
  ByteBits = 2
  WordMod = 4
  Versions = {4, 6}
  max_ttl = 2
  nprobes = 2
  MaxDelay = 1
  BufSizes = {6, 7, 8, 15, 16, 46}
  Guess = 1
  Growth = 1
  MaxChanges = 2
SPECIFICATION FairSpec
INVARIANTS Resolves ErrorsAreOwn SockOpens CopiedInOrder
  CountsExact AnswersOwn NoticedInTime
PROPERTY ToolsEnd
CHECK_DEADLOCK FALSE
