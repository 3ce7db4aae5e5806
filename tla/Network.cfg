CONSTANTS
  c1 = c1  c2 = c2
  Clients = {c1, c2}
  Programs <- AllPrograms
  N = 2
  NLoops = 2
  Resetters = {c1}
  MAXNCLI = 3
  MsgBytes = 2
  Sigints = TRUE
  None = None
  MAXLINE = 4
  Capacity = 5
  Crashes = TRUE
  Junk = Junk
  Lines = 5
  BufferLines = 2
  Window = 2
  nfiles = 3
  maxnconn = 2
  Refused = TRUE
  DatagramLines = 2
  Buffer = 1
  MaxDuplicates = 1
  RTT_RXTMIN = 2
  RTT_RXTMAX = 3
  RTT_MAXNREXMT = 1
  OobWindow = 5
  ClientA = c1
  ClientB = c2
  NoOne = NoOne
  ClientStreams = 3
  ServerStreams = 2
  MoreStreams = 3
  SERV_MAX_SCTP_STRM = 2
  MaxParts = 4
  SCTP_PDAPI_INCR_SZ = 2
  SCTP_PDAPI_NEED_MORE_THRESHOLD = 1
  MaxAddrs = 3
  MaxReads = 2
  Associations = 3
  MaxNotices = 2
  Room = 3
  MaxSent = 5
SPECIFICATION FairSpec
INVARIANTS
  ServedOnce WorkersCounted
  OutputInOrder ConnectionsCounted PrintsAnswers OobFound SctpEchoes
PROPERTIES Accepted ShutDown SessionsComplete
CHECK_DEADLOCK FALSE
