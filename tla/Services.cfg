SPECIFICATION ServicesSpec
CONSTANTS
  Conn = {c1, c2, c3}
  Page = c3
  Chat = c2
  NoConn = NoConn
  MaxConnections = 2
  JobQueue = 1
  ReplyQueue = 1
  MaxTokens = 2
  MaxPrompt = 1
  MaxTrouble = 1
  ReadCaller = {r1, r2}
  ReadWorker = {w1, w2}
  MaxTasks = 2
  MaxReads = 2
  MaxBadReads = 1
  Directories <- MCDirectories
  CallerOf = {a1}
  CallOperations <- Operation
  CallTimeouts = {0, 30000}
  ImageCaller = {i1, i2}
  WaitBudget = 3
  MaxRecords = 3
  MaxPiece = 7
  BufferLimit = 8
  GuestBlocks = 3
INVARIANTS ReadIsWhole PluginsAgree CancelReachesTheJob StreamIsFaithful
PROPERTIES ImplementsService EveryWaitEnds
CHECK_DEADLOCK FALSE
