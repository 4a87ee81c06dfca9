SPECIFICATION Spec
CONSTANTS
  Threads = {t1, t2}
  None = None
  CallBounds <- MCCallBounds
  WriteBounds <- MCWriteBounds
  Files <- MCFiles
  Need <- MCNeed
  MaxHandleSz = 5
  Bytes = {0, 3, 6}
  Word = 2
  MaxFds = 1
  Lengths = {1, 2, 4, 5}
  PageSize = 4
  MinLength = 2
  Pages = 3
  Srbs <- MCSrbs
  Base = 1
  E32 = 2
  E64 = 3
  MaxSg = 2
  MaxCount = 2
  MaxFib = 7
  ReqHdr = 1
  RespHdr = 1
  ReqI2c = 1
  RespI2c = 1
  InfoSize = 2
  Proto2Max = 1
  Ecs <- MCEcs
  Cmds <- MCCmds
  Answers = {1, 2}
  Retries = 2
CHECK_DEADLOCK FALSE
INVARIANTS Balanced CopiesFit 
PROPERTIES HandlesServe ActsOnChecked EveryCallReturns
