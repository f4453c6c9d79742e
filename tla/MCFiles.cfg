CONSTANTS
  r1 = r1  r2 = r2  r3 = r3  r4 = r4
  w1 = w1  w2 = w2  w3 = w3  c1 = c1  c2 = c2
  AioReqs = {r1, r2, r3, r4}
  AioFd <- MCFd
  AioPrio <- MCPrio
  AioThreads = 2
  AioRow = 2
  AioWorkers = {w1, w2, w3}
  AioClients = {c1, c2}
  AioWants <- MCWants
  AioMaxCalls = 4
  AioCancelHead = FALSE
  FdThreads = {t1}
  FdNil = Nil
  FdGranularity = 1
  FdMax = 4
  FdMaxFiles = 4
  FdStd = 1
  FdDirs = {3}
  FdOrphans = {4}
  FdUses = {}
  RlProcs = {p, q}
  RlNone = RlNone
  RlFds = {1, 2}
  RlReqs <- MCReqs
  LONG_MAX = 4
  RlMaxRegions = 3
  RlExits = FALSE
  StBytes = {1, 2}
  StNewline = 2
  StBehind = 1
  StSizes = {2}
  StWrites <- MCWrites
  StReads = {1, 3}
  StZero = 1
  StUnix = {TRUE, FALSE}
  StMaxFile = 3
  StFaults = {"read", "write", "short", "seek"}
  StUses = {}
SPECIFICATION FilesSpec
INVARIANTS AioSound FdSound StSound
PROPERTIES AioProgress FdImplements RlSound RlPollEnds StImplements
CHECK_DEADLOCK FALSE
