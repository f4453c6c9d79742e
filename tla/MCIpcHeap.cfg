CONSTANTS
  p1 = p1  p2 = p2  p3 = p3
  Facilities = {"sem", "msg", "shm", "heap", "tree", "map"}
  SvProcs = {p1, p2, p3}
  SvNums = {0, 1}
  SvVectors <- MCVectors
  SvMaxSets = 1
  SvMaxVal = 1
  SvBusyCtl = FALSE
  SvDirtyExit = FALSE
  MqProcs = {p1, p2, p3}
  MqRequests <- MCRequests
  MqLimits = {3}
  MqDefault = 2
  MqSizeMod = 16
  MqMaxQueues = 1
  MqBusyCtl = FALSE
  ShmProcs = {p1, p2}
  ShmKeys = {0, 1}
  ShmSizes = {2}
  ShmMax = 5
  ShmMaxSegs = 3
  ShmMaxAttach = 1
  ShmExits = {}
  WbSizes = {1, 6, 50}
  WbAligns = {4, 8}
  WbBlockSize = 40
  WbMaxBlocks = 2
  WbMaxLive = 4
  WbGrowJumbo = FALSE
  WtKeys32 = {1, 2, 3, 4, 5, 6, 7, 8, 9}
  WtStrings = {1, 2, 3, 4, 5}
  WtLows = {1, 2, 3, 4, 5}
  WtWide = {6}
  HmKeys = {1, 2, 3, 4, 5, 6}
  HmVals = {1, 2}
  HmHash <- MCHash
  HmMinCap = 4
SPECIFICATION Spec
INVARIANTS SvSound MqSound WbHeapSound WbOwnership TablesSound
PROPERTIES SvEffects SvProgress MqFifo ShmSound
CHECK_DEADLOCK FALSE
