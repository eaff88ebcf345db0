SPECIFICATION PSpec
CONSTANTS
  NumLevels = 2
  Intents <- SmallIntents
  Strategies = {}
  Slice <- SmallSlice
  Aging = 0
  Urgency = 0
  MaxRestarts = 1
  ButlerRestarts = 1
  RestartWindow = 1
  MaxDepth = 1
  TableMax = 4
  BusMax = 4
  MaxPids = 4
  None = None
  SkipMax = 3
  KernelSpawns = 1
CHECK_DEADLOCK FALSE
INVARIANTS
  CpuFollowsScheduler
  FramesIntact
PROPERTIES
  UserRuns
