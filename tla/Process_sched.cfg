SPECIFICATION Spec
CONSTANTS
  NumLevels = 2
  Intents <- MCIoIntent
  Strategies = {"OneForOne"}
  Slice <- MCSlice
  Aging = 0
  Urgency = 0
  MaxRestarts = 0
  ButlerRestarts = 1
  RestartWindow = 1
  MaxDepth = 2
  TableMax = 3
  BusMax = 2
  MaxPids = 3
  None = None
CHECK_DEADLOCK FALSE
INVARIANTS
  TableExact
