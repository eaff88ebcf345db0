SPECIFICATION WaitSpec
CONSTANTS
  NumLevels = 3
  Intents <- MCIoIntent
  Strategies = {"OneForOne"}
  Slice <- MCSlice
  Aging = 1
  Urgency = 0
  MaxRestarts = 1
  ButlerRestarts = 2
  RestartWindow = 1
  MaxDepth = 4
  TableMax = 4
  BusMax = 4
  MaxPids = 4
  None = None
CHECK_DEADLOCK FALSE
INVARIANTS
  NoPriorityInversion
