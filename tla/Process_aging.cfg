SPECIFICATION LoopSpec
CONSTANTS
  NumLevels = 3
  Intents <- MCIntents
  Strategies = {"OneForOne"}
  Slice <- MCSlice
  Aging = 1
  Urgency = 0
  MaxRestarts = 1
  ButlerRestarts = 2
  RestartWindow = 1
  MaxDepth = 1
  TableMax = 4
  BusMax = 4
  MaxPids = 3
  None = None
CHECK_DEADLOCK FALSE
PROPERTIES
  NoStarvation
