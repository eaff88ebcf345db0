SPECIFICATION MessagingSpec
CONSTANTS
  a = a
  b = b
  None = None
  Pids = {1, 2}
  Types = {t1}
  Tags = {a, b}
  Lens = {2}
  MaxProcesses = 2
  QueueCapacity = 2
  ArenaCapacity = 5
  MaxPayload = 2
  MaxMonitors = 1
  MonitorBuffer = 1
  Versions = {TRUE, FALSE}
  Filters <- MCFilters
  MaxSeq = 2
  MaxTaps = 1
  MaxAudit = 4
  Events = {a, b}
  Capacity = 3
  MaxAppends = 7
  Procs = {a, b}
  MaxHandles = 4
  MaxOpenFiles = 8
  Archive <- MCArchive
  Paths <- MCPaths
  FlagSets = {{"APPEND"}}
  Writes <- MCWrites
  ReadLens = {1}
  DirentRooms = {1}
  SocketIds = {1}
  MaxSize = 3
  MaxCalls = 4
INVARIANTS
  BusFaithful
  PerSenderOrder
  PayloadSurvives
  AnswersInOrder
  TamperingShows
  FilesExact
  WireFaithful
SYMMETRY Renaming
CHECK_DEADLOCK FALSE
