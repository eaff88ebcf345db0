SPECIFICATION TablesSpec
CONSTANTS
  Procs = {p1}
  Resources = {r1}
  Perms = {"GRANT", "WRITE"}
  Budgets <- MCBudgets
  Expiries = {3}
  Nonces = {1, 2, 3, 4}
  HmacKey = key
  MaxTokens = 1
  MaxId = 1
  MaxTick = 3
  None = None
  hostA = hostA
  hostB = hostB
  c1 = c1
  c2 = c2
  Keys = {"k1", "k2", "k3", "k4"}
  Values = {"v1", "v2"}
  Capacity = 4
  Homes = {0, 3}
  Nothing = Nothing
  MaxHandles = 2
  Generations = 3
  Caps = {1, 2}
  MaxIssued = 4
  MaxOrder = 2
  MaxFrames = 8
  Clients = {c1, c2}
  MaxSessions = 2
  MaxRecords = 2
  MaxHandshakes = 3
  MaxSealed = 3
  MaxReceived = 1
  Children = {c1, c2}
  MaxCount = 2
  Modulus = 4
  LastTick = 2
  MaxSteps = 7
  Resolvers = {c1, c2}
  Names = {hostA, hostB}
  Trunc <- SameName
  CacheSize = 1
  Attempts = 2
  Polls = 1
  Ttl = 1
  MaxTicks = 1
  MaxQueries = 2
  MaxAccess = 3
INVARIANTS
  SearchSound
  HandlesFaithful
  MemorySound
  BudgetsKept
  ResolvedRight
  NonceUnique
  ResourcesAccounted
  StateSurvives
PROPERTIES
  ImplementsMap
  NonceAdvances
SYMMETRY ClientSymmetry
CONSTRAINT NoClash
CHECK_DEADLOCK FALSE
