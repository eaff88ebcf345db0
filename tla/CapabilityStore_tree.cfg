SPECIFICATION Spec
CONSTANTS
  Procs = {p1}
  Resources = {r1}
  Perms = {"GRANT", "WRITE"}
  Budgets = {}
  Expiries = {}
  Nonces = {1}
  HmacKey = key
  MaxTokens = 3
  MaxId = 4
  MaxTick = 0
  None = None
CHECK_DEADLOCK FALSE
INVARIANTS
  ChildListsExact
  AcceptedIsConfined
  TrackersWithinStore
PROPERTIES
  RevokeIsExact
