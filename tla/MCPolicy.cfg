SPECIFICATION PolicySpec
CONSTANTS
  None = None
  t1 = t1
  t2 = t2
  t3 = t3
  Threads = {t1, t2, t3}
  Debug = FALSE
  MaxHeld = 8
  MaxPaths = 3
  Models = {"sentinel", "arbiter", "oracle"}
  Sentinel = "sentinel"
  Trained = {"sentinel"}
  Senders = {1}
  BufferSize = 1
  MaxUpdates = 1
  Period = 2
  MaxOverrides = 1
  Ttl = 1
  MaxTick = 3
  MaxChanges = 2
  MaxRules = 3
  Rules <- MCRules
  Contexts <- MCContexts
  Genesis <- MCGenesis
  ElevatedClear = 2
  SafeBurndown = 2
  AnomalyWindow = 1
  AnomalyBurst = 2
  AlarmBurst = 2
  Weights = {1, 3}
  SignalWindow = 1
  ElevatedThreshold = 2
  ChaosThreshold = 3
  InstantThreshold = 3
  Cooldown = 1
  MaxSignals = 2
  DegradedTicks = 1
  ContingencyTicks = 2
  EmergencyTicks = 3
  GlassTicks = 2
  CoolingTicks = 1
INVARIANTS
  PolicySound
  DeadManSwitch
  CouncilSound
  HighestRuleDecides
  NoCircularWait
PROPERTIES
  EscalationSound
  SignalsCounted
SYMMETRY ThreadSymmetry
CHECK_DEADLOCK FALSE
