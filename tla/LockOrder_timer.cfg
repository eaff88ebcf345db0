SPECIFICATION LocksSpec
CONSTANTS
  Threads = {t1, t2}
  Debug = FALSE
  MaxHeld = 8
  MaxPaths = 2
INVARIANTS
  TimerSkipsInPassing
CHECK_DEADLOCK FALSE
