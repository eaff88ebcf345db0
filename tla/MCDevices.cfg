SPECIFICATION DevicesSpec
CONSTANTS
  None = None
  p1 = p1
  p2 = p2
  MaxKeys = 2
  TxRing = 3
  RxRing = 3
  DmaBlocks = 4
  MaxPackets = 5
INVARIANTS
  BootReady
  ServiceEnds
  PacketsInOrder
  DevicesFaithful
PROPERTIES
  CrashHandled
SYMMETRY ProcSymmetry
CHECK_DEADLOCK FALSE
