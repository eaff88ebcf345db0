SPECIFICATION Spec
CONSTANTS
  Users = {u1, u2}
  MaxSockets = 3
  MaxBacklog = 1
  QueueSize = 2
  RingSize = 3
  Iters = 3
  BindPorts = {10}
  Ephemeral = 10
  Protocols = {"Tcp", "Udp"}
  MaxCreated = 2
  MaxSends = 2
INVARIANTS
  StreamsIntact
  EndsAgree
CHECK_DEADLOCK FALSE
SYMMETRY UserSymmetry
CONSTRAINT Undisturbed
