SPECIFICATION Spec
CONSTANTS
  i1 = i1
  i2 = i2
  c1 = c1
  c2 = c2
  NoOwner = NoOwner
  Instance <- TwoInstances
  Client <- TwoClients
  home <- HomeShared
  Leaver <- OneClient
  MaxLease = 2
  MaxCalls = 2
  MaxFaults = 1
  MaxWake = 1
  Faults = {"acquire", "renew", "release", "drop", "demand", "crash", "evict"}
INVARIANTS
  NoLostSupervisor
  NoLostLease
PROPERTIES
  ImplementsSessionLease
CHECK_DEADLOCK FALSE
