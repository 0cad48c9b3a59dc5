SPECIFICATION Spec
CONSTANTS
  i1 = i1
  i2 = i2
  c1 = c1
  c2 = c2
  NoOwner = NoOwner
  Instance <- TwoInstances
  Client <- OneClient
  home <- HomeOne
  Leaver <- OneClient
  MaxLease = 3
  MaxCalls = 3
  MaxFaults = 0
  MaxWake = 1
  Faults = {}
INVARIANTS
  NoDualSession
CHECK_DEADLOCK FALSE
