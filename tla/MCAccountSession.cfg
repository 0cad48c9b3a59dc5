SPECIFICATION SessionSpec
CONSTANTS
  i1 = i1
  k1 = k1
  k2 = k2
  e1 = e1
  e2 = e2
  e3 = e3
  c1 = c1
  d1 = d1
  NoOwner = NoOwner
  Instance = {i1}
  Client <- TwoClients
  home <- HomeShared
  Leaver = {}
  MaxLease = 3
  MaxCalls = 2
  MaxFaults = 2
  MaxWake = 1
  LeaderFaults = {"renew"}
  Leader = TRUE
  NoEntry = NoEntry
  Entry = {e1, e2, e3}
  Caller = {c1}
  Dropper = {d1}
  Sub = {}
  StreamType = {"events"}
  streamOf <- NoStream
  MaxDisturb = 2
  Faults = {"login", "account", "link", "silent", "drop"}
PROPERTIES
  
  SubscriberServed
  
CHECK_DEADLOCK FALSE
