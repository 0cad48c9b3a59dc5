SPECIFICATION SessionSpec
CONSTANTS
  x1 = x1
  x2 = x2
  x3 = x3
  c1 = c1
  c2 = c2
  d1 = d1
  s1 = s1
  NoOwner = NoOwner
  Instance <- Three
  MaxLease = 3
  MaxFence = 4
  TTL = 20
  RenewInterval = 5
  CallTimeout = 3
  AnswerDelay = 3
  Leader = FALSE
  NoEntry = NoEntry
  Entry <- Three
  Caller <- Two
  Dropper = {d1}
  Sub = {s1}
  StreamType = {"events"}
  streamOf <- MCStreamOf
  MaxDisturb = 3
  Faults = {"login", "slow", "link", "stream", "drop", "subscribe"}
CONSTRAINT FenceBound
SYMMETRY Symmetry
INVARIANTS
  LiveOwnsKey
  OneLiveLease
  KeyOutlivesLease
  OneSession
  
PROPERTIES
  TokensGrow
CHECK_DEADLOCK FALSE
