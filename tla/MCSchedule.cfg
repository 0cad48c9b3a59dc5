SPECIFICATION FairSpec
CONSTANTS
  g1 = g1
  g2 = g2
  p1 = p1
  NoOne = NoOne
  Goroutine <- TwoGoroutines
  Payload <- OneOrder
  Mode = "event"
  MaxPositions = 1
  MaxBar = 2
  MaxToggles = 2
  MaxFaults = 1
  Faults = {"load", "save", "account", "count", "answer", "cache", "crash", "shutdown"}
INVARIANTS
  OneRunner
  
  PositionsLimited
PROPERTIES
  DisabledEnds
  EnabledRuns
CHECK_DEADLOCK FALSE
