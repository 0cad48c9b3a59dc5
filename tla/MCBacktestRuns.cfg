SPECIFICATION FairSpec
CONSTANTS
  r1 = r1
  w1 = w1
  w2 = w2
  Run <- OneRun
  Worker <- TwoWorkers
  MaxActive = 1
  MaxJobs = 5
  MaxCancels = 2
  MaxFaults = 1
  Faults = {"read", "write", "crash", "late", "timeout"}
INVARIANTS
  NeverStranded
  OneComputation
PROPERTIES
  FinalWithoutCancel
  EveryRunEnds
CHECK_DEADLOCK FALSE
