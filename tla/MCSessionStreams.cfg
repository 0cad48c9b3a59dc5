SPECIFICATION FairSpec
CONSTANTS
  e1 = e1
  e2 = e2
  e3 = e3
  c1 = c1
  d1 = d1
  Leader = TRUE
  NoEntry = NoEntry
  Entry = {e1, e2, e3}
  Caller = {c1}
  Dropper = {d1}
  Sub = {}
  StreamType = {"events"}
  streamOf <- NoStream
  MaxDisturb = 1
  Faults = {"stream"}
PROPERTIES
  StreamsResume
CHECK_DEADLOCK FALSE
