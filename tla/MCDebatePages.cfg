SPECIFICATION PagesSpec
CONSTANTS
  Chunks = 2
  Room = 3
  MaxErrors = 2
  Agents = 1
  Session = {1, 2}
  Handler = {1, 2}
  Job = {1, 2, 3}
  MaxOps = 4
INVARIANTS
  
  FlagsHaveHandler
  OneJob
  ShownIsServers
PROPERTIES
  KeepsPromise
  SendingEnds
CHECK_DEADLOCK FALSE
