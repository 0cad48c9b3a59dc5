SPECIFICATION SectionsSpec
CONSTANTS
  r1 = r1
  s1 = s1
  s2 = s2
  None = None
  NoRun = NoRun
  Run <- OneRun
  Effect <- OneEffect
  MaxSwitch = 1
  Id <- OneId
  Task <- TwoTasks
  FormType = {"kline_close"}
  Schedule <- TwoSchedules
INVARIANTS
  NoStuckLoading
  OrderIsOwn
PROPERTIES
  RowsCatchUp
  
  ListCatchesUp
CHECK_DEADLOCK FALSE
