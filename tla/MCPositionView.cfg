SPECIFICATION FairSpec
CONSTANTS
  a1 = a1
  t1 = t1
  t2 = t2
  NoAccount = NoAccount
  Account <- OneAccount
  Ticket <- TwoTickets
  Owner <- OwnerOfTwo
  Call = {1, 2}
  MaxQueue = 1

  
  
PROPERTIES
  OpenRowsReturn
CHECK_DEADLOCK FALSE
