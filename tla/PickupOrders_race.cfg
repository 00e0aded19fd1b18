SPECIFICATION Spec
CONSTANTS
  o1 = o1
  o2 = o2
  r1 = r1
  r2 = r2
  None = None
  Requests <- TwoRequests
  Orders <- TwoOrders
  MaxPickups = 2
  Edits <- SomeEdits
  StatusRequests <- Asked
  FirstStatus = "CREATED"
  MaxCalls = 3
  MaxAborts = 1
PROPERTIES DeletedRowsAreFrozen TakenOnlyInRace
CHECK_DEADLOCK FALSE
