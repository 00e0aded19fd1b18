SPECIFICATION Spec
CONSTANTS
  o1 = o1
  o2 = o2
  r1 = r1
  r2 = r2
  None = None
  Requests <- OneRequest
  Orders <- TwoOrders
  MaxPickups = 2
  Edits <- SomeEdits
  StatusRequests <- Asked
  FirstStatus = "CREATED"
  MaxCalls = 5
  MaxAborts = 0
PROPERTIES ImplementsLedger
CHECK_DEADLOCK FALSE
