SPECIFICATION Spec
CONSTANTS
  r1 = r1
  r2 = r2
  None = None
  Requests <- TwoRequests
  Orders <- MCOrders
  Skus <- MCSkus
  Contents <- MCContents
  FirstStatus = "OUT_FOR_DELIVERY"
  Batches <- Deliveries
  MaxCalls = 2
  MaxErrors = 0
INVARIANTS CompleteOrderProgressed
CHECK_DEADLOCK FALSE
