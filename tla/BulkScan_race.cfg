SPECIFICATION Spec
CONSTANTS
  r1 = r1
  r2 = r2
  None = None
  Requests <- TwoRequests
  Orders <- MCOrders
  Skus <- MCSkus
  Contents <- MCContents
  FirstStatus = "OUT_FOR_DELIVERY"
  Batches <- Crossing
  MaxCalls = 3
  MaxErrors = 1
INVARIANTS TypeOK MarksAreTraced StatusIsTraced CommittedReportIsComplete
CHECK_DEADLOCK FALSE
