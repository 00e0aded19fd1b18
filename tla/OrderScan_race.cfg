SPECIFICATION FairSpec
CONSTANTS
  l1 = l1
  l2 = l2
  a = a
  b = b
  r1 = r1
  r2 = r2
  None = None
  Requests <- TwoRequests
  MaxOrders = 2
  LineIds <- MCLineIds
  Skus <- MCSkus
  CreateStatuses <- InTransit
  EditStatuses <- NoStatusInBody
  ScanStatuses <- OnlyDeliver
  MaxCalls = 4
  MaxAborts = 1
INVARIANTS TypeOK StampIsTraced NoCompletedScanForgotten
PROPERTIES CompletedScanAnswered ImplementsLifecycle
CHECK_DEADLOCK FALSE
