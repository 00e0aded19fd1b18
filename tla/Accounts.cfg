SPECIFICATION Spec
CONSTANTS
  m1 = m1
  m2 = m2
  g1 = g1
  g2 = g2
  r1 = r1
  r2 = r2
  None = None
  ALL = "ALL"
  Emails <- TwoEmails
  Slugs <- TwoSlugs
  Requests <- TwoRequests
  Entities <- TwoEntities
  Actions <- TwoActions
  Workloads <- SomeWorkloads
  MaxFaults = 1
INVARIANTS RowsAreSound SuccessMeansAddresses LogoExists RowsDecide
SYMMETRY Symmetry
CHECK_DEADLOCK FALSE
