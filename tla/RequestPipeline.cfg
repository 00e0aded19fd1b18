SPECIFICATION FairSpec
CONSTANTS
  u1 = u1
  s1 = s1
  s2 = s2
  r1 = r1
  r2 = r2
  Page = Page
  None = None
  Users <- OneUser
  Sessions <- TwoSessions
  Requests <- TwoRequests
  Workloads <- SomeWorkloads
  MaxWrites = 2
  MaxFaults = 1
INVARIANTS
  FreshUnlessExcused LogoutHolds AuditEncloses
PROPERTIES
  CachesCatchUp
CHECK_DEADLOCK FALSE
