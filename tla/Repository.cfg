SPECIFICATION FairSpec
CONSTANTS
  w1 = w1
  w2 = w2
  Null = Null
  Column <- Columns
  Like <- Names
  Searchable <- NameAndRole
  EnumOf <- Roles
  MIN_LIMIT = 1
  DEFAULT_LIMIT = 2
  MAX_LIMIT = 3
  Ids <- SixIds
  Tenants <- TwoTenants
  InitialRows <- FourRows
  Writers <- TwoWriters
  PoolSize = 2
  Workloads <- SomeWorkloads
  MaxWrites = 2
  MaxWalks = 1
INVARIANTS WritesHold WalkHolds
PROPERTIES ScopeHolds EveryWriteEnds
CHECK_DEADLOCK FALSE
