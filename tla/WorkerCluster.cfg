SPECIFICATION FairSpec
CONSTANTS
  NumCPUs = 2
  MemoryBased = 4
  EnvCap = 6
  MaxWorkers = 2
  MinWorkers = 1
  MinHealthyWorkers = 1
  MaxConcurrentRestarts = 1
  MaxRestarts = 3
  Nobody = Nobody
  MaxForks = 3
  MaxTroubles = 2
  MaxTimers = 1
INVARIANTS RestartsBounded BalancerRight
PROPERTIES Recovers HungWorkerIsReplaced ShutdownEnds
CHECK_DEADLOCK FALSE
