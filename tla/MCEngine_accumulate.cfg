SPECIFICATION Spec
CONSTANTS
  NumStages = 2
  Concurrency <- OneWorkerStages
  RateLimited <- FirstStage
  PoolSizes <- OneRequest
  MaxSends = 1
  MaxSignals = 0
INVARIANTS
  StatsAccumulate
