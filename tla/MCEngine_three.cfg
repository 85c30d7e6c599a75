SPECIFICATION Spec
CONSTANTS
  NumStages = 3
  Concurrency <- OneWorkerStages
  RateLimited <- FirstStage
  PoolSizes <- OneRequest
  MaxSends = 2
  MaxSignals = 1
INVARIANTS
  OneLateRequest
  StatsWindow
