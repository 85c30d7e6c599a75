SPECIFICATION Spec
CONSTANTS
  NumStages = 2
  Concurrency <- WideThenNarrow
  RateLimited <- FirstStage
  PoolSizes <- NoneOrOne
  MaxSends = 1
  MaxSignals = 1
INVARIANTS
  TypeOK
  WaitGroupExact
  ResetQuiescent
  SemaphoreNeverBlocks
  OverlapBound
  LastBatchSendsNothing
  ReportComplete
PROPERTIES
  ImplementsStagedRun
  WorkersExit
