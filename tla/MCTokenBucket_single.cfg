SPECIFICATION Spec
CONSTANTS
  w1 = w1
  w2 = w2
  NoOwner = NoOwner
  Callers <- OneCaller
  Calls <- AllCalls
  Rate = 2
  Burst = 2
  Unit = 5
  MaxClock = 10
INVARIANTS
  TypeOK
PROPERTIES
  RateInEveryPeriod
  ImplementsBucket
