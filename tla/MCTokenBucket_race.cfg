SPECIFICATION Spec
CONSTANTS
  w1 = w1
  w2 = w2
  NoOwner = NoOwner
  Callers <- TwoCallers
  Calls <- OnlyWait
  Rate = 1
  Burst = 1
  Unit = 2
  MaxClock = 3
INVARIANTS
  RateBound
