SPECIFICATION Spec
CONSTANTS
  r1 = r1
  r2 = r2
  assertion = assertion
  other = other
  none = none
  Recorders <- MCRecorders
  Results <- MCResults
  ErrorTypes <- MCErrorTypes
  Codes <- MCCodes
  Durations <- MCDurations
  NanosPerMicro = 2
  MicrosPerMilli = 1
  Stages <- MCStages
  NoErrorType = none
  MaxRecords = 3
  MaxBar = 2
SYMMETRY MCSymmetry
INVARIANTS
  TypeOK
  QuiescentExact
  SnapshotOrdered
  MeanNearMax
  PercentilesRight
  HistogramRight
  LiveOrdered
  SharesRight
