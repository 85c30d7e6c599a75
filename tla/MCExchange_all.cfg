SPECIFICATION Spec
CONSTANTS
  Configs <- MCConfigs
  Kinds <- MCKinds
  Responses <- MCResponses
  UrlWords <- MCUrl
  BodyWords <- MCBody
  MaxRequests = 2
  MaxResends = 2
INVARIANTS
  TypeOK
  RecordedOnce
  BreakdownSums
  DeliveriesBounded
  NoFalsePass
  NoFalseFail
PROPERTIES
  NoRetryAfterAnswer
  EveryRequestEnds
