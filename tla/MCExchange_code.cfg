SPECIFICATION Spec
CONSTANTS
  Configs <- MCConfigs
  Kinds <- MCKinds
  Responses <- MCResponses
  UrlWords <- MCUrl
  BodyWords <- MCBody
  MaxRequests = 1
  MaxResends = 2
INVARIANTS
  CodeRecorded
