SPECIFICATION Spec
CONSTANTS
  w1 = w1
  w2 = w2
  w3 = w3
  accept = accept
  accept2 = accept2
  apikey = apikey
  ctype = ctype
  auth = auth
  xtimeout = xtimeout
  page = page
  AuthKey = auth
  TimeoutKey = xtimeout
  Canonical <- MCCanonical
  NoOwner = NoOwner
  Workers <- OneWorker
  NumRequests = 2
  Defaults <- EnterpriseDefaults
  Own <- EnterpriseOwn
  Nil <- EnterpriseNil
  Unbuildable <- NoRequests
  WithToken <- NoRequests
  WithTimeout <- NoRequests
  MaxNext = 2
CHECK_DEADLOCK FALSE
INVARIANTS
  DefaultsForAll
