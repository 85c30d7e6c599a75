SPECIFICATION Spec
CONSTANTS
  w1 = w1
  w2 = w2
  w3 = w3
  accept = accept
  accept2 = accept2
  apikey = apikey
  ctype = ctype
  auth = auth
  xtimeout = xtimeout
  page = page
  AuthKey = auth
  TimeoutKey = xtimeout
  Canonical <- MCCanonical
  NoOwner = NoOwner
  Workers <- ThreeWorkers
  NumRequests = 4
  Defaults <- MCDefaults
  Own <- MCOwn
  Nil <- MCNil
  Unbuildable <- MCUnbuildable
  WithToken <- MCWithToken
  WithTimeout <- MCWithTimeout
  MaxNext = 8
CHECK_DEADLOCK FALSE
SYMMETRY Symmetry
INVARIANTS
  TypeOK
  RoundRobin
  BuiltRight
  BuiltComplete
  OnlySparseKills
