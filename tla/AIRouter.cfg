SPECIFICATION Spec
CONSTANTS
  Requests = {r1, r2, r3}
  Keys = {k1, k2}
  NoOne = NoOne
  Limit = 1
  Attempts = 2
  Threshold = 2
  Reset = 1
  Ttl = 1
  CacheSize = 1
  MaxTime = 2
  MaxRestarts = 1
INVARIANTS
  SingleFlight
  NobodyWaitsInVain
  QuotaOverrun
PROPERTIES
  ProviderRests
  NothingStale
SYMMETRY Symmetry
CHECK_DEADLOCK FALSE
