CONSTANTS
  k1 = k1
  k2 = k2
  r1 = r1
  r2 = r2
  c1 = c1
  Keys = {k1, k2}
  NoKey = NoKey
  streams <- MCstreams
  usageOf <- MCusageOf
  keyPrefix <- MCkeyPrefix
  ownerOf <- MCownerOf
  rateLimitRpm <- MCrateLimitRpm
  Customers = {c1}
  Requests = {r1, r2}
  Revokers = {v1}
  modelOf <- MCmodelOf
  resolved <- MCresolved
  MODEL_PRICING <- MCpricing
  FALLBACK_PRICING <- MCfallback
  marginPercent = 20
  CACHE_TTL_MS = 1
  RATE_LIMIT_WINDOW_MS = 2
  MaxLookup = 1
  MaxTime = 3
SPECIFICATION Spec
INVARIANTS
  RevocationLapses
  BilledAsServed
CHECK_DEADLOCK FALSE
