CONSTANTS
  r1 = r1
  r2 = r2
  Requests <- MCRequests
  Count = 2
  providerCount <- MCProviderCount
  timeoutMs <- MCTimeoutMs
  retryDelay = 1
  windowMs = 2
  failureThreshold = 50
  minimumRequests = 1
  halfOpenAfterMs = 2
  MaxTime = 4
SPECIFICATION FairSpec
INVARIANTS
  CascadeInOrder
  OpenMeansQuiet
PROPERTIES
  SkippedOnlyWhenOpen
  ExecuteSettles
CHECK_DEADLOCK FALSE
