SPECIFICATION FairSpec
CONSTANTS
  Jobs = {1}
  Procs = {p1, p2}
  Slots = {s1}
  None = None
  Routable = {1}
  priority <- MCPriority
  maxAttempts <- MCMaxAttempts
  visibilityMs = 1
  heartbeatMs = 1
  behind <- MCSameClocks
  claimMs = 0
  maxSkew = 0
  transitMs = 0
  backoffBaseMs = 1
  backoffFactor = 2
  backoffMaxMs = 1
  MaxClaims = 4
  MaxFaults = 0
PROPERTY FailedReachesDlq
CHECK_DEADLOCK FALSE
