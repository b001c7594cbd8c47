SPECIFICATION Spec
CONSTANTS
  Jobs = {1}
  Procs = {p1, p2}
  Slots = {s1}
  None = None
  Routable = {1}
  priority <- MCPriority
  maxAttempts <- MCMaxAttempts
  visibilityMs = 1
  heartbeatMs = 1
  behind <- MCSameClocks
  claimMs = 0
  maxSkew = 0
  transitMs = 0
  backoffBaseMs = 1
  backoffFactor = 2
  backoffMaxMs = 1
  MaxClaims = 2
  MaxFaults = 0
INVARIANT DlqRetrySucceeds
CHECK_DEADLOCK FALSE
