SPECIFICATION TimedSpec
CONSTANTS
  Jobs = {1}
  Procs = {p1, p2}
  Slots = {s1, s2}
  None = None
  Routable = {1}
  priority <- MCPriority
  maxAttempts <- MCThreeAttempts
  visibilityMs = 4
  heartbeatMs = 1
  behind <- MCOneSlowClock
  claimMs = 1
  maxSkew = 1
  transitMs = 1
  backoffBaseMs = 1
  backoffFactor = 2
  backoffMaxMs = 3
  MaxClaims = 9
  MaxFaults = 2
INVARIANTS
  OneWorkerPerJob
  WorkerHoldsLock
  NoLiveDeadLetter
PROPERTY BackoffFitsAttempts
CHECK_DEADLOCK FALSE
