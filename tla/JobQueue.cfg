SPECIFICATION Spec
CONSTANTS
  Jobs = {1}
  Procs = {p1, p2}
  Slots = {s1, s2}
  None = None
  Routable = {1}
  priority <- MCPriority
  maxAttempts <- MCMaxAttempts
  visibilityMs = 1
  heartbeatMs = 1
  behind <- MCSameClocks
  claimMs = 2
  maxSkew = 0
  backoffBaseMs = 1
  backoffFactor = 2
  backoffMaxMs = 1
  MaxClaims = 2
  MaxFaults = 1
SYMMETRY Symmetry
INVARIANTS
  TypeOK
  LockedIffProcessing
  SnapshotIsPast
  FailedIsJustified
PROPERTIES
  OutcomeIsFinal
  ImplementsLifecycle
  LockReleasedByHolder
CHECK_DEADLOCK FALSE
