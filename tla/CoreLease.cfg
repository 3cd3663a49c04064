SPECIFICATION Spec
CONSTANTS
  Jobs = {j1, j2}
  Delays = {0, 2}
  LeaseTtl = 1
  ExtendTtls = {2}
  MaxSize = 2
  MaxAttempt = 1
  ExpirySlack = 0
  LiveHydrate = TRUE
  MaxTime = 2
  MaxId = 2
  MaxGen = 2
  MaxChain = 2
  MaxFailures = 0
  MaxCrashes = 0
INVARIANT TypeOK
INVARIANT RowInvariant
INVARIANT LeaseOutlivesItsCall
INVARIANT LeaseTimerCovers
PROPERTY NoTokenRevival
SYMMETRY JobSymmetry
CHECK_DEADLOCK FALSE
