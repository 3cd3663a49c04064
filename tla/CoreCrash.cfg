SPECIFICATION Spec
CONSTANTS
  Jobs = {j1, j2}
  Delays = {0, 1}
  LeaseTtl = 1
  ExtendTtls = {}
  MaxSize = 2
  MaxAttempt = 2
  ExpirySlack = 0
  LiveHydrate = FALSE
  MaxTime = 2
  MaxId = 2
  MaxGen = 2
  MaxChain = 1
  MaxFailures = 1
  MaxCrashes = 1
INVARIANT RowInOnePlace
INVARIANT MemoryMatchesStore
INVARIANT AcceptedNotLost
PROPERTY KeepsLedger
SYMMETRY JobSymmetry
CHECK_DEADLOCK FALSE
