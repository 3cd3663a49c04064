SPECIFICATION AdminSpec
CONSTANTS
  Jobs = {j1, j2}
  Delays = {0, 1}
  LeaseTtl = 0
  ExtendTtls = {}
  MaxSize = 2
  MaxAttempt = 1
  ExpirySlack = 0
  LiveHydrate = FALSE
  MaxTime = 1
  MaxId = 2
  MaxGen = 1
  MaxChain = 1
  MaxFailures = 1
  MaxCrashes = 1
  AdminOps = {"dequeue", "clear", "replace", "cancel", "defer", "promote"}
INVARIANT AdminMemoryMatchesStore
INVARIANT CancelledIsGone
INVARIANT DelayTimerCovers
SYMMETRY JobSymmetry
CHECK_DEADLOCK FALSE
