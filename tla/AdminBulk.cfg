SPECIFICATION AdminSpec
CONSTANTS
  Jobs = {j1, j2, j3}
  Delays = {1}
  LeaseTtl = 0
  ExtendTtls = {}
  MaxSize = 2
  MaxAttempt = 1
  ExpirySlack = 0
  LiveHydrate = FALSE
  MaxTime = 1
  MaxId = 3
  MaxGen = 1
  MaxChain = 2
  MaxFailures = 1
  MaxCrashes = 0
  AdminOps = {"clear", "replace"}
INVARIANT AdminRowInOnePlace
 
INVARIANT AdminMemoryMatchesStore
INVARIANT AdminDepthBound
SYMMETRY JobSymmetry
CHECK_DEADLOCK FALSE
