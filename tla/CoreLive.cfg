SPECIFICATION FairSpec
CONSTANTS
  Jobs = {j1, j2}
  Delays = {0, 1}
  LeaseTtl = 1
  ExtendTtls = {1}
  MaxSize = 2
  MaxAttempt = 1
  ExpirySlack = 0
  LiveHydrate = FALSE
  MaxTime = 2
  MaxId = 2
  MaxGen = 2
  MaxChain = 1
  MaxFailures = 1
  MaxCrashes = 0
PROPERTY CallsSettle
PROPERTY DelayedBecomesReady
PROPERTY ReclaimedUnlessRefused
CHECK_DEADLOCK FALSE
