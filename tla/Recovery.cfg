SPECIFICATION FairSpec
CONSTANTS
  Retries = 1
  Steps = 2
  Concurrency = 2
  MaxAttempts = 2
  MaxHandoffs = 2
  HopCap = 1
  MaxDeliveries = 5
  MaxTries = 6
  MaxFaults = 2
INVARIANT OneAnswer
INVARIANT WorkBounded
INVARIANT DropIsEarned
INVARIANT OneEnd
PROPERTY JobEnds
CHECK_DEADLOCK FALSE
