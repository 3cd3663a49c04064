SPECIFICATION FairSpec
CONSTANTS
  Rows = {r1, r2}
  Concurrency = 1
  MaxFailures = 1
  MaxExpiries = 1
  MaxRequeues = 1
  MaxStops = 1
INVARIANT NoStrandedRow
INVARIANT SlotsCounted
INVARIANT LeasesAreWorked
PROPERTY ReadyIsTaken
PROPERTY StopSettlesUnlessSilent
PROPERTY IdleSettles
CHECK_DEADLOCK FALSE
