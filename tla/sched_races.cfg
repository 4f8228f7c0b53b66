SPECIFICATION FairSpec
CONSTANTS
  None = None
  Id = {r1}
  MaxTime = 1
  MaxVersions = 2
  MaxRings = 2
  MaxStops = 1
  MaxFaults = 1
INVARIANTS
  PromiseKept
  RingsOnceInTime
  CancelIsFinal
PROPERTIES
  EveryReminderRings
CHECK_DEADLOCK FALSE
