SPECIFICATION FairSpec
CONSTANTS
  None = None
  MaxMails = 3
  Readable = {1, 3}
  Chat = {hi, spam}
  Admitted = {hi}
  MaxPerPoll = 2
  DedupSize = 2
  MaxBackoff = 3
  MaxDeliveries = 2
  MaxStops = 1
  MaxFaults = 2
INVARIANTS
  OneTaskEach
  ReadIsOffered
PROPERTIES
  EveryMailOffered
CHECK_DEADLOCK FALSE
