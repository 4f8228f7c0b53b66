SPECIFICATION FairSpec
CONSTANTS
  None = None
  Person = {ann, bob}
  File = {ann, bob}
  MaxExchanges = 3
  MaxStops = 1
  MaxFaults = 1
  FileOf <- OwnFile
INVARIANTS
  NothingForgotten
  LiveOnDisk
  ArchivedOnce
  NoStaleHistory
PROPERTIES
  EveryExchangeArchived
CHECK_DEADLOCK FALSE
