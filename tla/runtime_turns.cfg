SPECIFICATION FairRuntimeSpec
CONSTANTS
  ann = ann
  None = None
  Actor = {ann}
  PersonOf <- Alone
  Capacity = 2
  MaxAttempts = 2
  MaxTasks = 2
  MaxAsks = 1
  MaxStops = 1
  MaxFaults = 1
INVARIANTS
  
  AnsweredOnce
PROPERTIES
  
  EveryTaskSettles
CHECK_DEADLOCK FALSE
