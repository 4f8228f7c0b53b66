SPECIFICATION Spec
CONSTANTS
  ann = ann
  annMail = annMail
  bob = bob
  None = None
  Actor = {ann}
  PersonOf <- Alone
  Capacity = 1
  MaxAttempts = 2
  MaxTasks = 3
  MaxAsks = 2
  MaxStops = 1
  MaxFaults = 2
INVARIANTS
  
  
  OneHome
  NoLostWakeup
  OneAnswer
  RequestIsOriginal
PROPERTIES
  NoOvertaking
CHECK_DEADLOCK FALSE
