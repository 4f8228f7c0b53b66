SPECIFICATION Spec
CONSTANTS
  ann = ann
  annMail = annMail
  bob = bob
  None = None
  Actor = {ann, annMail, bob}
  PersonOf <- Linked
  Capacity = 2
  MaxAttempts = 1
  MaxTasks = 3
  MaxAsks = 2
  MaxStops = 1
  MaxFaults = 0
INVARIANTS
  StrangersDontAnswer
PROPERTIES
  AnswerFindsQuestion
  ImplementsDurableQueue
CHECK_DEADLOCK FALSE
