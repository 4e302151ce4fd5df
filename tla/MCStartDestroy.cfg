SPECIFICATION FairSpec
CONSTANTS
  c1 = c1
  c2 = c2
  c3 = c3
  Services = {"db"}
  MaxFailures = 0
  Prerequisites <- OnePrerequisites
  Order <- OneOrder
  Activation <- MCActivation
  Sleeps = {}
  Clients = {"c1", "c2"}
  WaiterCap = 1
  BreakerThreshold = 1
  Armed = {"db"}
  Operations <- DestroyOperations
  Cancels = FALSE
PROPERTY RequestsEnd
CHECK_DEADLOCK FALSE
