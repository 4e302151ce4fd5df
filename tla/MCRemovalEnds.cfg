SPECIFICATION FairSpec
CONSTANTS
  c1 = c1
  c2 = c2
  c3 = c3
  Services = {"db"}
  MaxFailures = 1
  Prerequisites <- OnePrerequisites
  Order <- OneOrder
  Activation <- MCActivation
  Sleeps = {}
  Clients = {"c1", "c2", "c3"}
  WaiterCap = 1
  BreakerThreshold = 1
  Armed = {"db"}
  Operations <- RemovalOperations
  Cancels = TRUE
INVARIANT DataWorkIsExclusive
PROPERTY
  RequestsEnd
CHECK_DEADLOCK FALSE
