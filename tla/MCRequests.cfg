SPECIFICATION Spec
CONSTANTS
  c1 = c1
  c2 = c2
  c3 = c3
  Services = {"db", "rest"}
  MaxFailures = 2
  Prerequisites <- MCPrerequisites
  Order <- MCOrder
  Activation <- MCActivation
  Sleeps = {}
  Clients = {"c1", "c2"}
  WaiterCap = 1
  BreakerThreshold = 2
  Armed = {"db", "rest"}
  Operations <- RequestOperations
  Cancels = FALSE
INVARIANTS
  OneLaunchOneCheck
  ResourcesAreAccountedFor
  PhasesAreDriven
PROPERTIES
  DependentsFollow
  FailureCountsOnce
CHECK_DEADLOCK FALSE
