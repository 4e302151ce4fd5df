SPECIFICATION FairCompositionSpec
CONSTANTS
  Services = {"db", "rest"}
  MaxFailures = 1
  Prerequisites <- MCPrerequisites
  Order <- MCOrder
  Activation <- MCActivation
  Sleeps = {}
  Clients = {"c1", "db", "rest"}
  WaiterCap = 1
  BreakerThreshold = 1
  Armed = {}
  Operations <- MCOperations
  Cancels = FALSE
  CompositionOperations = {"restart"}
INVARIANT
  WalkIsPointwise
PROPERTIES
  CompositionEnds
  TrafficIsAnswered
CHECK_DEADLOCK FALSE
