SPECIFICATION FairSpec
CONSTANTS
  c1 = c1
  c2 = c2
  c3 = c3
  Services = {"db", "rest"}
  MaxFailures = 0
  Prerequisites <- MCPrerequisites
  Order <- MCOrder
  Activation <- MCActivation
  Sleeps = {"db", "rest"}
  Clients = {"c1", "c2", "c3"}
  WaiterCap = 1
  BreakerThreshold = 2
  Armed = {"db", "rest"}
  Operations <- WakeOperations
  Cancels = FALSE
INVARIANTS
  LeasesConserved
  LeaseKeepsAwake
PROPERTY TrafficIsAnswered
CHECK_DEADLOCK FALSE
