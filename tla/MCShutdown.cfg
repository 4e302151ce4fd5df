SPECIFICATION FairShutdownSpec
CONSTANTS
  Services = {"db", "rest"}
  MaxFailures = 0
  Prerequisites <- MCPrerequisites
  Order <- MCOrder
  Activation <- MCActivation
  Sleeps = {}
  Clients = {"c1", "owner"}
  WaiterCap = 1
  BreakerThreshold = 1
  Armed = {"db", "rest"}
  Operations <- MCOperations
  Cancels = FALSE
  Host = "owner"
  Requesters = {"r1", "r2"}
  Attachments = {"a1"}
  HostEvents = {"signal", "creatorGone", "ownershipEnded"}
INVARIANTS
  ShutdownTypeOK
  SuccessLeavesNothing
  AnswersAreTrue
PROPERTIES
  ShutdownEnds
CHECK_DEADLOCK FALSE
