SPECIFICATION FairContractSpec
CONSTANTS
  Services = {"db"}
  MaxFailures = 2
  MaxGeneration = 1
  MaxInFlight = 2
INVARIANTS
  ContractTypeOK
  ChecksBelongToLiveSession
PROPERTIES
  KeepsPromise
  StopsAreAnswered
