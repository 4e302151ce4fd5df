SPECIFICATION Spec
CONSTANTS
  Processes = {p1, p2}
  Files = {f1, f2, f3}
  NoFile = NoFile
  Reuse = FALSE
  Platforms = {"posix", "windows"}
  RemovalFails = FALSE
  Wipes = TRUE
  Jobs = {"create", "open", "reclaim", "reclaimDeleted", "ask"}
  Lifetimes = {"session", "detached"}
SYMMETRY OwnershipSymmetry
INVARIANTS
  OwnershipTypeOK
  RecordIsTheHolders
  OwnContainersOnly
  UnregisteredRunsNothing
PROPERTIES
  OneOwner
  ReleaseSparesSuccessors
CHECK_DEADLOCK FALSE
