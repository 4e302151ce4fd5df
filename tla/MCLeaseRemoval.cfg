SPECIFICATION LeaseSpec
CONSTANTS
  Processes = {p1, p2}
  Files = {f1, f2, f3}
  NoFile = NoFile
  Reuse = FALSE
  Platforms = {"posix"}
  RemovalFails = TRUE
INVARIANT
  HolderKeepsPath
CHECK_DEADLOCK FALSE
