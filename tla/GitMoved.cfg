SPECIFICATION Spec
CONSTANTS
  Cset = {"v1"}
  Commit = {"one", "two"}
  None = "none"
  Mixed = "mixed"
  Recurse = FALSE
  MaxCalls = 2
  MaxFaults = 0
  MaxCuts = 0
  MaxMoves = 1
PROPERTIES OkIsTheCommit
CHECK_DEADLOCK FALSE
