SPECIFICATION Spec
CONSTANTS
  Cset = {"v1"}
  Commit = {"one", "two"}
  None = "none"
  Mixed = "mixed"
  Recurse = FALSE
  MaxCalls = 1
  MaxFaults = 1
  MaxCuts = 0
  MaxMoves = 0
INVARIANTS DateIsTheCommits
CHECK_DEADLOCK FALSE
