SPECIFICATION FairSpec
CONSTANTS
  Cset = {"v1", "v2"}
  Commit = {"one", "two"}
  None = "none"
  Mixed = "mixed"
  Recurse = TRUE
  MaxCalls = 2
  MaxFaults = 2
  MaxCuts = 1
  MaxMoves = 1
INVARIANTS CalmCallsSucceed OnlyOnce
PROPERTIES CleanOkIsTheCommit KeptWithoutTrouble CallEnds
CHECK_DEADLOCK FALSE
