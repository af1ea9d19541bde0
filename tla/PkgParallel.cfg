SPECIFICATION Spec
CONSTANTS
  Pkg <- ToolLibApp
  Host = {"tool"}
  Override = {"app", "tool"}
  Target = {"app"}
  Staging = {"app"}
  Images = {"lib"}
  Patched = {}
  BadArch = {}
  Deps <- ToolDeps
  PerPackage = TRUE
  WaitIsSpecial = TRUE
  Commands <- ParallelCommands
  MaxRuns = 2
  MaxFaults = 1
  MaxEdits = 0
INVARIANTS IndInv DependenciesAreReady StepsDoNotOverlap
CHECK_DEADLOCK FALSE
