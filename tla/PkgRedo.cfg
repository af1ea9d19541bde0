SPECIFICATION Spec
CONSTANTS
  Pkg <- LibApp
  Host = {}
  Override = {"app"}
  Target = {"lib", "app"}
  Staging = {"lib"}
  Images = {}
  Patched = {"lib"}
  BadArch = {}
  Deps <- AppNeedsLib
  PerPackage = FALSE
  WaitIsSpecial = TRUE
  Commands <- RedoCommands
  MaxRuns = 3
  MaxFaults = 1
  MaxEdits = 1
INVARIANTS StampsVouch InstalledIsCoherent OnlyTheStepsAskedFor NoPatchTwice FreshlyMadeIsListed
PROPERTIES RebuildTakesEdits
CHECK_DEADLOCK FALSE
