SPECIFICATION Spec
CONSTANTS
  Pkg <- LibApp
  Host = {}
  Override = {"app"}
  Target = {"lib", "app"}
  Staging = {"lib"}
  Images = {}
  Patched = {}
  BadArch = {}
  Deps <- AppNeedsLib
  PerPackage = TRUE
  WaitIsSpecial = FALSE
  Commands <- OneCommand
  MaxRuns = 2
  MaxFaults = 0
  MaxEdits = 0
PROPERTIES RebuildTakesEdits
CHECK_DEADLOCK FALSE
