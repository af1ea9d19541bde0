SPECIFICATION Spec
CONSTANTS
  Pkg <- LibApp
  Host = {}
  Override = {"app"}
  Target = {"lib", "app"}
  Staging = {"lib"}
  Images = {}
  Patched = {}
  BadArch = {"lib"}
  Deps <- AppNeedsLib
  PerPackage = FALSE
  WaitIsSpecial = TRUE
  Commands <- OneCommand
  MaxRuns = 2
  MaxFaults = 0
  MaxEdits = 0
INVARIANTS WrongArchIsRefused
CHECK_DEADLOCK FALSE
