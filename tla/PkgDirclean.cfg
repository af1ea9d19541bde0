SPECIFICATION FairSpec
CONSTANTS
  Pkg <- KernelExt
  Host = {}
  Override = {}
  Target = {"linux"}
  Staging = {"ext"}
  Images = {"linux"}
  Patched = {"ext"}
  BadArch = {"linux"}
  Deps <- LinuxTakesExt
  PerPackage = FALSE
  WaitIsSpecial = TRUE
  Commands <- DircleanCommands
  MaxRuns = 3
  MaxFaults = 1
  MaxEdits = 1
PROPERTIES DircleanStartsOver MakeEnds
CHECK_DEADLOCK FALSE
