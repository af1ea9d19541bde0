SPECIFICATION Spec
CONSTANTS
  b1 = b1
  b2 = b2
  b3 = b3
  Builder = {b1, b2}
  Served = {"good", "bad"}
  Partial = "partial"
  Absent = "absent"
  Unknown = "unknown"
  Old = "good"
  CanLink = {FALSE}
  HashFile = FALSE
  Lines <- NoLines
  Excluded = FALSE
  Sites = 2
  MaxCalls = 2
  MaxFaults = 1
INVARIANTS OkIsWhole
CHECK_DEADLOCK FALSE
