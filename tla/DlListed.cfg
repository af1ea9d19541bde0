SPECIFICATION FairSpec
CONSTANTS
  b1 = b1
  b2 = b2
  b3 = b3
  Builder = {b1, b2, b3}
  Served = {"good", "bad"}
  Partial = "partial"
  Absent = "absent"
  Unknown = "unknown"
  Old = "bad"
  CanLink = {TRUE, FALSE}
  HashFile = TRUE
  Lines <- SomeHashes
  Excluded = FALSE
  Sites = 2
  MaxCalls = 2
  MaxFaults = 2
INVARIANTS OkIsAccepted
PROPERTIES ImplementsCache CallsEnd
CHECK_DEADLOCK FALSE
