SPECIFICATION Spec
CONSTANTS
  N = 3
  Nested = {1}
  MaxRuns = 2
  MaxFaults = 0
  MaxCrashes = 1
  MaxPuts = 1
  Overlaps = TRUE
  None = None
PROPERTIES QuarantineKept
CHECK_DEADLOCK FALSE
