SPECIFICATION SettlingSpec
CONSTANTS
  x1 = x1
  x2 = x2
  x3 = x3
  w1 = w1
  w2 = w2
  i1 = i1
  n1 = n1
  n2 = n2
  j1 = j1
  p1 = p1
  p2 = p2
  None = None
  Pane <- ThreePanes
  Workspace <- TwoWorkspaces
  In <- SharedWorkspace
  Caller = x1
  Coordinator = {c1, c2}
  MaxChanges = 1
  N = 3
  Nested = {1}
  MaxRuns = 2
  MaxFaults = 2
  MaxCrashes = 2
  MaxPuts = 1
  Overlaps = FALSE
INVARIANTS Accounted
PROPERTIES QuarantineKept Settles NoWorkKilled MovesSettle
CHECK_DEADLOCK FALSE
