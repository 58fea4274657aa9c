SPECIFICATION DirectoriesSpec
CONSTANTS
  i2 = i2
  n1 = n1
  n2 = n2
  p1 = p1
  p2 = p2
  Id = {i1, i2}
  Aliases = {a1, a2}
  MaxSaves = 2
  Name = {n1, n2}
  Project = {j1}
  Proc = {p1, p2}
  Ops = {"archive", "restore", "remove", "reassociate", "list"}
  AnyTarget = FALSE
  None = None
  MaxDirs = 2
  MaxTouches = 0
  MaxCrashes = 1
SYMMETRY Symmetry
INVARIANTS AlwaysLoads AlwaysTracked LiveIntentKept
PROPERTIES OnlyLooked ReviewedOnly
CHECK_DEADLOCK FALSE
