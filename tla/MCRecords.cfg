SPECIFICATION RecordsSpec
CONSTANTS
  m1 = m1
  m2 = m2
  p1 = p1
  p2 = p2
  i1 = i1
  i2 = i2
  Intents = {i1, i2}
  Runs = {run}
  Destination <- Destinations
  Jobs = {"prepare", "finalize", "observe", "discard", "move"}
  MaxText = 2
  MaxLog = 3
  Machine = {m1, m2}
  Key = {k1}
  Look = {f1}
  Alias = {a1}
  Origin = {o1, o2}
  Procs = {p1, p2}
  None = None
  MaxRevision = 4
  MaxFiles = 2
SYMMETRY Symmetry
INVARIANTS CommittedOnce RecordedHolds MovedWithNothingOpen
PROPERTIES ReviewedCommit NeverTaken NothingUndone
CHECK_DEADLOCK FALSE
