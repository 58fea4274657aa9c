SPECIFICATION Spec
CONSTANTS
  Processes = {p1, p2}
  None = None
  Fragment = "fragment"
  Root = "root"
  Source = "source"
  MaxEdits = 1
  ReadsApart = TRUE
PROPERTY EditsKept
CHECK_DEADLOCK FALSE
