SPECIFICATION HostSpec
CONSTANTS
  Commanders = {p1, p2, p3}
  MaxSaves = 2
  Fragment = "fragment"
  Root = "root"
  Source = "source"
  Repositories <- Three
  Containing <- Within
  Initialized <- CheckedOut
  ArchiveOf <- Archived
  Commands <- AllCommands
  super = super
  nested = nested
  other = other
  None = None
  N = 2
  MaxDeliveries = 3
  MaxEdits = 2
SYMMETRY Symmetry
INVARIANTS OldKept NoCircularWait SubmodulesClosed
PROPERTIES UserKept NeverTwice Undone EditsKept
CHECK_DEADLOCK FALSE
