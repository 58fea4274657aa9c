CONSTANTS
    None = None
    p1 = p1
    p2 = p2
    u1 = u1
    u2 = u2
    Procs <- OneProc
    Patches <- OneUnit
    Habits = {"edit", "commit", "push", "fetch", "delete remote"}
    Actions = {"cold"}
    Faults = {}
    MaxNotes = 0
SPECIFICATION Spec
PROPERTIES CheckedIsPublished
CHECK_DEADLOCK FALSE
