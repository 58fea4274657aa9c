CONSTANTS
    None = None
    p1 = p1
    p2 = p2
    u1 = u1
    u2 = u2
    Procs <- TwoProcs
    Patches <- OneUnit
    Habits = {"edit", "commit", "push", "fetch", "delete local"}
    Actions = {"warm", "cold", "resume", "ff", "retire", "sweep"}
    Faults = {"crash"}
    MaxNotes = 1
SPECIFICATION Spec
INVARIANTS OneAtATime
PROPERTIES ApprovedIsPublished
CHECK_DEADLOCK FALSE
