CONSTANTS
    None = None
    p1 = p1
    p2 = p2
    u1 = u1
    u2 = u2
    Procs <- OneProc
    Patches <- TwoUnits
    Habits <- AllHabits
    Actions <- Action
    Faults = {"conflict", "outside"}
    MaxNotes = 0
SPECIFICATION Spec
INVARIANTS NoWorkLost
PROPERTIES ApprovedIsMerged DeletedIsMerged StashNotForgotten
CHECK_DEADLOCK FALSE
