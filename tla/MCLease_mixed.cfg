SPECIFICATION LiveSpec
CONSTANTS
    r1 = r1  r2 = r2  b1 = b1
    None = None
    Repos = {r1, r2}
    Branches = {b1}
    Ops = {o1, o2}
    Digests = {d1}
    Machines = {m1}
    Procs = {p1, p2}
    MaxEpoch = 2
    MaxCalls = 3
    KeySets <- Mixed
    Rank <- CanonicalRank
INVARIANTS GuardStaysAdmitted HierarchyExclusion
PROPERTIES HistoryKept EveryCallReturns
CHECK_DEADLOCK FALSE
