SPECIFICATION Spec
CONSTANTS
    None = None
    Corrupt = Corrupt
    Procs = {p1, p2}
    Ids = {i1}
    States = {"hot", "done"}
    MaxTime = 2
    Operations <- CallersUse
SYMMETRY Symmetry
INVARIANTS AdmittedStaysTrue
PROPERTIES NoUpdateLost ImplementsOptimistic
