SPECIFICATION Spec
CONSTANTS
    p1 = p1
    p2 = p2
    Procs = {p1, p2}
    Tools = {"backup"}
    Schedulers = {"any"}
    None = None
    MaxOps = 2
    MaxVersions = 2
    MaxCrashes = 0
SYMMETRY ProcSymmetry
CHECK_DEADLOCK FALSE
INVARIANTS
    OverlapKept
