SPECIFICATION Spec
CONSTANTS
    p1 = p1
    p2 = p2
    Procs = {p1, p2}
    Tools = {"backup", "verify", "migrate"}
    Schedulers = {"serial", "any"}
    None = None
    MaxOps = 5
    MaxVersions = 2
    MaxCrashes = 2
SYMMETRY ProcSymmetry
CHECK_DEADLOCK FALSE
INVARIANTS
    BooksSound
    NoFalseAlarm
PROPERTIES
    LedgerKept
