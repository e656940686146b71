SPECIFICATION Spec
CONSTANTS
    k1 = k1
    k2 = k2
    s1 = s1
    s2 = s2
    Keys = {k1, k2}
    Scopes = {s1, s2}
    Tasks <- EitherTask
    c1 = c1
    c2 = c2
    Contents = {c1, c2}
    None = None
    Threshold = 2
    MaxItems = 1
    MinItems = 1
    MaxPercent = 100
    MaxVersions = 3
    MaxRuns = 4
    MaxFaults = 1
    MaxUndoFaults <- PlainUndoFails
SYMMETRY ContentSymmetry
CHECK_DEADLOCK FALSE
INVARIANTS
    BooksMatchArchive
    FailedScopePreserved
    CompleteScopeStored
PROPERTIES
    DeletionsGuarded
