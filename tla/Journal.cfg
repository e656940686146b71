SPECIFICATION FairSpec
CONSTANTS
    state = state
    snapshot = snapshot
    Paths = {state, snapshot}
    RepoPaths = {snapshot}
    c1 = c1
    c2 = c2
    Contents = {c1, c2}
    None = None
    Torn = Torn
    MaxSlot = 1
    MaxFaults = 4
    MaxCommits = 2
INVARIANTS
    TypeOK
    NoOrphanFiles
    RestartCanUndo
PROPERTIES
    ChangedHeadPreserved
    AtomicUpdate
    JournalCloses
