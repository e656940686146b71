SPECIFICATION Spec
CONSTANTS
    c = c
    a = a
    x = x
    Tasks = {c, a, x}
    Configs <- Scheduled
    Times <- Frozen
    Interval = 2
    Never = Never
INVARIANTS
    TypeOK
    LoopSound
    FreshCapturesOnly
    ZeroMeansPublished
