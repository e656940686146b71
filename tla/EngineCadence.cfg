SPECIFICATION Spec
CONSTANTS
    c = c
    a = a
    x = x
    Tasks = {c, a}
    Configs <- OneCollector
    Times <- Hour
    Interval = 1
    Never = Never
INVARIANTS
    CadenceHonest
PROPERTIES
    RunEnds
