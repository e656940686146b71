SPECIFICATION Spec
CONSTANTS
    c = c
    a = a
    x = x
    Tasks = {c, a, x}
    Configs <- StopOnError
    Times <- Clock
    Interval = 2
    Never = Never
INVARIANTS
    NeverHidden
