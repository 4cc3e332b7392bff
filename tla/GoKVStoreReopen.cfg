SPECIFICATION LivesSpec
CONSTANTS
    Procs = {p1, p2}
    Keys = {k1, k2}
    None = None
    MaxWrites = 5
    MaxWritesPerLife = 2
    MaxLives = 3
CONSTRAINT LifeBound
SYMMETRY Symmetry
CHECK_DEADLOCK FALSE
INVARIANTS
    LivesApart
PROPERTIES
    DurableWithinLife
