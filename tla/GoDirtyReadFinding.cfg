SPECIFICATION FaultySpec
CONSTANTS
    Procs = {p1, p2}
    Keys = {k1, k2}
    None = None
    MaxWrites = 3
INVARIANTS
    DirtyReadFresh
