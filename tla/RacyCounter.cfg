\* Every interleaving of up to four overlapping calls.
SPECIFICATION BadSpec
CONSTANTS
    Procs = {p1, p2, p3, p4}
    Limit = 3
INVARIANTS
    OvershootBounded
