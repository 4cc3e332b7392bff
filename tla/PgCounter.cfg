SPECIFICATION Spec
CONSTANTS
    NumSessions = 3
    Callers = {c1, c2}
    Max = 2
    DemoMax = 1
SYMMETRY Symmetry
CHECK_DEADLOCK FALSE
INVARIANTS
    IInv
    OwnCount
    Cleaned
