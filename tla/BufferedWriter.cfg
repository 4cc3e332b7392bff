SPECIFICATION Spec
CONSTANTS
    Procs = {p1, p2}
    None = None
    MaxItems = 4
SYMMETRY Symmetry
INVARIANTS
    IInv
    NothingForgotten
    SnapshotSound
PROPERTIES
    ImplementsWriter
