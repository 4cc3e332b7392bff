SPECIFICATION FaultySpec
CONSTANTS
    Procs = {p1, p2, p3}
    Keys = {k1, k2}
    None = None
    MaxWrites = 3
SYMMETRY Symmetry
INVARIANTS
    IInv
    GetLinearizableUnlessSkipped
    FlushDurableUnlessFailed
    MemoryNotBehindRemote
    LossConfinedToFailedFlush
PROPERTIES
    DurableNeverRegresses
