SPECIFICATION FairSpec
CONSTANTS
    Procs = {p1, p2}
    Keys = {k1, k2}
    None = None
    MaxWrites = 3
    MaxFaultyWrites = 2
INVARIANTS
    IInv
    LossConfinedToWrite
    GetNotBehindDurable
    MemoryGetFresh
    FlushDurable
PROPERTIES
    DurableNeverRegresses
    ImplementsStore
    DurableRead
