\* Three threads, six calls: enough for an update decided on a value that is two updates old.
SPECIFICATION FairSpec
CONSTANTS
    Procs = {p1, p2, p3}
    Limit = 3
    MaxCalls = 6
CHECK_DEADLOCK FALSE
INVARIANTS
    NoLostUpdate
    IdleOnlyAtBound
PROPERTIES
    ImplementsCounter
    CallsReturn
