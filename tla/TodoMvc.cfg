SPECIFICATION FairSpec
CONSTANTS
    Titles = {"A", "B"}
    MaxItems = 3
    MaxLosses = 1
CHECK_DEADLOCK FALSE
INVARIANTS
    IInv
    Conforms
PROPERTIES
    ActionsReturn
