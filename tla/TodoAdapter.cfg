SPECIFICATION FairSpec
CONSTANTS
    Values = {"A", "B"}
    MaxTodos = 2
    MaxActions = 4
    MaxRuns = 3
CHECK_DEADLOCK FALSE
INVARIANTS
    IInv
    Conforms
    AnswersConform
PROPERTIES
    NoWaitInVain
