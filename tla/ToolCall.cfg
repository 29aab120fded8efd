SPECIFICATION FairSpec
CONSTANTS
    Calls = {c1, c2, c3}
    MaxCalls = 2
    MaxLogEntries = 2
    MaxLogSize = 2
    MaxDepth = 2
    Sizes = {0, 1, 3}
CHECK_DEADLOCK FALSE
INVARIANTS
    Inv
    ConsoleBounded
    CutsAreAnnounced
    AcceptedWithinBudget
    AnswerAccountsForRun
PROPERTIES
    CallAnswered
