SPECIFICATION FairSpec
CONSTANTS
    Calls = {c1, c2, c3}
    MaxCalls = 2
    Batch = 2
    MaxJobs = 2
CHECK_DEADLOCK FALSE
INVARIANTS
    Inv
    BudgetBoundsRequests
    HandlesDisposedOnce
    DeadlockVerdictSound
    NoAnswerLostWhileRunning
PROPERTIES
    FrozenAfterReturn
    Termination
    ImplementsAbstract
