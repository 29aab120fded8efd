SPECIFICATION FairSpec
CONSTANTS
    TimeoutMs = 3
    ExecuteMs = 3
    TimerMax = 3
    RetryAfters <- MCRetryAfters
INVARIANTS
    Inv
    RepeatedOnlyIfRefused
    DataIsWhole
    OwnLimitAfterDeadline
PROPERTIES
    RetryHonoursServer
    CallSettles
    ImplementsCall
