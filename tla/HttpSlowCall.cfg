SPECIFICATION Spec
CONSTANTS
    TimeoutMs = 2
    ExecuteMs = 4
    TimerMax = 3
    RetryAfters <- MCRetryAfters
INVARIANTS
    LongCallsMayUseTheDeadline
