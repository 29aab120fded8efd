SPECIFICATION Spec
CONSTANTS
    Requests = {r1, r2, r3}
    Nobody = Nobody
    Clients = {a, b}
    HeaderSets <- MCHeaderSets
    Environments <- MCEnvironments
    WindowMs = 1
    MaxRequests = 1
    MaxTime = 2
SYMMETRY Symmetric
CHECK_DEADLOCK FALSE
INVARIANTS
    Inv
    TenantIsolated
    CredsFromOneSource
    QuotaPaidByReached
    StatsAddUp
