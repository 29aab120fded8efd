SPECIFICATION Spec
CONSTANTS
    Clients = {a, b}
    WindowMs = 2
    MaxRequests = 2
    MaxTime = 6
INVARIANTS
    Inv
    SlidingBound
PROPERTIES
    ImplementsSlidingWindow
