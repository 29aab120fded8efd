SPECIFICATION Spec
CONSTANTS
    Requests = {r1, r2, r3}
    Nobody = Nobody
    Urls <- MCUrls
    Stripped <- MCStripped
    HeaderSets <- MCHeaderSets
    Environments <- MCEnvironments
SYMMETRY Symmetric
CHECK_DEADLOCK FALSE
INVARIANTS
    Inv
    OneIntrospectionPerBox
    SpecOfOwnBox
PROPERTIES
    FailureNotInherited
