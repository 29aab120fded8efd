SPECIFICATION Spec
CONSTANTS
    ReservedWords <- MCReservedWords
    NameRank <- MCNameRank
    Schemas <- MCSchemas
    ArgChoices <- MCArgChoices
    NotAnObject = NotAnObject
    HitSets <- MCHitSets
    Limits <- MCLimits
INVARIANTS
    EveryFieldHasItsMethod
    MethodCallsItsOperation
    SelectionFitsType
    SearchKeepsTheBest
