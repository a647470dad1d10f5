SPECIFICATION Spec
CONSTANTS
    any = any
    recipes = recipes
    ab = ab
    ba = ba
    sequence = sequence
    Names <- MCNames
    NoName = NoName
    AnyName = any
    Canon <- MCCanon
    MaxPtr = 3
    MaxSessions = 3
INVARIANTS
    CompileRoundTrip
    PtrKeysCurrent
    FirstUploadExact
PROPERTIES
    NamesKeepPointers
    TryContextIdempotent
CHECK_DEADLOCK FALSE
