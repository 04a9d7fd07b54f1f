SPECIFICATION Spec
CONSTANTS
    Conns = {c1}
    Ids <- MCIds
    NoId = NoId
    Scripts <- MCScripts
    MaxBody = 1
    MaxCalls = 1
INVARIANTS
    FreesOnlyResponses
CHECK_DEADLOCK FALSE
