SPECIFICATION Spec
CONSTANTS
    Conns = {c1}
    Ids <- MCIds
    NoId = NoId
    Scripts <- MCScripts
    MaxBody = 1
    MaxCalls = 2
INVARIANTS
    TypeOK
    DeletedIsQuiet
    ClosedOnce
    WriteDataAlive
    ResponseFramed
    ResponseFreed
    NeverForgotten
PROPERTIES
    NoCallAfterEnd
    FirstRequestFaithful
    AnsweredIsReleased
    EofIsReleased
    ImplementsObject
CHECK_DEADLOCK FALSE
