SPECIFICATION Spec
CONSTANTS
    Names = {"test-header"}
    MaxBody = 3
    Nothing = Nothing
INVARIANTS
    TypeOK
PROPERTIES
    ArrivesIntact
CHECK_DEADLOCK FALSE
