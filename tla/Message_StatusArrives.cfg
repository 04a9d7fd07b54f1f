SPECIFICATION Spec
CONSTANTS
    Names = {"test-header"}
    MaxBody = 2
    Nothing = Nothing
PROPERTIES
    StatusArrives
CHECK_DEADLOCK FALSE
