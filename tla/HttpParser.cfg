SPECIFICATION Spec
CONSTANTS
    Types = {"HTTP_REQUEST", "HTTP_RESPONSE"}
    Codes = {10, 101}
    Digits = {0, 1, 15}
    MaxLength = 32
    MaxBuffer = 2
    Outcomes = {"OK", "PAUSED", "CB_FAILED"}
INVARIANTS
    TypeOK
    Assertions
    LengthExact
    BodyDelivered
    EndsWithOwnByte
    FramedOnce
    LineDelivered
PROPERTIES
    MessagesInOrder
    MethodExact
CHECK_DEADLOCK FALSE
