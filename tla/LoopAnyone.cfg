SPECIFICATION Spec
CONSTANTS
    s1 = s1
    s2 = s2
    Main = Main
    Servers <- MCServers
    Closers <- Anyone
    MaxCloses = 1
INVARIANTS
    TypeOK
    ReturnsClosed
PROPERTIES
    RacingCloseTakesEffect
CHECK_DEADLOCK FALSE
