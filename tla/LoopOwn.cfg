SPECIFICATION Spec
CONSTANTS
    s1 = s1
    s2 = s2
    Main = Main
    Servers <- MCServers
    Closers <- OwnOnly
    MaxCloses = 1
INVARIANTS
    ClosedOnce
PROPERTIES
    CloseTakesEffect
CHECK_DEADLOCK FALSE
