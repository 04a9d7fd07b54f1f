SPECIFICATION Spec
CONSTANTS
    s1 = s1
    s2 = s2
    Main = Main
    Servers <- MCServers
    Closers <- MainOnly
    MaxCloses = 1
PROPERTIES
    CloseBlocks
CHECK_DEADLOCK FALSE
