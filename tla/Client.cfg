SPECIFICATION ClientSpec
CONSTANTS
    Conns = {c1, c2}
    Lookups = {l1, l2}
    MaxReads = 2
    Failures = {"uv_tcp_connect", "connection", "uv_read_start"}
INVARIANTS
    ClientTypeOK
    DeletedIsQuiet
    ClosedOnce
    WriteDataAlive
    BufferFreedOnce
PROPERTIES
    ImplementsObject
    OneReadIsReleased
    RunReturns
    ReturnReleases
CHECK_DEADLOCK FALSE
