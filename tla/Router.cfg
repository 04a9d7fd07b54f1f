SPECIFICATION Spec
CONSTANTS
    Servers = {s1}
    Slash <- slash
    Urls <- MCUrls
    Methods = {"GET", "POST"}
    Unknown = "UNKNOWN"
    MaxOn = 2
    Asked <- MCFew
INVARIANTS
    TypeOK
    RoutesAsRegistered
    DefaultPagesClean
CHECK_DEADLOCK FALSE
