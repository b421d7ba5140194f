SPECIFICATION MCSpec
CONSTANTS
    Speeds = {10, 40}
    Mtus = {15, 90}
    PauseModes = {"disable", "rx_only"}
    HasPause = TRUE
    PowerOn <- MCPowerOn
    Requests <- MCRequests
    SdkFails = TRUE
    OtherWriters = TRUE
    Ports = {p1, p2, p3}
    Fallible = {p1, p2}
    u1 = u1
    Unsupported = {u1}
    HashRequests <- MCHashRequests
    MaxRecent = 3
INVARIANTS
    TypeOK
    CacheIsTrue
    RequestInForce
    HashTypeOK
    SuccessHeals
    NoMixture
PROPERTIES
    FailureKeepsAdminState
