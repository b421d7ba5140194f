SPECIFICATION Spec
CONSTANTS
    p1 = p1
    v1 = v1
    lo = lo
    Ports = {p1, v1, lo}
    Bundles = {b1, b2}
    Prefixes = {x1}
    RifIds = {r1, r2}
    Kind <- MCKind
    HwId <- MCHwId
    Settings <- MCSettings
    SdkFails = FALSE
    MaxCopies = 2
    None = None
    Freed = Freed
INVARIANT
    NoStatisticsOfFreed
CHECK_DEADLOCK FALSE
