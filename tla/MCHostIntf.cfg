SPECIFICATION Spec
CONSTANTS
    p1 = p1
    p2 = p2
    v1 = v1
    br = br
    Names = {p1, p2, v1, br}
    Kind <- MCKind
    Handle <- MCHandle
    Fallible = {p1, v1}
    None = None
INVARIANTS
    TypeOK
    TableIsTrue
    ReadyHasEntry
    DeviceFitsUse
PROPERTIES
    OnlyBridgesAbort
CHECK_DEADLOCK FALSE
