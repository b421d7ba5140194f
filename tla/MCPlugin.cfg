SPECIFICATION Spec
CONSTANTS
    v1 = v1
    v2 = v2
    br = br
    h1 = h1
    h2 = h2
    e1 = e1
    e2 = e2
    Vrfs = {v1, v2}
    Bridges = {br}
    Vrids = {0, 1}
    IpPrefixes = {"p"}
    Hops = {h1, h2}
    HopsMax = 1
    NoTable = NoTable
    GroupsMax = 12
    SaiGroups = {0}
    None = None
    PortNames = {e1, e2}
INVARIANTS
    TypeOK
    TrapsPoliced
    UndefinedOnlyAfterFailure
PROPERTIES
    ImplementsRouteTables
    DumpCompletes
CHECK_DEADLOCK FALSE
