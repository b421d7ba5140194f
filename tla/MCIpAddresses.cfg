SPECIFICATION Spec
CONSTANTS
    a1 = a1
    a1wide = a1wide
    a2 = a2
    d1 = d1
    Bundles = {b1, b2}
    Addrs = {a1, a1wide, a2, d1}
    V6 = {d1}
    Ip <- MCIp
    Settings <- MCSettings
    SdkFails = TRUE
    None = None
INVARIANTS
    TypeOK
    NoStrayTrap
    RecordedIsInstalled
PROPERTIES
    KeptAddressStays
SYMMETRY Interchangeable
