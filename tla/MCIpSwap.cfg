SPECIFICATION Spec
CONSTANTS
    a1 = a1
    a1wide = a1wide
    a2 = a2
    d1 = d1
    Bundles = {b1}
    Addrs = {a1, a1wide, a2, d1}
    V6 = {d1}
    Ip <- MCIp
    Settings <- V4Settings
    SdkFails = FALSE
    None = None
INVARIANT
    AskedIsInstalled
