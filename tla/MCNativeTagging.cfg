SPECIFICATION Spec
CONSTANTS
    Ports = {p1, p2}
    Bundles = {b1, b2}
    Fallible = {p1}
    NoBundle = NoBundle
    NoCfg = NoCfg
    Vids <- MCVids
    Settings <- MCSettings
INVARIANT
    NativeVlanTakesPriority
