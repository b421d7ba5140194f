SPECIFICATION Spec
CONSTANTS
    Bundles = {b1, b2}
    Ips = {ip1}
    Macs = {m1, m2}
    RifIds = {r1, r2, r3}
    NoRif = NoRif
    Empty = Empty
    Absent = Absent
INVARIANTS
    TypeOK
    EntriesAreCached
    CachedWasInstalled
    NoWrongMacUnlessMoved
SYMMETRY Interchangeable
