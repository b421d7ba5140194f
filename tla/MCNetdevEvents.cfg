SPECIFICATION Spec
CONSTANTS
    n1 = n1
    n2 = n2
    Netdevs = {n1, n2}
    ListHead = ListHead
    PortsMax = 4
    Layouts <- MCLayouts
    MaxEvents = 2
INVARIANTS
    TypeOK
    InternalHasNoPort
PROPERTIES
    ImplementsLinkEvents
    EventsAreHandled
CHECK_DEADLOCK FALSE
