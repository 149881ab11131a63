CONSTANTS
    c1 = c1
    c2 = c2
    p1 = p1
    p2 = p2
    p3 = p3
    p4 = p4
    Monitor = Monitor
    None = None
    Client <- TwoClients
    Port <- FourPorts
    Threshold = 2
SPECIFICATION FairSpec
PROPERTIES
    BrokenIsReplaced
    BlipIsSpared
CHECK_DEADLOCK FALSE
