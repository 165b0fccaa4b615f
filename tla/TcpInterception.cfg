SPECIFICATION Spec
CONSTANTS
    c1 = c1
    c2 = c2
    t1 = t1
    t2 = t2
    t3 = t3
    Conn = {c1, c2}
    Task = {t1, t2, t3}
    MaxSlots = 3
    MaxSyn = 2
    Dests <- EdgeDests
    Anywhere = Anywhere
    None = None
SYMMETRY Symmetry
INVARIANTS
    TypeOK
    SocketOwnership
    ServesOwnDestination
    DirectIffPrivate
    SegmentsReachPeer
PROPERTIES
    SynAnswered
    OrphansExplained
