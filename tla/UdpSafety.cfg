SPECIFICATION Spec
CONSTANTS
    a1 = a1
    a2 = a2
    d1 = d1
    d2 = d2
    k1 = k1
    k2 = k2
    Task <- MCTask
    TunnelAddr = TunnelAddr
    NoDst = NoDst
    NoDgram = NoDgram
    NoTask = NoTask
    GoneTask = GoneTask
    Src <- MCSrc
    Dst <- MCDst
    Private = {d1}
    MaxSlots = 2
    RxCap = 2
    TxCap = 1
SYMMETRY MixedSymmetry
INVARIANTS
    TypeOK
    SocketOwnership
    SessionTable
    NoLostWakeup
PROPERTY
    ImplementsRelay
