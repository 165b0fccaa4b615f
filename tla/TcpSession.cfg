SPECIFICATION FairSpec
CONSTANTS
    RxCap = 2
    TxCap = 2
    MaxSeg = 3
INVARIANTS
    TypeOK
    NoLostWakeup
    EndsComplete
PROPERTIES
    DeliversUp
    DeliversDown
    HalfClosedEnds
    WindowReopens
    ClosedSessionEnds
