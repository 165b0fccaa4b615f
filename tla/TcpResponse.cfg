SPECIFICATION Spec
CONSTANTS
    RxCap = 1
    TxCap = 1
    MaxSeg = 2
INVARIANT
    ResponseDelivered
