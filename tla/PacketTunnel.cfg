SPECIFICATION FairSpec
CONSTANTS
    c1 = c1
    c2 = c2
    b1 = b1
    b2 = b2
    l1 = l1
    l2 = l2
    Nil = Nil
    Core <- MCCore
    Bridge <- MCBridge
    Loop <- MCLoop
    MaxBatch = 2
INVARIANTS
    TypeOK
    CallbackIntoLiveBridge
    BridgeAccounting
    
    ProviderUsesLiveCore
    RunningCoreWired

    
