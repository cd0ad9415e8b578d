SPECIFICATION FairSpec
CONSTANTS
    Retries = 2
    RetryTicks = 1
    PingTicks = 1
    IdleTicks = 1
    CtrlSlots = 2
    EvSlots = 3
    Opaques = {}
    MaxNet = 3
    MaxLoss = 0
    MaxDup = 1
    Timely = FALSE
INVARIANTS
    TypeOK
    AcceptedFirst
    ServerGoneOnce
PROPERTIES
    ConnectDecides
    VanishedNoticed
CHECK_DEADLOCK FALSE
