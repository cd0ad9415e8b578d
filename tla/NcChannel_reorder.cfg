SPECIFICATION FairSpec
CONSTANTS
    ChanType = "RELIABLE"
    SeqMod = 8
    OutSlots = 3
    RecvSlots = 3
    ReorderSlots = 2
    FragSlots = 1
    PoolBufs = 3
    EvSlots = 1
    MaxFrags = 2
    MaxMsg = 2
    MaxAttempts = 2
    Window = 3
    FlightMod = 16
    Lens = {1, 2}
    ReadSizes = {1, 2}
    MaxWrites = 2
    MaxAge = 8
INVARIANTS
    TypeOK
    FlightCounted
    ReorderWindow
    Integrity
    PoolConserved
PROPERTIES
    Settles
CHECK_DEADLOCK FALSE
