SPECIFICATION Spec
CONSTANTS
    ChanType = "RELIABLE"
    SeqMod = 8
    OutSlots = 4
    RecvSlots = 4
    ReorderSlots = 4
    FragSlots = 1
    PoolBufs = 4
    EvSlots = 1
    MaxFrags = 1
    MaxMsg = 1
    MaxAttempts = 2
    Window = 4
    FlightMod = 16
    Lens = {1}
    ReadSizes = {1}
    MaxWrites = 2
    MaxAge = 8
INVARIANT
    AckMeansReceived
CHECK_DEADLOCK FALSE
