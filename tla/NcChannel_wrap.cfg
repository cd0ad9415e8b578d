SPECIFICATION Spec
CONSTANTS
    ChanType = "RELIABLE"
    SeqMod = 8
    OutSlots = 4
    RecvSlots = 20
    ReorderSlots = 4
    FragSlots = 1
    PoolBufs = 9
    EvSlots = 2
    MaxFrags = 1
    MaxMsg = 1
    MaxAttempts = 1
    Window = 3
    FlightMod = 16
    Lens = {1}
    ReadSizes = {}
    MaxWrites = 10
    MaxAge = 3
INVARIANTS
    OrderedOnce
    KeptUntilPassed
CHECK_DEADLOCK FALSE
