SPECIFICATION Spec
CONSTANTS
    Retries = 2
    RetryTicks = 1
    PingTicks = 1
    IdleTicks = 3
    CtrlSlots = 3
    EvSlots = 3
    Opaques = {1,2}
    MaxNet = 4
    MaxLoss = 0
    MaxDup = 0
    Timely = TRUE
PROPERTIES
    NoFalseTimeout
CHECK_DEADLOCK FALSE
