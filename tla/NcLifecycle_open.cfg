SPECIFICATION FairSpec
CONSTANTS
  IdMod = 2
  MaxChan = 1
  CtrlCap = 4
  Types = {"reliable", "unreliable"}
  NetCap = 2
  MaxFaults = 1
  MaxMoves = 1
  MaxOpens <- MCMaxOpens
INVARIANTS
    SlotsExact
    Matched
    AcceptedByPeer
PROPERTIES
    Converges
    Follows
CHECK_DEADLOCK FALSE
