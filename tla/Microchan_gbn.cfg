SPECIFICATION FairSpec
CONSTANTS
  SeqMod = 6
  First = 5
  Window = 2
  RecvQ = 1
  UnrelTxQ = 1
  PerPacket = 2
  Attempts = 1
  Retries = 0
  MaxAge = 2
  NetCap = 2
  MaxRare = 1
  Reliable = {"r"}
  Unreliable = {"u"}
  MaxWrites <- MCMaxWrites
INVARIANTS
    WindowSound
PROPERTIES
    KeepsPromise
    Settles
CHECK_DEADLOCK FALSE
