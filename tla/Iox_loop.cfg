SPECIFICATION FairSpec
CONSTANTS
  Fds = {"a", "b"}
  EventSets <- MCEventSets
  Signals = {"s", "t"}
  IOX_MAX_FDS = 3
  IOX_MAX_SIGNALS = 2
  SigRead = 1
  PipeCap = 2
  Scripts <- MCScripts
  Watches <- MCOneWatch
  Delays = {0}
  MaxOps = 2
  MaxSignals = 3
  MaxNow = 2
INVARIANTS
  RoundFaithful
PROPERTIES
  CallsWatched
  KeepsTime
  Served
CHECK_DEADLOCK FALSE
