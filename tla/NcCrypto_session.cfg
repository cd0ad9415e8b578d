SPECIFICATION Spec
CONSTANTS
  p = p
  q = q
  Psks <- MCPsks
  CounterMax = 4
  WindowBits = 2
  HostKeys = {"known", "other"}
  Trusted = {"known"}
  MaxStarts = 3
SYMMETRY Symmetric
INVARIANTS
    WindowExact
    SessionsBound
PROPERTIES
    OpenedOnce
CHECK_DEADLOCK FALSE
