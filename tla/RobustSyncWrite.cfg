SPECIFICATION Spec
CONSTANTS
  TicksPerMs = 2
  Size = 3
  Timeout = 2
  Capacity = 2
  MaxFaults = 2
  MaxNow = 4
INVARIANTS
  TypeOK
  WireExact
  NoEarlyTimeout
PROPERTIES
  KeepsPromise
  Returns
CHECK_DEADLOCK FALSE
