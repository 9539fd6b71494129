SPECIFICATION Spec
CONSTANTS
  TicksPerMs = 2
  Size = 3
  Timeout = 2
  StreamLen = 4
  MaxFaults = 2
  MaxNow = 4
INVARIANTS
  TypeOK
  ExactPrefix
  DrainedBeforeEnd
  NoEarlyTimeout
PROPERTIES
  KeepsPromise
  CancelUnblocks
  Returns
CHECK_DEADLOCK FALSE
