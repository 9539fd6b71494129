SPECIFICATION Spec
CONSTANTS
  TicksPerMs = 2
  Addresses = {expected, stranger}
  Expected = expected
  Timeout = 2
  MaxConns = 2
  MaxFaults = 2
  MaxNow = 4
INVARIANTS
  TypeOK
  OnlyExpectedPeer
  DescriptorsAccounted
  NoEarlyTimeout
PROPERTIES
  WaitEnds
CHECK_DEADLOCK FALSE
