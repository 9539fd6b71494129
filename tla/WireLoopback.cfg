SPECIFICATION Spec
CONSTANTS
  Base = 8
  V6Len = 3
  GameIds = {0, 10}
  Ports = {19}
  ForeignBytes = {0, 1, 7}
  MaxFrames = 1
INVARIANT LoopbackInNetworkOrder
CHECK_DEADLOCK FALSE
