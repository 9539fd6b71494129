SPECIFICATION Spec
CONSTANTS
  Base = 8
  V6Len = 3
  GameIds = {0, 10}
  Ports = {19}
  ForeignBytes = {0, 1, 7}
  MaxFrames = 2
INVARIANTS
  TypeOK
  StaysFramed
  DeliversWhatWasSent
  FailureIsReal
  AcceptedIsCanonical
  PortsInNetworkOrder
CHECK_DEADLOCK FALSE
