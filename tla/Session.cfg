SPECIFICATION Spec
CONSTANTS
  Clients = {host, guest, rival}
  GameIds = {g1, g2}
  NoPlayer = NoPlayer
  MaxStorageSize = 2
  Repaired = {"bind", "dispatch"}
  MaxLosses = 1
  MaxRestarts = 1
INVARIANTS
  TypeOK
  BeliefIsSeat
  HostAwaitsItsGuest
  AnswersInOrder
CHECK_DEADLOCK FALSE
PROPERTIES
  HandlersAsDeclared
