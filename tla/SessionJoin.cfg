SPECIFICATION Spec
CONSTANTS
  Clients = {host, guest}
  GameIds = {g1}
  NoPlayer = NoPlayer
  MaxStorageSize = 1
  Repaired = {"bind"}
  MaxLosses = 0
  MaxRestarts = 0
PROPERTY SuccessMeansJoined
CHECK_DEADLOCK FALSE
