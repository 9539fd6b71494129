SPECIFICATION Spec
CONSTANTS
  Clients = {host, guest}
  GameIds = {g1, g2}
  NoPlayer = NoPlayer
  MaxStorageSize = 1
  Repaired = {"bind", "dispatch"}
  MaxLosses = 1
  MaxRestarts = 1
PROPERTY NobodyWaitsForEver
CHECK_DEADLOCK FALSE
