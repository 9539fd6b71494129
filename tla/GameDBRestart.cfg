SPECIFICATION Spec
CONSTANTS
  g1 = g1
  g2 = g2
  g3 = g3
  GameIds <- MCGameIds
  Period <- MCPeriod
  Rng <- MCRng
  Players = {p1, p2}
  NoPlayer = NoPlayer
  MaxStorageSize = 2
  MaxRestarts = 1
INVARIANT InvitationsReachHost
