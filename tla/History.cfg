SPECIFICATION HFairSpec
CONSTANTS
  Ports = {1, 2}
  LocalPorts = {1, 2, 3}
  Ephemeral = {3}
  SamePort = FALSE
  Grace = 2
  Flags <- Defaults
  Snaps <- AnySubset
  Pins = {}
  Labels = {}
  Saved <- SomeSaved
  Ops = {"pause", "try"}
  Talkative = {}
  Volatile = {1, 3}
  MaxSessions = 2
INVARIANTS
  PauseHoldsNewTunnels
  PauseKeepsCurrentTunnels
PROPERTIES
  ReconnectRestoresLocalPorts
  EntriesFollowTheScans
  WantedPortsRecover
