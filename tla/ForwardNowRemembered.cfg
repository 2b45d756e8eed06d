SPECIFICATION MSpec
CONSTANTS
  Ports = {1}
  LocalPorts = {1, 2, 3, 4}
  Ephemeral = {3, 4}
  SamePort = FALSE
  Grace = 2
  Flags <- Defaults
  Snaps <- Everything
  Pins = {}
  Labels = {"web"}
  Saved <- NothingSaved
  Ops = {"forward", "label"}
  Talkative = {}
  Volatile = {}
  MaxSessions = 1
PROPERTY
  OnlyChosenModesAreRemembered
