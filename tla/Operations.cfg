SPECIFICATION MSpec
CONSTANTS
  Ports = {1}
  LocalPorts = {1, 3, 4}
  Ephemeral = {4}
  SamePort = FALSE
  Grace = 1
  Flags <- Defaults
  Snaps <- AnySubset
  Pins = {3}
  Labels = {}
  Saved <- NothingSaved
  Ops = {"mode", "pin", "label", "scheme", "pause", "forward"}
  Talkative = {1}
  Volatile = {1}
  MaxSessions = 2
INVARIANTS
  TunnelsUseTheLiveLink
  EveryEntrySettled
  ExemptionsEndWithThePause
  OffIsFinal
  OnlyChosenSchemesAreRemembered
