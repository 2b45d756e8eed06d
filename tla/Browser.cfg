SPECIFICATION FairSpec
CONSTANTS
  Bridges = {a, b}
  Calls = {c}
  Nobody = Nobody
CHECK_DEADLOCK FALSE
INVARIANTS
  OkMeansOpened
  OnlyItsOwnRequests
  NothingOutlivesClose
PROPERTIES
  CloseReturns
  SkippedPortsAreForwarded
