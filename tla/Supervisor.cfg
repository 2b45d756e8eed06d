SPECIFICATION FairSpec
CONSTANTS
  MaxSessions = 2
  Misses = 2
  BackoffStart = 1
  BackoffMax = 30
  MaxAttempts = 5
  Browser = TRUE
INVARIANTS
  NoConnectionLeaks
  BridgeAsksOverTheLink
  WaitsFollowTheAttempts
PROPERTIES
  KeepsThePromise
  LostLinksAreReplaced
  QuittingEnds
