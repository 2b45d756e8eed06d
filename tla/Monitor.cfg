SPECIFICATION FairSpec
CONSTANTS
  Pids = {1, 2}
  Tools = {"ss", "proc"}
  Listings <- SomeListings
  MaxScans = 2
INVARIANTS
  ScansArriveWhole
  LookupsDoNotOverlap
  ResultsNameTheCause
PROPERTIES
  ScansAskForNames
  RunReturns
