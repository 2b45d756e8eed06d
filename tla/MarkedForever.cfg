SPECIFICATION Spec
CONSTANTS
  Pids = {1, 2}
  Tools = {"ss", "proc"}
  Listings <- SomeListings
  MaxScans = 2
INVARIANT
  MarkedProcessesAreAwaited
