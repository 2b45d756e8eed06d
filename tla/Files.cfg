SPECIFICATION MCSpec
CONSTANTS
  Programs = {p, q}
  KeyTypes = {"ecdsa", "ssh-rsa"}
  Versions = {v1, v2}
\* The programs may all have ended for good.
CHECK_DEADLOCK FALSE
SYMMETRY Symmetry
INVARIANTS
  KnownHostsReconnect
  OneKeyOfAType
PROPERTIES
  OnlyChoicesAreSaved
  SavingIsAtomic
  TrustIsRecorded
