SPECIFICATION Spec
CONSTANTS
  Clients = {1, 2}
  Silent = {}
  Pieces = {"tls", "plain"}
  MaxReply = 2
INVARIANT
  ConclusiveRepliesAreReported
CHECK_DEADLOCK FALSE
