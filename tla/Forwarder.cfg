SPECIFICATION PoliteSpec
CONSTANTS
  Clients = {1, 2}
  Silent = {2}
  Pieces = {"tls", "plain"}
  MaxReply = 2
INVARIANTS
  TypeOK
  RepliesArriveIntact
  NothingOutlivesTheDrain
PROPERTIES
  RequestsAreAnswered
  ClosingEnds
CHECK_DEADLOCK FALSE
