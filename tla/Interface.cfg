SPECIFICATION Spec
CONSTANTS
  Ports = {1, 2, 3}
  Queries = {"", "w"}
  Numbers = {}
  Snaps <- SomeSnaps
  SortKeys <- TwoKeys
  MenuKeys <- OneKey
  Sizes <- TwoSizes
  Frames = {1}
INVARIANTS
  SelectionIsVisible
  OneDialogAtATime
PROPERTIES
  SelectionFollowsItsPort
  AnswersHitTheirPort
