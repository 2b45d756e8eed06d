SPECIFICATION ProgramFairSpec
CONSTANTS
  Bridges = {b}
  Calls = {c}
  Nobody = Nobody
CHECK_DEADLOCK FALSE
PROPERTY RequestsAreBounded
