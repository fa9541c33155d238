SPECIFICATION Spec
CONSTANTS
  Conn = {plain, class3, safe}
  Kind <- Kinds
  MaxTransports = 2
  None = None
  plain = plain
  class3 = class3
  safe = safe
CHECK_DEADLOCK FALSE
INVARIANTS
  HandledAlive
  SilentWhenOver
  NothingLeft
PROPERTIES
  CloseEnds
