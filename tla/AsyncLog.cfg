CONSTANTS
  Clients = {a, b}
  Size = 2
  MaxMsgs = 3
SPECIFICATION Spec
INVARIANTS
  Drained
PROPERTIES
  CallsReturn
  FlushReaches
CHECK_DEADLOCK FALSE
