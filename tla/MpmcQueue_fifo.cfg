CONSTANTS
  None = None
  Producers = {p, q}
  Consumers = {c, d}
  Values = {x, y}
  Size = 2
  MaxItems = 3
SPECIFICATION Spec
INVARIANTS
  CellIsOwned
PROPERTIES
  IsFifo
CHECK_DEADLOCK FALSE
SYMMETRY Alike
