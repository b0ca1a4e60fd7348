CONSTANTS
  None = None
  Loops = {a, b}
  Externals = {}
  CallGraph <- AnyGraph
  MaxItems = 2
SPECIFICATION Spec
SYMMETRY LoopSymmetry
INVARIANTS
  Custody
  InOrder
  PendingExact
CHECK_DEADLOCK FALSE
