CONSTANTS
  None = None
  l1 = l1
  l2 = l2
  x = x
  y = y
  Casters = {m}
  Listeners <- TwoListeners
  Events <- TwoEvents
  Calls = {c1, c2}
  Supports <- SupportsXY
  OrderOf <- Orders
SPECIFICATION FairSpec
INVARIANTS
  Delivered
PROPERTIES
  Served
CHECK_DEADLOCK FALSE
