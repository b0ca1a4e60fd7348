CONSTANTS
  None = None
  Loops = {a}
  Externals = {m}
  CallGraph <- SelfGraph
  MaxItems = 3
SPECIFICATION FairSpec
INVARIANTS
  PendingIsUnfinished
PROPERTIES
  StopWaits
  StopEventually
  HandledEventually
CHECK_DEADLOCK FALSE
