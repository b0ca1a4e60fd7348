CONSTANTS
  None = None
  Loops = {a, b}
  Externals = {m}
  CallGraph <- CrossGraph
  MaxItems = 1
SPECIFICATION FairSpec
PROPERTIES
  StopEventually
CHECK_DEADLOCK FALSE
