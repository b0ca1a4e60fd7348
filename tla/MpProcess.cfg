CONSTANTS
  None = None
  main = main
  chld = chld
  Threads <- MainThread
  Handlers <- Handler1
  Host <- OnMain
  Objects = {o1, o2}
  BufSize = 2
  Lengths = {1, 3}
  MaxLogs = 5
  Forks = 2
  Severity = 5
SPECIFICATION Spec
INVARIANTS
  Complete
PROPERTIES
  Reaped
CHECK_DEADLOCK FALSE
