CONSTANTS
  None = None
  Servers = {s}
  Slavers = 2
  Fds = {3, 4}
  MaxConns = 3
  MaxUses = 1
  Talkers = {1}
  Socks = {1, 2, 3}
  MaxChunks = 2
SPECIFICATION Spec
INVARIANTS
  FdCustody
  CloseWaits
PROPERTIES
  Served
CHECK_DEADLOCK FALSE
