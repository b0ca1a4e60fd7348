CONSTANTS
  Starters = {"loop"}
  Rounds = {0, 1, 2}
  Forever = 4
  MaxTimes = 3
  Socks = {a, b}
  LoopOf <- OneLoop
  Fds = {3, 4}
  MaxConnects = 3
  MaxChunks = 1
  Dispatchers = 3
  Conns = {c1, c2}
  Paths = {"", "/"}
  Scripts <- SomeScripts
  BufSize = 1
  MaxHandlers = 2
  Zones <- SomeZones
  Dates <- SomeDates
  Wdays = {0, 3}
  Numbers <- SomeNumbers
  MaxDateOps = 2
  Base = 2
  MaxPuts = 2
SPECIFICATION Spec
INVARIANTS
  RoundsExact
  OneAtATime
  WaitJoinsAll
  HttpAnswers
  
  RoundTrip
PROPERTIES
  AllRounds
CHECK_DEADLOCK FALSE
