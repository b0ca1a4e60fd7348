CONSTANTS
  Kinds = {"simple", "rotating", "daily"}
  MaxFiles = 2
  MaxSize = 2
  LineSizes = {1, 3}
  Day = 3
  RotateAt = 1
  MaxLines <- LinesOf
  MaxStarts = 2
  MaxClock = 6
  Threads = {t1, t2}
  LoggerNames = {m, n}
  Levels = {0, 4}
  Warn = 4
  Patterns = {1}
  MaxLoggers = 5
  MaxMessages = 2
  MaxInits = 2
  MaxSets = 2
  Times <- SomeTimes
  MaxPattern = 5
  Families <- SomeInputs
  Letters = {"a", "b", "c", "d", "o", "p", "s", "x", "B", "X"}
  Bits = 8
  MaxPacked = 2
  Bytes = {0, 200}
  MaxKey = 7
  MaxChunk = 3
SYMMETRY Symmetry
SPECIFICATION Spec
INVARIANTS
  FilesKeep
  Routed
  WrittenOnce
  LineAsPattern
  FormatsAsMeant
  HashesAsMeant
CHECK_DEADLOCK FALSE
