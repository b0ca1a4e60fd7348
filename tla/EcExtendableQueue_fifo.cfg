CONSTANTS
  Capacity = 2
  Values = {u, v}
  Unset = Unset
  Word = 16
  MaxItems = 5
SPECIFICATION ExtSpec
INVARIANTS
  AnswersKeep
PROPERTIES
  IsFifo
  WholeIsFifo
  TakenEventually
CHECK_DEADLOCK FALSE
