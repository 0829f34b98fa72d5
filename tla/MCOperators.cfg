SPECIFICATION Spec
CONSTANTS
  NULL = NULL
  NaN = NaN
  Number <- MCNumber
  Inputs <- MCInputs
  BatchSize = 2
  DecimalShift = 2
  Representable <- MCRepresentable
  Int64 <- MCInt64
INVARIANTS
  ReturnsTheJoin
  NothingBehindIsWanted
  SortReturnsTheAnswer
  HeapHoldsTheBest
  AggregateReturnsTheAnswer
  SetStreamsTheAnswer
  WindowReturnsTheAnswer
PROPERTY
  Terminates
CHECK_DEADLOCK FALSE
