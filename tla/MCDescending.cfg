SPECIFICATION Spec
CONSTANTS
  NULL = NULL
  NaN = NaN
  Number <- MCNumber
  Inputs <- MCDescending
  BatchSize = 2
  DecimalShift = 2
  Representable <- MCRepresentable
  Int64 <- MCInt64
INVARIANT
  EveryJoinAgrees
CHECK_DEADLOCK FALSE
