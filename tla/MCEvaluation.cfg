SPECIFICATION EvaluationSpec
CONSTANTS
  NULL = NULL
  NaN = NaN
  RAISE = RAISE
  Number <- MCNumber
  Width = 2
  Likeness <- MCLikeness
  Escapes <- MCEscapes
  Jobs <- MCJobs
  W = 4
  BLOCK = 2
  RunShare = 2
  Type <- MCType
  Cells <- MCCells
  Literals <- MCLiterals
  MaxRows = 5
  AllNull = FALSE
INVARIANTS
  EvaluatorsAgree
  RaisesOnlyIfItCan
  DecodeRestores
  CanMatchKeepsEveryMatch
  EvaluateAgrees
CHECK_DEADLOCK FALSE
