SPECIFICATION Spec
CONSTANTS
  NULL = NULL
  NaN = NaN
  RAISE = RAISE
  Number = {}
  Width = 5
  Likeness = {}
  Escapes = {}
  Tables <- MCTables
  Workloads <- MCTolerant
  MaxApplications = 15
INVARIANTS
  AnswerKept
CHECK_DEADLOCK FALSE
