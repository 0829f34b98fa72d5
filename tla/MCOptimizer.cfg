SPECIFICATION Spec
CONSTANTS
  NULL = NULL
  NaN = NaN
  RAISE = RAISE
  Number = {}
  Width = 5
  Likeness = {}
  Escapes = {}
  Tables <- MCTables
  Workloads <- MCWorkloads
  MaxApplications = 15
INVARIANTS
  ColumnsResolve
  AnswerKept
  OnlyTheCorrelatedIsRefused
  SubqueriesAreEvaluated
  ReachesAFixpoint
CHECK_DEADLOCK FALSE
