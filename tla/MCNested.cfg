SPECIFICATION Spec
CONSTANTS
  NULL = NULL
  NaN = NaN
  RAISE = RAISE
  Number = {}
  Width = 5
  Likeness = {}
  Escapes = {}
  Tables <- MCTables
  Workloads <- MCNested
  MaxApplications = 15
INVARIANTS
  OnlyTheCorrelatedIsRefused
CHECK_DEADLOCK FALSE
