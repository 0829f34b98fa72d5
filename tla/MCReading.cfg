\* Expressions of three levels, statements with every clause, lines of four tokens.
SPECIFICATION Spec
CONSTANTS
  NULL = NULL
  NaN = NaN
  RAISE = RAISE
  Number = {}
  Width = 4
  Likeness <- MCLikeness
  Escapes <- MCEscapes
  Tables <- MCTables
  Schemas <- MCSchemas
  Statements <- MCStatements
  Lines <- MCLines
INVARIANTS ReadsBack NothingIsLost BindsWhatIsMeant
CHECK_DEADLOCK FALSE
