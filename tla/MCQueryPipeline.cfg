SPECIFICATION Spec
CONSTANTS
  G <- MCG
  Starts <- MCStarts
  BatchSize = 2
  Skips <- MCSkips
  Fetches <- MCFetches
  NoFetch = NoFetch
  Queries <- MCQueries
INVARIANTS
  VerdictsMatchCounters
  LimitReadsNoFurther
PROPERTIES
  AnswersTheQuery
  Terminates
CHECK_DEADLOCK FALSE
