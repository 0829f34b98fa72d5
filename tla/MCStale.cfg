SPECIFICATION PruningSpec
CONSTANTS
  NULL = NULL
  NaN = NaN
  Number <- MCNumber
  Class <- MCClass
  HashBits <- MCHashBits
  Scanned <- MCScanned
  ClassOf <- MCClassOf
  RowCounts <- MCRowCounts
  Stats <- MCStats
  Literals <- MCLiterals
  ItemLists <- MCItemLists
  MaxDepth = 2
  NODE_CAPACITY = 2
  Keys = {1, 2, 3, 4, 5, NULL}
  Probes = {2, 4}
  MaxRows = 6
  Name = {"t", "u"}
  Version <- MCVersion
  Content <- MCContent
  Column <- MCColumn
  Predicates <- MCPredicates
  Stream = {"s"}
  Cap = 2
  BatchSize = 1
INVARIANTS
  IndexNeverDecides
CHECK_DEADLOCK FALSE
