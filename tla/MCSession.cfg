CONSTANTS
    Datasets <- MCDatasets
    Collections <- MCCollections
    TablesOf <- MCTablesOf
    Size <- MCSize
    Examples <- MCExamples
    Sqls <- MCSqls
    Parses <- MCParses
    Builds <- MCBuilds
    Needs <- MCNeeds
    Batches <- MCBatches
    Breaks <- MCBreaks
    Damaged <- MCDamaged
    Cap = 2
    StreamAbove = 3
    ProbeFits <- MCNoProbeFits
    MaxIds = 16
    MaxClicks = 2
SPECIFICATION Spec
CHECK_DEADLOCK FALSE
INVARIANTS CopyIsCurrent DrawnIsTheAnswer PanelsAgree
PROPERTIES AnswersOnce EveryRequestSettles
