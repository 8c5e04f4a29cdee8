CONSTANTS
    q1 = q1
    q2 = q2
    b1 = b1
    b2 = b2
    Queries <- MCQueries
    Bindings <- MCBindings
    TPChoices <- MCTPChoices
    InitialDbs <- MCInitialDbs
    AnswerChoices <- MCAnswers
    DbCanFail = TRUE
    StmtCanFail = FALSE
    MaxRowId = 3
    CsvLength = 2
    CsvFiles <- MCCsvFiles
    CacheSize = 1
    TimeoutTicks = 1
    CheckInterval = 2
    MaxClock = 4
    DistinctQueries <- MCDistinct

SPECIFICATION Spec

INVARIANT HandlesHeldByLivePackages


\* The loop ends after the last CSV line (std::raise(SIGINT)).
CHECK_DEADLOCK FALSE
