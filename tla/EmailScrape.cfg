CONSTANTS
    N = 4
    Concurrency = 2
    FlushEvery = 2
    DBErrors = TRUE
    MayCrash = TRUE
SPECIFICATION FairJobSpec
INVARIANTS GivenOnce RowTellsTruth
PROPERTIES ImplementsContract JobCloses
CHECK_DEADLOCK FALSE
