SPECIFICATION Spec
CONSTANTS
    None = None
    IntBits = 2
    Schemas <- MCSchemas
    ColumnLists <- MCColumnLists
    Batches <- MCBatches
    Queries <- MCQueries
    MaxRows = 2
INVARIANTS
    TypeOK
    KeyIdentifiesRow
    DecodesToBoolean
    PanicsExplained
    SelectCorrect
CHECK_DEADLOCK FALSE
