SPECIFICATION FairSpec
CONSTANTS
    Table = {a}
    emptyKey = emptyKey
    otherKey = otherKey
    whole = whole
    ragged = ragged
    Key = {emptyKey, otherKey}
    EmptyKey = emptyKey
    Value = {whole, ragged}
    Batch <- Batches
    Verdict <- Verdicts
    Session = {s1, s2}
    None = None
    PageCap = 2
    IndexCap = 2
    MaxTx = 3
    MaxTime = 2
    MaxPages = 8
    MaxLog = 12
    MaxChain = 8
    MaxFaults = 1
    MaxCrashes = 0
    MaxStmts = 4
INVARIANTS
    TypeOK
    SessionsOwnTransactions
    ActiveAccounted
    StatementsAtomic
    AckedRowsSelected
PROPERTIES
    EngineDriven
    SelectsUndisturbed
    LockReleased
CHECK_DEADLOCK FALSE
VIEW WithoutLog
