SPECIFICATION Spec
CONSTANTS
    Key <- Keys
    JunkKey <- Junk
    Stray <- StrayIds
    MaxKeys = 2
    None = None
    MaxInserts = 7
    MaxFaults = 1
INVARIANTS
    TypeOK
    NoPanic
    DataPagesKept
    Routed
    EntriesKept
CHECK_DEADLOCK FALSE
