SPECIFICATION Spec
CONSTANTS
    Tx <- MCTx
    Key = {k1}
    None = None
    MaxPieces = 12
    MaxFaults = 1
    MaxCrashes = 1
INVARIANTS
    TypeOK CommitDurable CommitAtomic
CHECK_DEADLOCK FALSE
