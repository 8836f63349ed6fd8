SPECIFICATION Spec
CONSTANTS
    Tx <- MCTx
    Key = {k1}
    None = None
    MaxPieces = 12
    MaxFaults = 0
    MaxCrashes = 0
INVARIANTS
    CommittedReplayable
CHECK_DEADLOCK FALSE
