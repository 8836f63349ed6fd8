SPECIFICATION Spec
CONSTANTS
    Thread = {t1}
    MaxTx = 4
    MaxTime = 3
    None = None
INVARIANTS
    SeesEarlierCommits
    SnapshotNotAhead
