SPECIFICATION Spec
CONSTANTS
    Table = {a}
    Key = {k1}
    Value = {v}
    None = None
    PageCap = 4
    IndexCap = 3
    MaxTx = 3
    MaxTime = 3
    MaxPages = 4
    MaxLog = 4
    MaxChain = 3
    MaxFaults = 0
    MaxCrashes = 0
INVARIANT NoDirtyRead
CHECK_DEADLOCK FALSE
