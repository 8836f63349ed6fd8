SPECIFICATION Spec
CONSTANTS
    Table = {a}
    Key = {k1, k2}
    Value = {v}
    None = None
    PageCap = 2
    IndexCap = 2
    MaxTx = 3
    MaxTime = 2
    MaxPages = 4
    MaxLog = 3
    MaxChain = 3
    MaxFaults = 1
    MaxCrashes = 1
SYMMETRY Symmetry
INVARIANTS
    TypeOK
    PagesNotShared
    PageMirrorsMemory
    IndexIsLogged
PROPERTIES
    OldPagesFrozen
    LaterWritersInvisible
CHECK_DEADLOCK FALSE
VIEW WithoutFate
