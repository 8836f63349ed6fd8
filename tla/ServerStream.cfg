SPECIFICATION Spec
CONSTANTS
    Client = {c1, c2}
    None = None
    Pieces = 2
    BufSize = 3
    MaxRequests = 2
INVARIANTS
    TypeOK
    OksInOrder
    AlignedAnswered
PROPERTY ConnectionsServed
CHECK_DEADLOCK FALSE
