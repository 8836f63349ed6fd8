SPECIFICATION Spec
CONSTANTS
    Key <- Keys
    JunkKey = {}
    Stray = {}
    MaxKeys = 2
    None = None
    MaxInserts = 4
    MaxFaults = 0
INVARIANT InsertedFound
CHECK_DEADLOCK FALSE
