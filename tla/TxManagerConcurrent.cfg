SPECIFICATION FairSpec
CONSTANTS
    Thread = {t1, t2}
    MaxTx = 3
    MaxTime = 2
    None = None
INVARIANTS
    TypeOK
    HandlesMatchRegistry
    ActiveUntilDecided
    RejectedOnlyIfDecided
PROPERTIES
    ImplementsLifecycle
    BeginReturns
