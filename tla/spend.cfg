CONSTANTS
    Clients = {c1}
    Sched = sched
    UserCap = 2
    Headroom <- Caps
    Excess = 1
    MaxAttempts = 3
    MaxFaults = 1
SPECIFICATION Spec
INVARIANTS
    SpendInv
    NeverLoosened
    SpendBounded
    AttemptsBounded
    LedgerComplete
