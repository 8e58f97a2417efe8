CONSTANTS
    limiter = limiter
    panel = panel
    noone = noone
    w1 = w1
    w2 = w2
    pLocked = pLocked
    pUsers = pUsers
    Callers <- MCCallers
    Limiter = limiter
    Workers <- MCWorkers
    Plans <- MCPlans
    Locked = pLocked
    NoOne = noone
    Probes = 1
    MaxToken = 1
    MaxFaults = 1
    FaultKinds <- AllFaults
SPECIFICATION FairSpec
INVARIANTS
    TypeOK
    NoLostReload
PROPERTIES
    PendingReloadAcknowledged
    FailClosedRecovered
