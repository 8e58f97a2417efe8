CONSTANTS
    limiter = limiter
    panel = panel
    noone = noone
    w1 = w1
    w2 = w2
    pLocked = pLocked
    pUsers = pUsers
    Callers <- MCCallers
    Limiter = limiter
    Workers <- MCWorkers
    Plans <- MCPlans
    Locked = pLocked
    NoOne = noone
    Probes = 1
    MaxToken = 2
    MaxFaults = 0
    FaultKinds <- NoFaults
SPECIFICATION Spec
INVARIANTS
    AckedGenerationLoaded
