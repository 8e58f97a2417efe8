SPECIFICATION Spec
CONSTANTS
    t1 = t1
    t2 = t2
    page1 = page1
    page2 = page2
    Threads <- MCThreads
    Requests <- MCRequests
    KeepSessions = 2
    MaxGen = 3
    MaxSession = 2
    MaxFaults = 1
INVARIANTS
    RotationCovered
    TokenRecoverable
PROPERTIES
    ImplementsIdempotentRotation
SYMMETRY Symmetry
CHECK_DEADLOCK FALSE
