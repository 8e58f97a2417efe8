SPECIFICATION FairSpec
CONSTANTS
    Conns <- MCConns
    Workers = 2
    MaxPending = 0
    MaxRejects = 1
    MaxConcurrent = 1
INVARIANTS
    PermitsBalanced
PROPERTIES
    ConnectionEnds
    CloseTerminates
CHECK_DEADLOCK FALSE
