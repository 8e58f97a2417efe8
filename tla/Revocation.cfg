CONSTANTS
    r1 = r1
    noone = noone
    Requests <- OneRequest
    MaxOps = 3
    MaxTasks = 1
    MaxFaults = 1
    FaultKinds <- AllFaults
    NoOne = noone
SPECIFICATION FairSpec
INVARIANTS
    RevokedWhenDone
    HistoryFollowsAccount
PROPERTIES
    CommitIsCovered
    DeletionRedone
    QueueDrains
CHECK_DEADLOCK FALSE
