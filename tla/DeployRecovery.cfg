SPECIFICATION FairSpec
CONSTANTS
    Paths <- MCPaths
    Units <- MCUnits
    ActiveUnits <- MCActiveUnits
    MaxGen = 3
    MaxFaults = 1
INVARIANTS
    SnapshotsCoverJournal
    NoServiceOnHalfRestoredTree
PROPERTIES
    UnknownNeverOverwritten
    RollbackRestoresUnits
    TransactionResolved
    ImplementsAtomicDeploy
CHECK_DEADLOCK TRUE
