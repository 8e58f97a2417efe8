CONSTANTS
    Quota = 2
    MaxUnits = 3
    MaxCycle = 1
    MaxOps = 2
    PanelOps <- AllOps
    MaxFaults = 1
    FaultKinds <- AllFaults
SPECIFICATION FairSpec
INVARIANTS
    UnitsConserved
    DailyCoversUsage
PROPERTIES
    ShutOutForGood
    OverQuotaReported
