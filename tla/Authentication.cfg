CONSTANTS
    c1 = c1
    c2 = c2
    c3 = c3
    Clients <- ThreeClients
    MaxDevices = 2
    MaxWorkers = 2
    AdmissionTTL = 5
    SnapshotTTL = 0
    RequestTime = 1
    AnswerTime = 0
    ConnectTime = 1
    KickDelay = 2
    MaxEdits = 1
    MaxFaults = 1
    FaultKinds <- AllFaults
SPECIFICATION Spec
SYMMETRY Symmetric
INVARIANTS
    NeverOverAdmitted
    KickedForGood
