SPECIFICATION Spec
CONSTANTS
    w1 = w1
    w2 = w2
    c1 = c1
    c2 = c2
    u1 = u1
    u2 = u2
    admin = admin
    Admin = admin
    Users <- MCUsers
    Loopback = loopback
    Clients <- MCClients
    Workers <- MCWorkers
    LoginMax = 2
    LoginWindow = 1
    MaxIps = 1
    SessionTtl = 2
    SessionMaxPerIdentity = 2
    SessionMaxGlobal = 3
    MaxTime = 1
    MaxVersion = 2
    MaxRequests = 3
    MaxFaults = 1
SYMMETRY MCSymmetry
INVARIANTS
    LoginBudget
    SlotsReturned
    UsableSessionsCurrent
    SessionFilesBounded
CHECK_DEADLOCK FALSE
