CONSTANTS
    t1 = t1
    t2 = t2
    v1 = v1
    u1 = u1
    none = none
    Tabs <- MCTabs
    UserTabs <- MCUserTabs
    Owner <- MCOwner
    Users <- MCUsers
    Seed <- MCSeed
    NewUser <- MCNewUser
    Bodies <- MCBodies
    AdminForms <- MCAdminForms
    UserForms <- MCUserForms
    Canonical <- MCCanonical
    RawTexts <- MCRawTexts
    HandEdits <- MCHandEdits
    Packs <- MCPacks
    USER_CLASH_RULE_MAX_COUNT = 1
    MaxRules = 5
    MaxEdits = 3
    None = none
SPECIFICATION Spec
SYMMETRY Symmetric
INVARIANTS
    NoLostEdit
    RetriesHarmless
    PinnedServed
    PersonalRulesFirst
    SubscriptionSound
CHECK_DEADLOCK FALSE
