CONSTANTS
    MonthLengths <- ShortMonths
    FirstDays <- ShortFirst
    SettlementDays <- SmallSettlementDays
    CycleLengths <- SmallLengths
    CYCLE_LENGTH_MAX = 5
    CycleLengthDefault = 2
    Quota = 1
    MaxUnits = 3
    MaxChanges = 0
SPECIFICATION Spec
INVARIANT RearmedByNewCycle
CHECK_DEADLOCK FALSE
