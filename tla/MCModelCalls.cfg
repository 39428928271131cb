SPECIFICATION Spec
CONSTANTS
    page = page
    answer = answer
    other = other
    judge = judge
    Families = 2
    Event <- MCEvent
    FamilyOf <- MCFamilyOf
    Calls <- MCCalls
    Keeps <- MCKeeps
    Role <- MCRole
    MessageLimit = 2
    FamilyLimit = 2
    GlobalLimit = 3
    Threshold = 2
    Recovery = 1
    QuotaTTL = 1
    TicksPerDay = 1
    MaxReceives = 2
    MaxAttempts = 2
    LastTime = 1
    MaxFaults = 1
    Loads <- MCLoads
INVARIANTS
    SpendIsBounded
    ToldOnceADay
    OutageIsLeftAlone
    RecoveryKeepsOrder
CHECK_DEADLOCK FALSE
