CONSTANTS
    p1 = p1
    p2 = p2
    Process = {p1, p2}
    Start <- MCStart
    Agendas <- MCAgendas
    Limit = 2
    GlobalLimit = 2
    MaxFaults = 2
SPECIFICATION Spec
INVARIANTS
    OneClaimant
PROPERTIES
    ImplementsAtomicStore
CHECK_DEADLOCK FALSE
