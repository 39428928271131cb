SPECIFICATION Spec
CONSTANTS
    text = text
    session = session
    orphan = orphan
    w1 = w1
    w2 = w2
    Families = 2
    Event <- MCEvent
    FamilyOf <- MCFamilyOf
    Channel <- MCChannel
    Invalid <- MCInvalid
    GivenUp <- MCInvalid
    Worker <- MCWorker
    MaxReceives = 2
    MaxAttempts = 3
    MaxFaults = 1
INVARIANTS
    FamilyWorkIsSerial
    ResultEndsHandling
PROPERTIES
    RecordedWorkCompletes
