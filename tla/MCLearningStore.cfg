\* Every message acknowledged and no fault left: nothing more happens.
CHECK_DEADLOCK FALSE
SPECIFICATION Spec
CONSTANTS
    o1 = o1
    o2 = o2
    i1 = i1
    c1 = c1
    w1 = w1
    w2 = w2
    NoRow = NoRow
    Outcome <- MCOutcome
    Item <- MCItem
    Competency <- MCCompetency
    ItemOf <- MCItemOf
    CompetencyOf <- MCCompetencyOf
    Worker <- MCWorker
    MaxTries = 2
    MaxFaults = 2
INVARIANTS
    TypeOK
    AttemptsCountMarkers
    ReturnedMeansCounted
PROPERTIES
    ImplementsLedger
    EveryAnswerCounts
