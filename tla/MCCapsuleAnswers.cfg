\* Every message finished and the last day's session delivered: nothing more happens.
CHECK_DEADLOCK FALSE
SPECIFICATION Spec
CONSTANTS
    a = a
    b = b
    algebra = algebra
    geometry = geometry
    Msg <- MCMsg
    Competency <- MCCompetency
    CompetencyOf <- MCCompetencyOf
    Adaptive = {}
    Earlier <- MCEarlier
    Proposed = {"continue"}
    MinSamples = 3
    Cooldown = 1
    LastDay = 2
    Length <- MCLength
    MaxFaults = 2
INVARIANTS
    LeftMeansRecorded
    StrugglingIsTold
PROPERTIES
    ImplementsLog
    EveryMessageFinishes
