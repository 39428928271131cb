CHECK_DEADLOCK FALSE
SPECIFICATION Spec
CONSTANTS
    a = a
    b = b
    algebra = algebra
    geometry = geometry
    Msg <- MCMsg
    Competency <- MCCompetency
    CompetencyOf <- MCCompetencyOf
    Adaptive = {"raise_difficulty", "lower_difficulty"}
    Earlier <- MCEarlier
    Proposed = {"raise_difficulty", "lower_difficulty", "failed"}
    MinSamples = 3
    Cooldown = 1
    LastDay = 2
    Length <- MCLength
    MaxFaults = 0
INVARIANTS
    DecisionIsSaved
