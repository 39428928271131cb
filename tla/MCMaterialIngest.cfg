CONSTANTS
  fractions = fractions
  decimals = decimals
  algebra = algebra
  Page <- MCPage
  Draft <- MCDraft
  Batch <- MCBatch
  Competency <- MCCompetency
  Curriculum <- MCCurriculum
  GradeOf <- MCGradeOf
  Grade = 4
  Ranking <- MCRanking
  Choice <- MCChoice
  BlurFloor = 100
  MinConfidence = 60
  CandidateLimit = 2
  MappingLimit = 1
  ItemsPerMaterial = 1
  RegenRounds = 1
  MaxFaults = 2
SPECIFICATION Spec
CHECK_DEADLOCK FALSE
INVARIANT BankIsSound OneAccount
PROPERTY EveryPageIsAnswered
