CONSTANTS
  Family = {1, 2}
  FirstDay = 27
  LastDay = 28
  RestDays <- MCRestDays
  Holidays = {}
  History <- MCHistory
  Held = {1, 2, 3}
  HeldOf <- MCHeldOf
  Agendas <- MCAgendas
  MaxFaults = 1
  Item = {1, 2, 3, 4, 5, 6, 7}
  ItemOf <- MCItemOf
  Curriculum = {1, 2}
  Spaced <- MCSpaced
  Known <- MCKnown
  Tunings <- MCTunings
  Forced <- MCForced
  DailyItemLimit = 2
  ExamItemCap = 3
  ExamHorizon = 7
  LightDays = 7
  SectionOf <- MCSectionOf
  Struggling <- MCStruggling
  CohortMinFamilies = 2
  MinActiveDays = 2
  SilentDays = 3
  SignalWindow = 8
  MinAttempts = 6
SPECIFICATION Spec
CHECK_DEADLOCK FALSE
INVARIANT OneCapsuleADay FirstDecisionStands OneNoticeAWeek
PROPERTY CapsuleIsSound
