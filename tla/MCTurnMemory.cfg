SPECIFICATION Spec
CONSTANTS
  MaxNotes = 2
  DayLength = 2
  Text = {1, 2, 3}
  Capsule <- MCCapsule
  Sitting <- MCSitting
  Open <- MCOpen
  Approach = {a1, a2}
  Retention = 2
  IdleTime = 1
  FirstTime = 2
  LastTime = 4
  Agendas <- MCAgendas
  MaxFaults = 1
  TopicOf <- MCTopicOf
  Own <- MCOwn
  Content <- MCContent
  WindowDays = 2
  FeedLength = 6
INVARIANTS
  ClosedSittingKeepsNoWords
  KeyAfterAnswer
  TotalsAgree
  AnswersAreShownAsCounted
  LinksAreTrue
CHECK_DEADLOCK FALSE
