CONSTANTS
  MaxMessages = 3
  Content <- MCContent
  MaxFamilies = 2
  MaxFaults = 2
  MaxStrays = 1
SPECIFICATION Spec
CHECK_DEADLOCK FALSE
INVARIANT EnrolledIsWhole AlarmFollowsFamily ErasedMeansGone
