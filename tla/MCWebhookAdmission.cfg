\* Every update acknowledged and the last minute reached: nothing more happens.
CHECK_DEADLOCK FALSE
SPECIFICATION Spec
CONSTANTS
    c1 = c1
    u1 = u1
    u2 = u2
    k1 = k1
    k2 = k2
    Chat <- MCChat
    Update <- MCUpdate
    ChatOf <- MCChatOf
    Call <- MCCall
    MinuteLimit = 2
    DayLimit = 1
    LastMinute = 1
    MaxFaults = 1
INVARIANTS
    PublishedOnce
    LostOnlyByFault
    PublishedWithinLimits
PROPERTIES
    EveryUpdateIsAcknowledged
