SPECIFICATION Spec
CONSTANTS
    m1 = m1
    m2 = m2
    Bank = 4
    ItemLimit = 2
    SittingsPerDay = 2
    WrongStop = 2
    CapsuleItems = {3, 4}
    Slot <- MCSlot
    MaxFaults = 1
INVARIANTS
    AnsweredIsCounted
PROPERTIES
    WrongAnswersEndTheDay
    CountedItemNotServedAgain
SYMMETRY
    SlotsAlike
VIEW
    MCView
