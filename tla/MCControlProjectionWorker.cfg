CONSTANTS
    CommandEntries = 2
    ResultEntries = 2
    MaxId = 6
    StartupRace = FALSE
SPECIFICATION Spec
INVARIANTS
    NoLostWakeup
    LosslessInOrder
PROPERTIES
    EveryCommandAnswered
    DestructorReturns
