\* Outages of every length the code survives.
SPECIFICATION Spec
CONSTANTS
    DurationBits = 64
    AttemptTime <- MCAttemptTime
    Oversleep = {0, 1}
    LongestAttempt = 60
    LongestOversleep = 1
INVARIANTS
    TypeOK
    ServerSpared
    PanicTakesHours
PROPERTIES
    AttemptsSpaced
    RetriedInTime
