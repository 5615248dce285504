\* Refused connections, one after the other.
SPECIFICATION Spec
CONSTANTS
    DurationBits = 64
    AttemptTime <- MCAttemptTimeRefused
    Oversleep = {0}
    LongestAttempt = 0
    LongestOversleep = 0
INVARIANTS
    RetryTimeLimited
