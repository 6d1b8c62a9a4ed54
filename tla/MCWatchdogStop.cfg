CONSTANTS
    MaxAllocs = 4
    Word = 64
SPECIFICATION WatchdogFairSpec
CHECK_DEADLOCK FALSE
INVARIANTS
    ExactAfterStop
