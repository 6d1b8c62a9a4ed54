SPECIFICATION PartsSpec
CONSTANTS
    StatMax = 3
    TimeMax = 2
    MaxDrops = 4
    MaxXruns = 3
    MaxCallbacks = 4
    MaxAllocs = 4
    Word = 64
    MaxStreams = 2
    MaxPeriods = 3
    TokenCap = 2
CHECK_DEADLOCK FALSE
INVARIANTS
    DropoutsTrue
    TotalsTrue
    Delivered
PROPERTIES
    GapsTold
    ExactInTheEnd
    AdvanceReturns
