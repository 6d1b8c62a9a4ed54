CONSTANTS
    Callers = {c1, c2}
    StartReportsInterrupt = TRUE
SPECIFICATION FairSpec
INVARIANTS
    LifecycleSafe
PROPERTIES
    CallsReturn
    LifecycleSpec
    DriverSpec
