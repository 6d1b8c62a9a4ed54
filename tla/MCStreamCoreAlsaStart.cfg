CONSTANTS
    Callers = {c1, c2}
    StartReportsInterrupt = TRUE
SPECIFICATION Spec
INVARIANTS
    ErrIsSpontaneous
