SPECIFICATION Spec
CONSTANTS
    Periods = 2
    Pieces = 2
    NoProgressLimit = 2
    MaxIncidents = 2
CHECK_DEADLOCK FALSE
INVARIANTS
    BooksKept
    NoUseAfterClose
PROPERTIES
    InterruptHeard
    CallsEnd
    DriverSpec
