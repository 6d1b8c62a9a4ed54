SPECIFICATION Spec
CONSTANTS
    Period = 2
    BufferFrames = 3
    Positions = 3
    Modes = {"render", "capture", "loopback", "duplex", "exclusiveRender", "exclusiveCapture"}
    Offers = {o1, o2}
CHECK_DEADLOCK FALSE
INVARIANTS
    PeriodTrue
    NoLostWakeup
    HandlesExact
    StartedAsOpened
PROPERTIES
    DropoutsTellGaps
    InterruptHeard
    DriverSpec
