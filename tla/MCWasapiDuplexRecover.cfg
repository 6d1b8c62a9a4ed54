SPECIFICATION Spec
CONSTANTS
    Period = 2
    BufferFrames = 3
    Positions = 3
    Modes = {"duplex"}
    Offers = {o1, o2}
CHECK_DEADLOCK FALSE
INVARIANTS
    XrunRecoverable
