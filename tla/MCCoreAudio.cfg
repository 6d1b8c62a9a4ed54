SPECIFICATION Spec
CONSTANTS
    Modes = {"output", "input", "duplex"}
    MaxSignals = 1
    Period = 1
    Fill = 2
    Half = 1
    Target = 2
    MaxQueue = 3
    Capacity = 5
    MaxPacket = 2
    MaxRequest = 3
    Spare = 1
CHECK_DEADLOCK FALSE
INVARIANTS
    UnitsSafe
    BuffersHeld
    ClockOfOnePacket
PROPERTIES
    CallsEnd
    DriverSpec
