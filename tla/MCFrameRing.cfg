CONSTANTS
    Frames = {f1, f2}
    Slots = 4
    Modulus = 8
    Observers = {"producer", "consumer"}
SPECIFICATION LenSpec
INVARIANTS
    NoSlotRace
    LenWasHeld
PROPERTIES
    FIFOSpec
