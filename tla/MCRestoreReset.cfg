SPECIFICATION Spec
CONSTANTS
    Threads = {"s", "a", "b"}
    Stream = "s"
    MaxPasses = 3
    MaxMessages = 2
CHECK_DEADLOCK FALSE
INVARIANTS
    RaisedPutBack
