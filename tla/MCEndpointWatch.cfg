SPECIFICATION WatchSpec
CONSTANTS
    EndpointCount = 2
    Formats = {"f"}
    Users = {u1}
    Callback = cb
    MaxChanges = 2
    MaxFailures = 1
CHECK_DEADLOCK FALSE
INVARIANTS
    EventsTellSnapshot
PROPERTIES
    NoLateCallback
    StopReturns
    ClientUpToDate
