SPECIFICATION Spec
CONSTANTS
    disp = disp
    io = io
    e1 = e1
    e2 = e2
    Threads <- MCThreads
    DispatcherThread = disp
    ShutdownThread = disp
    Events = {e1, e2}
    EventIdMax = 2
    MaxClock = 1
INVARIANT
    TimeoutHasEvent
CHECK_DEADLOCK FALSE
