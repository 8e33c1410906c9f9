\* A session is initialised twice, as initializeTwice does.
SPECIFICATION Spec
CONSTANTS
    Threads = {main}
    MainThread = main
    MaxSessions = 1
    MaxHandles = 2
    MaxLocks = 1
    MaxWaits = 0
    MaxServed = 1
    Invocations = {i1}
    UnlockFails = FALSE
    DispatchFlags = {"ALL"}
    MayRefuse = FALSE
    Ops = {"CREATE", "INITIALIZE", "FINALIZE", "DELETE", "STATUS"}
    Careful = FALSE
INVARIANT DeletedIsFinalized
CHECK_DEADLOCK FALSE
