\* An asynchronous unlock is accepted and then fails.
SPECIFICATION Spec
CONSTANTS
    Threads = {main}
    MainThread = main
    MaxSessions = 1
    MaxHandles = 1
    MaxLocks = 1
    MaxWaits = 1
    MaxServed = 1
    Invocations = {i1, i2}
    UnlockFails = TRUE
    DispatchFlags = {"ALL"}
    MayRefuse = FALSE
    Ops = {"CREATE", "INITIALIZE", "SELECTION_OBJECT_GET", "OPEN", "LOCK_ASYNC",
           "UNLOCK_ASYNC", "STATUS"}
    Careful = TRUE
INVARIANT WaiterLockIsKnown
