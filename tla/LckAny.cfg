\* Two threads, clients that send anything but asynchronous unlocks in any order, and a
\* library that may refuse any call.
SPECIFICATION Spec
CONSTANTS
    Threads = {main, disp}
    MainThread = main
    MaxSessions = 1
    MaxHandles = 1
    MaxLocks = 1
    MaxWaits = 0
    MaxServed = 1
    Invocations = {i1}
    UnlockFails = FALSE
    DispatchFlags = {"ALL", "BLOCKING"}
    MayRefuse = TRUE
    Ops = {"CREATE", "INITIALIZE", "SELECTION_OBJECT_GET", "FINALIZE", "OPEN", "OPEN_ASYNC", "CLOSE",
           "LOCK_SYNC", "LOCK_ASYNC", "UNLOCK_SYNC", "STATUS",
           "DELETE", "DISPATCH", "WAIT_COUNT"}
    Careful = FALSE
INVARIANTS TypeOK MainNeverBlocksInDispatch LocalHandleHasOneDispatcher
CHECK_DEADLOCK FALSE
PROPERTY LocalSessionsStayLocal
