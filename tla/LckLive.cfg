\* Every step of the daemon happens in the end; one session and every kind of lock and unlock.
SPECIFICATION FairSpec
CONSTANTS
    Threads = {main, disp}
    MainThread = main
    MaxSessions = 1
    MaxHandles = 1
    MaxLocks = 2
    MaxWaits = 1
    MaxServed = 1
    Invocations = {i1, i2}
    UnlockFails = FALSE
    DispatchFlags = {"ONE", "ALL", "BLOCKING"}
    MayRefuse = FALSE
    Ops = {"CREATE", "INITIALIZE", "SELECTION_OBJECT_GET", "DISPATCH", "FINALIZE",
           "OPEN", "CLOSE", "LOCK_SYNC", "LOCK_ASYNC", "UNLOCK_SYNC",
           "UNLOCK_ASYNC", "STATUS"}
    Careful = TRUE
INVARIANTS NoAbort HeldLockIsKnown
PROPERTY CallbacksArrive
