\* A daemon with a dispatch thread, clients that behave as the test cases do. A session
\* is automatic or global, and a callback runs in the first thread's loop or in the
\* blocking dispatch of the other.
SPECIFICATION Spec
CONSTANTS
    Threads = {main, disp}
    MainThread = main
    MaxSessions = 2
    MaxHandles = 2
    MaxLocks = 2
    MaxWaits = 1
    MaxServed = 1
    Invocations = {i1, i2}
    UnlockFails = FALSE
    DispatchFlags = {"ALL", "BLOCKING"}
    MayRefuse = FALSE
    Ops = {"CREATE", "INITIALIZE", "DISPATCH", "SELECTION_OBJECT_GET", "FINALIZE", "OPEN",
           "LOCK_ASYNC", "UNLOCK_SYNC", "UNLOCK_ASYNC", "STATUS"}
    Careful = TRUE
SYMMETRY Symmetry
INVARIANTS NoAbort CallbackFindsItsSession HeldLockIsKnown PollIsNotEarly HandleIsHeldOnce
