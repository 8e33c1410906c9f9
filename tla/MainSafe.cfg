\* Any client asks any thread for anything, and anybody may be killed.
SPECIFICATION Spec
CONSTANTS
    Threads = {main, other}
    MainThread = main
    MaxClients = 3
    MaxFds = 2
    Requests = {"INITIALIZE", "STATUS", "CREATE_THREAD", "LIB", "BLOCK"}
    HeapFaults = TRUE
    MayKill = TRUE
    Careful = FALSE
INVARIANTS TypeOK FdHasOneOwner NoRequestIsLost
PROPERTY KeepsPromise
CHECK_DEADLOCK FALSE
