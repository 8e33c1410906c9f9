\* A daemon used as the framework uses it, with its lists in memory.
SPECIFICATION LFairSpec
CONSTANTS
    Threads = {main, other}
    MainThread = main
    MaxClients = 4
    MaxFds = 4
    Requests = {"INITIALIZE", "CREATE_THREAD", "LIB", "BLOCK"}
    HeapFaults = FALSE
    MayKill = FALSE
    Careful = TRUE
    Lists = {main, other}
    Elements = {e1, e2, e3, e4}
    NULL = NULL
INVARIANTS StaysUp ListsHoldTheClients ListWalksAreComplete
PROPERTY ConnectedAreServed
CHECK_DEADLOCK FALSE
