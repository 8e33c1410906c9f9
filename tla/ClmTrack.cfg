\* The clients of a daemon with a dispatch thread track, too.
SPECIFICATION Spec
CONSTANTS
    MainThread = main
    Daemons = {{main, disp}}
    MaxSessions = 1
    MaxHandles = 1
    MaxServed = 1
    MaxCount = 1
    Invocations = {i1}
    DispatchFlags = {"NONE", "ALL", "BLOCKING"}
    ThreadedTrack = TRUE
    Careful = TRUE
INVARIANTS FirstLongLivedCounts
