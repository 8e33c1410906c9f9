\* Clients as the test cases are, in a daemon of one thread and in one whose
\* dispatch thread waits in the library on a global session.
SPECIFICATION Spec
CONSTANTS
    MainThread = main
    Daemons = {{main}, {main, disp}}
    MaxSessions = 2
    MaxHandles = 2
    MaxServed = 1
    MaxCount = 2
    Invocations = {i1, i2}
    DispatchFlags = {"NONE", "ALL", "BLOCKING"}
    ThreadedTrack = FALSE
    Careful = TRUE
SYMMETRY Symmetry
INVARIANTS TypeOK NoAbort
PROPERTIES NodeAnswersAreCounted TrackCallbacksAreCounted
