\* Two starts that may overlap, a third that waits for them, and daemons killed at
\* any time.
SPECIFICATION FairSpec
CONSTANTS
    MaxStarts = 3
    MaxId = 2
    Together = 2
INVARIANTS TypeOK SuccessHasItsDaemon StartedIsInControl NoDaemonAborts
PROPERTY StaleFilesAreNoObstacle
CHECK_DEADLOCK FALSE
