\* Two engines, or two test cases run by hand, start a driver at the same time.
SPECIFICATION Spec
CONSTANTS
    MaxStarts = 2
    MaxId = 1
    Together = 2
PROPERTY LiveFileIsKept
CHECK_DEADLOCK FALSE
