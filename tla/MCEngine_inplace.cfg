SPECIFICATION Spec
CONSTANTS
    k1 = k1  k2 = k2
    Keys <- MCKeys
    MaxVersion = 2
    MaxEvents = 2
INVARIANTS CompleteFileHasAllSettledWrites
CHECK_DEADLOCK FALSE
