SPECIFICATION Spec
CONSTANTS
    k1 = k1  k2 = k2  k3 = k3  k4 = k4
    Keys <- MCKeys
    KeysLimit = 3
    EvictCount = 2
    LRUSampleSize = 3
    ePoolSizeMax = 3
    Cycle = 3
    MaxTime = 4
INVARIANT IdleTimeIsElapsed
