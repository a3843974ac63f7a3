SPECIFICATION Spec
CONSTANTS
    k1 = k1  k2 = k2  k3 = k3
    o1 = o1  o2 = o2  o3 = o3  o4 = o4
    v1 = v1  v2 = v2
    Keys <- MCKeys
    Vals <- MCVals
    Objs <- MCObjs
    Times <- MCTimes
    Durs <- MCDurs
    KeysLimit = 2
    Strategy = "allkeys-lru"
    EvictCount = 1
    SampleLimit = 1
    MaxBatch = 2
    MaxStat = 3
    NoObj = NoObj
    NoVal = NoVal
SYMMETRY Symmetry
INVARIANTS TypeOK NoAliasing SizeWithinLimit StatCoversKeys
PROPERTIES ImplementsMap
