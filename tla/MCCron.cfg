SPECIFICATION CronSpec
CONSTANTS
    o1 = o1  o2 = o2  o3 = o3  o4 = o4  o5 = o5  o6 = o6
    v1 = v1
    Keys <- MCKeys
    Vals <- MCVals
    Objs <- MCObjs
    Times <- MCTimes
    Durs <- MCDurs
    Filled <- MCFilled
    StartDeadlines <- MCStartDeadlines
    KeysLimit = 6
    Strategy = "allkeys-lru"
    EvictCount = 1
    SampleLimit = 5
    MaxBatch = 1
    MaxStat = 6
    NoObj = NoObj
    NoVal = NoVal
PROPERTIES SweepLeavesNoneExpired CronStops
