SPECIFICATION Spec
CONSTANTS
    c1 = c1  c2 = c2
    o1 = o1  o2 = o2  o3 = o3
    set = set
    Clients <- MCClients
    Objs <- MCObjs
    Plain <- MCPlain
    MaxBatch = 3
    MaxQueue = 2
    MaxDepth = 3
    Nobody = Nobody
SYMMETRY Symmetry
PROPERTIES TxnRunsAsQueued
CHECK_DEADLOCK FALSE
