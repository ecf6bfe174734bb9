SPECIFICATION EdgeUnionSpec
CONSTANTS
    CacheCallers = {c1, c2}
    CacheProber = pr
    Generations = {g1, g2}
    NoGeneration = nog
    CacheSlots = 1
    CacheTtls = {0, 1, 2}
    MaxTtl = 1
    Requests = {r1, r2}
    InFlight = 1
    Budget = 3
    AttemptReserve = 1
    EdgeEnd = 6
    GrServed = {s1, s2}
    GrSent = {k1}
    GrLimit = 1
    GrCap = 2
    GrTimeouts = {{}, {0}, {1}, {3}}
    GrMaxWait = 2
    GrDrain = 1
    LoadVariables <- MCVariables
    LoadSecrets <- MCSecrets
    LoadFiles <- MCFiles
    MaxReplaced = 1
    Transfers = {t1, t2}
    TransferSlots = 1
    TransferTicks = 1
    TransferEnd = 2
    MaxItems = 2
    MaxSends = 2
    Retention = 1
    Tolerance = 1
    RetryCap = 1
    LastKey = 2
    WhClockEnd = 3
INVARIANTS RequestsHonoured CallsAccounted LoadSound TransfersTold DeliveredOnce
PROPERTY LinkCustody
CHECK_DEADLOCK FALSE
