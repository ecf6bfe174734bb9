SPECIFICATION FairSpec
CONSTANTS
    t1 = t1
    q1 = q1
    q2 = q2
    Tasks = {t1}
    Reqs = {q1, q2}
    Slow = {q2}
    Configs <- Deployments
    Diagnostics = 1
    BackgroundJoin = 1
    DependencyClose = 1
    TelemetryFlush = 1
    JoinSlack = 1
    RuntimeTimeout = 1
    LogReserve = 1
    MaxSignals = 2
INVARIANTS ShutdownOrdered InFlightServed
PROPERTY Stops
CHECK_DEADLOCK FALSE
