SPECIFICATION BackendsSpec
CONSTANTS
    ObWriters = {w1, w2}
    NoWriter = now
    ObContents = {"x", "y"}
    Window = 2
    MaxTries = 2
    MaxRedrives = 2
    MaxCopies = 2
    ObClockEnd = 2
    WkTasks = {t1}
    WkSettings <- MCSettings
    WkCleanup = 1
    WkListeners = 1
    WkJoin = 1
    WkClose = 1
    WkFlush = 1
    WkSlack = 0
    WkRuntime = 1
    WkLogReserve = 1
    WkSignals = 2
    WkFaults = 1
    JobKinds = {"k1", "k2"}
    Enqueued = {"k1"}
    JePeers = {"e1", "e2"}
    JeDuties = "e1"
    KindsOf <- MCKinds
    EngineSlots = 2
    MaxRunning <- MCMaxRunning
    Poll = 2
    ClaimCooldown = 1
    WakeInterval = 1
    MaxStatements = 2
    Runners = {"m1", "m2"}
    NoRunner = "none"
    Embedded <- MCEmbedded
    NoTx = {2}
    MaxCuts = 2
    Passes = {"p1", "p2"}
    BatchRows = 2
    MtRows = {r1, r2, r3}
    FirstExpired = {r1, r2}
    ClockSlack = 1
INVARIANTS EventsCarried WorkerStopsInOrder EngineServes OperatorReceipt SchemaAdmitted CleanupEvidence
CHECK_DEADLOCK FALSE
