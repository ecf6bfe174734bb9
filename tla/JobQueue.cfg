SPECIFICATION FairSpec
CONSTANTS
    w1 = w1
    w2 = w2
    s1 = s1
    s2 = s2
    Jobs = {j1}
    NoJob = NoJob
    Keys = {}
    NoKey = NoKey
    Workers = {w1, w2}
    Slots = {s1, s2}
    Owner <- OneEach
    MaxAttempts <- RollingBudget
    Timeout = 1
    Reserve = 2
    Margin = 1
    MaxLag = 0
    Backstop = 1
    Retention = 1
    MaxDelay = 0
    MaxSends = 1
    MaxWire = 1
    MaxSnoozes = 0
    MaxStops = 1
    MaxRedrives = 1
INVARIANTS FencedCustody EffectsHeld
PROPERTIES TerminalIsFinal EveryJobEnds
