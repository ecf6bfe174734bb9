SPECIFICATION Spec
CONSTANTS
    w1 = w1
    w2 = w2
    s1 = s1
    s2 = s2
    Jobs = {j1, j2}
    NoJob = NoJob
    Keys = {}
    NoKey = NoKey
    Workers = {w1}
    Slots = {s1, s2}
    Owner <- BothOne
    MaxAttempts <- SingleBudget
    Timeout = 1
    Reserve = 2
    Margin = 1
    MaxLag = 0
    Backstop = 0
    Retention = 1
    MaxDelay = 0
    MaxSends = 2
    MaxWire = 1
    MaxSnoozes = 1
    MaxStops = 0
    MaxRedrives = 0
INVARIANT ClaimFitsSlots
