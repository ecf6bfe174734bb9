SPECIFICATION FairSpec
CONSTANTS
    r1 = r1
    r2 = r2
    s1 = s1
    s2 = s2
    m1 = m1
    Msgs = {m1}
    Malformed = {}
    Replicas = {r1}
    Slots = {s1, s2}
    Owner <- OwnBoth
    NoMsg = NoMsg
    Delays <- OneDelay
    SettleDelay = 1
    ReleaseDelay = 1
    Handler = 1
    Budget = 1
    Slack = 1
    Transit = 0
    Prompt = TRUE
    MaxGen = 2
    MaxFaults = 0
INVARIANTS PullsBounded
PROPERTY EveryMessageSettled
