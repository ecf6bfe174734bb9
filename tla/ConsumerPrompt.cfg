SPECIFICATION Spec
CONSTANTS
    r1 = r1
    r2 = r2
    s1 = s1
    s2 = s2
    m1 = m1
    Msgs = {m1}
    Malformed = {}
    Replicas = {r1, r2}
    Slots = {s1, s2}
    Owner <- OwnEach
    NoMsg = NoMsg
    Delays <- OneDelay
    SettleDelay = 1
    ReleaseDelay = 1
    Handler = 1
    Budget = 1
    Slack = 2
    Transit = 1
    Prompt = TRUE
    MaxGen = 1
    MaxFaults = 2
SYMMETRY Symmetry
INVARIANT WorkBounded
