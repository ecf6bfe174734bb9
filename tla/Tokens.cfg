SPECIFICATION TokensSpec
CONSTANTS
    c1 = c1
    c2 = c2
    t1 = t1
    t2 = t2
    t3 = t3
    t4 = t4
    none = none
    bg = bg
    nobody = nobody
    Calls <- MCCalls
    Tokens <- MCTokens4
    NoToken = none
    Driver = bg
    NoOne = nobody
    Budgets <- MCBudgets
    Lifetimes <- MCLifetimes
    FetchTimeout = 2
    FailureWindow = 1
    ReuseMargin = 1
    RefreshAhead = 1
    RefreshRetry = 2
    EvictionMinAge = 2
    Algorithms = {"Rs256"}
    TokenProfile = "Rfc9068"
    Kids = {k1, k2}
    FirstKid = k1
    NoKid = nokid
    Forger = forger
    Verifications = {v1}
    Cooldown = 3
    ExchangeTicks = 2
    CallerTicks = 1
    Bearers = {b1, b2}
    NoBearer = nob
    RetainTicks = 2
    ProviderTicks = 1
    BudgetTicks = 2
    Leeway = 1
    MaxLife = 8
    TokenLife = 2
    ReuseTicks = 1
    ClockLeeway = 1
    SeenTokens = 2
    TransitTicks = 1
    ClockEnd = 8
    Actors = {a1, a2, a3}
    NoActor = noa
    FetchTicks = 1
    ActorBudgets = {1, 2}
    ReuseLives = {0, 1}
    EvictAge = 1
    MaxTokens = 2
INVARIANT SharedTokensLive
PROPERTY SharedFairly
PROPERTY RefreshSlotFreed
PROPERTY VerdictsJustified
PROPERTY JoinersAnswered
PROPERTY RevocationBound
PROPERTY ServiceTokensHold
PROPERTY SharingHurtsNobody
CHECK_DEADLOCK FALSE
