SPECIFICATION FairSpec
CONSTANTS
    a1 = a1
    a2 = a2
    a3 = a3
    c1 = c1
    c2 = c2
    k1 = k1
    f1 = f1
    f2 = f2
    Attempts = {a1, a2, a3}
    Scopes = {c1, c2}
    ScopeOf <- OneScope
    Fingerprints = {f1, f2}
    FingerprintOf <- TwoPrints
    LockKeys = {k1}
    LockKey <- SharedKey
    NoOne = NoOne
    Retention = 2
INVARIANT OnceAndTrue
PROPERTIES LockReleased ImplementsOnce
