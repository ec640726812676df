SPECIFICATION FairSpec
CONSTANTS
    r1 = r1
    r2 = r2
    d1 = d1
    d2 = d2
    Roots = {r1, r2}
    DbPaths = {d1, d2}
    DbOf <- SharedDb
    Tasks = {t1, t2}
    NoDb = NoDb
    NoRoot = NoRoot
    Nobody = Nobody
    Torn = Torn
INVARIANTS
    GuardIsHeld
    RegistryCurrent
PROPERTIES
    ImplementsRefreshMutex
    GuardReleased
    EveryRequestAnswered
