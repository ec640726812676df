SPECIFICATION MCSpec
CONSTANTS
    ClassNames <- MCSpelledNames
    KeyPrefixes <- MCTwoPrefixes
    Trim <- MCTrimmed
    Values <- MCValues
    Classes <- MCClasses
    CacheKeys <- MCCacheKeys
    Chain <- MCChain
    NoValue = NoValue
    NoClass = NoClass
    NoKey = NoKey
    Capacity = 3
    MaxVersion = 1
    Queries = {q1, q2}
    Letters = {"a", "b"}
    MaxName = 4
    MaxTyped = 3
    MaxNames = 3
    MaxLetters = 4
    MATCH_NONE = 1000
    StrongLimit = 1
    WeakLimit = 2
    MaxGlobal = 2
SYMMETRY MCSymmetry
INVARIANTS
    OnlyRacingQueriesLeaveStale
    IndexCovers
    MatchingIsSound
PROPERTY
    InvalidationComplete
