SPECIFICATION FairSpec
CONSTANTS
    ClassNames <- MCClassNames
    KeyPrefixes <- MCPrefixes
    Trim <- MCTrim
    Values <- MCValues
    Classes <- MCClasses
    CacheKeys <- MCCacheKeys
    Chain <- MCChain
    NoValue = NoValue
    NoClass = NoClass
    NoKey = NoKey
    Capacity = 1
    MaxVersion = 1
    Queries = {q1}
PROPERTY
    ChangeInvalidates
