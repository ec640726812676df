SPECIFICATION MCSpec
CONSTANTS
    v1 = v1
    v2 = v2
    p1 = p1
    Absent = Absent
    Assets = {a1, a2}
    AssetPaths = {p1}
    PathOf <- MCPathOf
    Scanners = {s1, s2}
    AssetVersions <- MCVersions
    Edges <- MCEdges
    base = base
    game = game
    Files = {base, game}
    ReadOrder <- MCReadOrder
    Queries = {q1, q2}
    MaxVersion <- MCMaxVersion
    NoEntry = NoEntry
    Values = {a, b, c}
    MaxLines = 4
SYMMETRY MCSymmetry
INVARIANTS
    OneVersionPerFile
    GraphFollowsDisk
    OneScan
    OnlyRacingReadersStoreStale
    MergedIsWhatSurvives
PROPERTY
    ImplementsConfigList
