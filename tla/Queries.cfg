SPECIFICATION MCSpec
CONSTANTS
    A = A
    B = B
    D = D
    E = E
    X = X
    m = m
    k = k
    headA = headA
    headB = headB
    source = source
    file1 = file1
    file2 = file2
    symbol1 = symbol1
    symbol2 = symbol2
    symbol3 = symbol3
    text1 = text1
    engine1 = engine1
    engine2 = engine2
    T1 = T1
    T2 = T2
    M1 = M1
    M2 = M2
    M3 = M3
    M4 = M4
    Names = {A, B, D, E}
    Labels = {m, k}
    SourceFiles = {headA, headB, source}
    Contents <- MCContents
    EngineIndexes <- MCEngineIndexes
    MaxRows = 3
    NoType = NoType
    Includes <- MCIncludes
    MaxItems = 10
    MaxPerClass = 5
    Buffers <- MCBuffers
    Accessors <- MCAccessors
    Headers = {headA, headB}
    Variable = Variable
    MaxSignatures = 3
    Symbols <- MCSymbols
    NameRank <- MCNameRank
    FoundFiles <- MCFoundFiles
    Texts <- MCTexts
    EngineFound <- MCEngineFound
    Identities <- MCIdentities
    Limits = {1, 2, 3}
    StageCap = 2
    MaxFts = 5
    MaxPages = 5
    Paths <- MCPaths
    Classes = {A, X}
    NoClass = NoClass
    NoCurrent = NoCurrent
    Lines <- MCLines
    ResolvedIncludes <- MCResolvedIncludes
    EngineUsages <- MCEngineUsages
    MaxTotal = 4
    MAX_RESULTS = 4
    MAX_FILES = 2
    STREAM_BATCH = 3
    Currents <- MCCurrents
    MemberScopes <- MCMemberScopes
    Types = {T1, T2}
    AutoType = AutoType
    Untyped = Untyped
    Rows <- MCRows
    MaxBuffer = 5
    ModuleNames = {M1, M2, M3, M4}
    ModuleDefs <- MCModuleDefs
    MaxModules = 3
SYMMETRY MCSymmetry
CHECK_DEADLOCK FALSE
INVARIANTS
    ChainResolves
    InheritedIsOffered
    GotoFindsWhatIsOffered
    RequestsAgree
    PagesAddUp
    StreamedIsWhatIsReturned
    MemberUsagesFound
    VariableTypesAgree
    DeepDependenciesComplete
