\* Fourteen independent parts, one after the other; see the module.
SPECIFICATION ServicesSpec
CONSTANTS
    GEntities = {a1, a2, a3, b1}
    GKeyOf <- MCKey
    GBoundaryOf <- MCBnd
    GProposals <- MCProps
    GAliases = {alias}
    GNoMemory = none
    GMaxRels = 3
    GMaxTime = 2
    a1 = a1
    a2 = a2
    a3 = a3
    b1 = b1
    works = works
    alias = alias
    m1 = m1
    m2 = m2
    EFacts = {f1}
    EClients = {k1, k2}
    EMaxContent = 2
    EMaxCrash = 1
    LMaxWrites = 2
    LMaxLives = 2
    MSchedules = {s1}
    MOff = off
    MSetters = {c1, c2}
    MRuns = {r1}
    MMaxSets = 2
    MMaxChanges = 1
    Processes = {p1, p2, p3}
    MaxCrashes = 2
    KProcs = {p1, p2}
    KMaxKeys = 3
    KMaxStarts = 3
    RMems = {1, 2, 3, 4}
    RAuth = {1, 2, 3}
    RFanout = 1
    RTop = 2
    RScale = 3782
    RLimits = {1, 2}
    RKeywordOrders <- MCOrders
    ROffers <- MCOffers
    RMaxChanges = 1
    FProcs = {p1, p2}
    FMaxFetches = 2
    Operators = {o1, o2}
    TMaxOps = 2
    Calls = {c1, c2}
    Desktop = {c2}
    CFacts = {1, 2, 3, 4}
    CVaults <- MCVaults
    CNear = 1
    CTopK = 2
    CMaxChanges = 1
    PFacts = {1, 2, 3, 4}
    PPlaces <- MCPlaces
    PListings <- MCListings
    PNear = 1
    PTopK = 1
    PLabels = {alias}
    PGeneral = works
    PHosts = {p1, p2}
    PNoHost = none
    PMaxRuns = 2
    PMaxStarts = 2
    Openers = {p1, p2}
    Knows <- MCKnows
    Alters = {2}
    SMaxOpens = 4
    p1 = p1
    Names = {n1, n2}
    Scopes = {s1, s2}
    Denied = denied
    Connections = {c1}
    AMaxTokens = 2
    AMaxRequests = 2
INVARIANTS
    
    
    
    
    PosixExclusion
    KeyOpensVault
    DataSurvives
    ErasureIsFinal
    AnswerOnceInForce
    RecallHitsScored
    NeverFalseEmpty
    ModelsWhole
    LagExplained
    ChangesOnRecord
    
    NewestStays
    ReportComplete
    MigratedOnce
    ScopeIsCurrent
PROPERTIES
    DeletedStaysDeleted
    
    DisconnectStops
    
    
    ReportsMoveForward
CHECK_DEADLOCK FALSE
