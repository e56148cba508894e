SPECIFICATION Spec
CONSTANTS
    TSNone = TSNone
    TSCapacity = 2
    TSToken = 3
    TSRefill = 2
    TSMaxAttempts = 2
    TSBaseDelay = 1
    TSTimeout = 2
    TSInterval = 1
    TSMaxDelay = 2
    TSPolls = 2
    TSCacheTtl = 2
    TSEnd = 4
    UPCalls = {c1, c2}
    UPCeilings = {0, 2, 3}
    UPMaxAmount = 2
    UPBudget = 3
    UPNone = UPNone
    UPBad = UPBad
    MSPolicy = "P"
    MSOther = "Q"
    MSText = 3
    SXCalls = {c1, c2, c3}
    SXLives = 4
    SXNone = SXNone
    FGPrices = {1, 2, 3, 4}
    FGMax = 3
    FGThreshold = 2
    FGLower = 1
    FGHops = 2
    FGAttempts = 3
    FGConnects = 3
    FGNone = FGNone
    PTCalls = {c1, c2}
    PTPrices = {1, 2, 3}
    PTMax = 2
    PTBudget = 2
    PTNone = PTNone
    CLPrices = {1, 2, 3}
    CLMax = 2
    CLTimeout = 5
    CLInterval = 2
    CLLate = 2
    CLNone = CLNone
    PGIds = {65, 66, 67}
    PGQueries <- MCQueries
    PGMaxPage = 2
    PGChanges = 3
    PGTxs = 3
    PGPollsMax = 2
    PGTasks = {t1, t2, t3, t4}
    PGSlots = 2
    RGWorkers = {w1, w2}
    RGWorkspaces = {p1, p2}
    RGPublishes = 2
    OTCalls = {c1, c2}
    OTRequests = 3
    OTNone = OTNone
    CBCalls = {b1, b2, b3, b4}
    CBFailureThreshold = 3
    CBOpenDuration = 2
    CBHalfOpenMaxCalls = 2
CHECK_DEADLOCK FALSE
INVARIANTS
    TypeOK
    TSRateIsBounded
    TSReportsTheLedger
    
    MSServerIsSafe
    
    FGWrappersHold
    
    CLExitCodesAreTrue
    PGReadsAreSound
    RGReleaseIsGated
    OTToolsHold
    CBBreakerIsSound
PROPERTIES
    TSWaitsEnd
    CBRecovers
