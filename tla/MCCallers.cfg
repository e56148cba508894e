SPECIFICATION Spec
CONSTANTS
    a1 = a1
    a2 = a2
    shop = shop
    WCNone = WCNone
    WCCalls = {c1, c2, c3}
    WCAccounts = {a1, a2}
    WCDeployed = {a1}
    WCPayments <- MCPayments
    WCMints <- MCMints
    WCSigner = a1
    WCNow = 5
    AKCalls = {c1, c2, c3}
    AKKeys = {k1}
    AKNone = AKNone
    AKNow = 5
    AKRetries = 1
    AKInputs <- MCInputs
    PDJobs = {e1, e2}
    PDNone = PDNone
    PDAttempts = 2
    PDDefinitions <- MCDefinitions
    CACalls = {e1, e2}
    CANets = {n1, n2}
    CANone = CANone
    CATtl = 1
    CAVersions = 3
    CAEnd = 2
    IDCalls = {c1, c2, c3}
    IDKeys = {k1, k2}
    IDPayloads = {x1, x2}
    IDMaxEntries = 1
    IDAttempts = 2
    IDCreations = 2
    IDNone = IDNone
    IDInvalid = IDInvalid
    SLCalls = {e1, e2}
    SLNone = SLNone
    SLAmounts = {1, 2}
    SLCeiling = 3
    SLMost = 4
    SLCrashes = 1
SYMMETRY MCSymmetry
CHECK_DEADLOCK FALSE
INVARIANTS
    TypeOK
    WCActsForTheSession
    AKRevocationsAreTrue
    PDDeploymentsAreTrue
    CAEntriesAreExplained
    IDOneSubmissionPerKey
    SLBooksCoverTheChain
