SPECIFICATION Spec
CONSTANTS
    SSNone = SSNone
    SSAccounts = {a1, a2}
    SSMaxInFlight = 3
    SSMaxClock = 1
    SSStorageModes = {TRUE, FALSE}
    SSRefresh = TRUE
    PCNone = PCNone
    PCCalls = {p1, p2}
    PCWallets = {w1, w2}
    PCExisting = {w1}
    PCMaxKeys = 3
    PCMaxOverlap = 2
    PSNone = PSNone
    PSSigners <- MCSigners
    PSRequirements <- MCRequirements
    PSCeilings = {PSNone, 4}
    PSLedgerSeconds = 2
    PSMaxSeconds = 20
    PSMaxEntries = 2
    PSMaxLedger = 1
    RAMethods = {POST}
    RAPaths = {verify, settle}
    RABodies = {empty, b1}
    RAEmpty = empty
    RAAbsent = absent
    RAStream = stream
    RATicks = 2
    RATolerance = 1
    RAMaxAge = 1
    RAChallenges = {c1}
    RANone = RANone
    RAMaxSent = 1
    RAEnd = 5
SYMMETRY MCSymmetry
CHECK_DEADLOCK FALSE
INVARIANTS
    TypeOK
    SSStoreIsConsistent
    PCSessionsAreUsable
    PCStaleKeysAreExplained
    PSOnlyIntendedPaymentsAreSigned
    PSSignaturesAreSound
    RANothingIsReplayed
