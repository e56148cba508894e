SPECIFICATION SSSpec
CONSTANTS
    SSNone = SSNone
    SSAccounts = {w1}
    SSMaxInFlight = 2
    SSMaxClock = 1
    SSStorageModes = {TRUE}
    SSRefresh = TRUE
INVARIANT
    SSEndedStaysEnded
