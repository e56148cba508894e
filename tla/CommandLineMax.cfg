SPECIFICATION CLSpec
CONSTANTS
    CLPrices = {1, 2, 3}
    CLMax = 2
    CLTimeout = 5
    CLInterval = 2
    CLLate = 2
    CLNone = CLNone
CHECK_DEADLOCK FALSE
INVARIANT
    CLSignedWithinMax
