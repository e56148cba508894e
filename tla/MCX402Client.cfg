SPECIFICATION Spec
CONSTANTS
    f1 = f1
    f2 = f2
    f3 = f3
    usdc = usdc
    other = other
    shop = shop
    farm = farm
    groceries = groceries
    untagged = untagged
    Wildcard = Wildcard
    NoOption = NoOption
    AllowedAssets = {usdc}
    Challenges <- MCChallenges
    MaxAmounts <- MCMaxAmounts
    Calls = {f1, f2, f3}
    RuleSets <- MCRuleSets
    HoursPerDay = 2
    DaysPerWeek = 2
    MaxOverlap = 2
SYMMETRY MCSymmetry
INVARIANTS
    TypeOK
    SignedIsWithinLimits
    PeriodBudgetsAreAccounted
