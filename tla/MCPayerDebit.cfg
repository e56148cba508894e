SPECIFICATION Spec
CONSTANTS
    c1 = c1
    c2 = c2
    usdc = usdc
    eurc = eurc
    other = other
    OfferedAssets = {usdc, eurc, other}
    NoOption = NoOption
    Calls = {c1, c2}
    Assets = {usdc, eurc}
    Ceiling <- MCCeiling
    Challenges <- MCChallenges
    MaxAmounts <- MCMaxAmounts
    MAX_ATTEMPTS = 3
INVARIANT
    SettledPaymentsAreDebited
