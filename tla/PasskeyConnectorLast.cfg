SPECIFICATION PCSpec
CONSTANTS
    PCNone = PCNone
    PCCalls = {p1, p2}
    PCWallets = {w1}
    PCExisting = {w1}
    PCMaxKeys = 3
    PCMaxOverlap = 2
INVARIANT
    PCRevokesLastMinted
