SPECIFICATION Spec
CONSTANTS
    example = example
    shop = shop
    r1 = r1
    r2 = r2
    Domains <- TwoDomains
    Requests <- TwoRequests
    MaxSites = 1
    MaxTokens = 2
CHECK_DEADLOCK FALSE
INVARIANTS
    RotationIsFinal
