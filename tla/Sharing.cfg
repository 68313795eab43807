SPECIFICATION Spec
CONSTANTS
    example = example
    shop = shop
    r1 = r1
    r2 = r2
    Domains <- TwoDomains
    Requests <- TwoRequests
    MaxSites = 3
    MaxTokens = 4
SYMMETRY SameNames
CHECK_DEADLOCK FALSE
INVARIANTS
    TypeOK
    EndedLinksStayDead
    PublicHasLink
