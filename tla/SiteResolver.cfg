SPECIFICATION Spec
CONSTANTS
    shop = shop
    r1 = r1
    r2 = r2
    Domains <- OneDomain
    Requests <- TwoRequests
    TTL = 2
    MaxTime = 4
    MaxChanges = 3
INVARIANTS
    TypeOK
    StaleAtMostTTL
