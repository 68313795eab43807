SPECIFICATION FairSpec
CONSTANTS
    acme = acme
    r1 = r1
    r2 = r2
    Orgs <- OneOrg
    Requests <- TwoRequests
    MaxMonth = 2
    MaxHits = 2
    MaxFailures = 1
INVARIANTS
    TypeOK
    NeverOverbills
    CountNotAhead
PROPERTIES
    LossHasCause
    FlushesEventually
    StopReturns
