SPECIFICATION IngestorFairSpec
CONSTANTS
    acme = acme
    r1 = r1
    r2 = r2
    Orgs <- OneOrg
    Requests <- TwoRequests
    MaxMonth = 2
    MaxHits = 1
    MaxFailures = 1
    FlushSize = 1
    MaxRows = 1
    Limit <- LimitOne
    Block = TRUE
CHECK_DEADLOCK FALSE
INVARIANTS
    IngestorOK
    CleanExitDrains
    BlockedOnlyOverLimit
    CountedOnceBufferedOnce
PROPERTIES
    ShutdownCompletes
