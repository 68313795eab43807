SPECIFICATION Spec
CONSTANTS
    Paths <- FourPaths
    NoPath <- EmptyPath
    Excluded <- AdminOnly
    Events = {"buy"}
    MaxMoves = 2
    MaxCalls = 2
    MaxTabs = 1
    Words <- SmallWords
    Limits <- SmallLimits
    MaxSites = 2
    MaxChecks = 2
    MaxFailures = 1
    Visits <- SomeVisits
    FirstVisit <- PlainVisit
    Page <- PageAt
    Domain <- OwnDomain
CHECK_DEADLOCK FALSE
INVARIANTS
    TypeOK
    OnePageviewPerStay
    StoredAsAgreed
PROPERTIES
    ListeningFinds
