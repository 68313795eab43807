SPECIFICATION Spec
CONSTANTS
    starter = starter
    growth = growth
    o1 = o1
    o2 = o2
    n1 = n1
    ipn = ipn
    browser = browser
    cron = cron
    Plans <- TwoPlans
    Orders <- TwoOrders
    Renewals <- OneRenewal
    Calls <- TwoCalls
    Crons <- OneCron
    Period = 2
    Grace = 1
    MaxTime = 2
    MaxCalls = 2
    MaxToggles = 1
    MaxErrors = 2
SYMMETRY Alike
CHECK_DEADLOCK FALSE
INVARIANTS
    TypeOK
    PlanWasPaid
    OneCyclePerActivation
    PaidMeansActivated
PROPERTIES
    ReplayIsHarmless
