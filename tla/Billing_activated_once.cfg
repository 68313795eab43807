SPECIFICATION Spec
CONSTANTS
    starter = starter
    growth = growth
    o1 = o1
    o2 = o2
    n1 = n1
    ipn = ipn
    browser = browser
    cron = cron
    Plans <- OnePlan
    Orders <- OneOrder
    Renewals <- NoRenewal
    Calls <- TwoCalls
    Crons <- NoCron
    Period = 2
    Grace = 1
    MaxTime = 1
    MaxCalls = 2
    MaxToggles = 0
    MaxErrors = 0
CHECK_DEADLOCK FALSE
INVARIANTS
    ActivatedOnce
