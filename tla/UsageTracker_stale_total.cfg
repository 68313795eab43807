SPECIFICATION Spec
CONSTANTS
    acme = acme
    r1 = r1
    r2 = r2
    Orgs <- OneOrg
    Requests <- TwoRequests
    MaxMonth = 1
    MaxHits = 2
    MaxFailures = 0
PROPERTIES
    ReturnsMonthToDate
