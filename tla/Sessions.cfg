SPECIFICATION AccountsSpec
CONSTANTS
    t1 = t1
    r1 = r1
    r2 = r2
    f1 = f1
    f2 = f2
    ada = ada
    bob = bob
    pw1 = pw1
    pw2 = pw2
    s1 = s1
    s2 = s2
    Tokens <- OneToken
    Requests <- TwoRequests
    Forms <- TwoForms
    Emails <- ThreeEmails
    Passwords <- TwoPasswords
    Slugs <- TwoSlugs
    TTL = 4
    RenewThreshold = 2
    MaxStall = 1
    MaxTime = 5
SYMMETRY Same
CHECK_DEADLOCK FALSE
INVARIANTS
    TypeOK
    LoggedOutStaysDead
    IdleSessionsEnd
    UseKeepsAlive
    AccountsComplete
