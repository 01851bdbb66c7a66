SPECIFICATION Spec
CONSTANTS
    t1 = t1
    t2 = t2
    about = about
    AccessToken = accessToken
    Threads = {t1, t2}
    Bindings = {about}
    Allowed = 2
    PeriodCountMax = 2
    PeriodsPerDay = 1
    TokenPeriods = 2
    MaxPeriod = 3
    MaxRequests = 5
    MaxFaults = 1
    None = None
SYMMETRY Symmetry
INVARIANTS
    TypeOK
    RequestsCounted
CHECK_DEADLOCK FALSE
