SPECIFICATION Spec
CONSTANTS
    g1 = g1
    g2 = g2
    Threads = {g1, g2}
    Totals = {1, 3}
    MinResources = 1
    MaxResources = 2
    Requests = 2
    Cap = 3
    MaxCalls = 2
    MaxPeriods = 1
    MaxMonths = 1
    MaxFaults = 2
    None = None
    Torn = Torn
SYMMETRY Symmetry
INVARIANTS
    TypeOK
    CapAccounts
    LimitAccounts
CHECK_DEADLOCK FALSE
