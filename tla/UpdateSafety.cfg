SPECIFICATION Spec
CONSTANTS
    t1 = t1
    t2 = t2
    r3 = r3
    r1 = r1
    r2 = r2
    w1 = w1
    w2 = w2
    TwitterDevs = {t1, t2}
    RedditDevs = {r1, r2, r3}
    Discovered = {}
    Workers = {w1, w2}
    BatchSize = 2
    RateWindows = {1, 2}
    RedditBatch = 1
    Outcomes = {"ok", "temporary", "permanent", "unread"}
    MaxTimeouts = 0
    Stalls = TRUE
    BudgetShort = TRUE
    QueryFails = TRUE
    MaxFaults = 1
    ScoutTimesOut = FALSE
    NoDev = NoDev
    NoSave = NoSave
SYMMETRY Symmetry
INVARIANTS
    TypeOK
    OneJobPerDeveloper
    SnapshotsOnce
    SavedStateIsConsistent
    ReturnsWhenAllAreDone
    RateLimitReadAtRest
PROPERTIES
    KeepsLedger
CHECK_DEADLOCK FALSE
