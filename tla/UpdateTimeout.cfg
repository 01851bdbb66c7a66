SPECIFICATION Spec
CONSTANTS
    t1 = t1
    t2 = t2
    r1 = r1
    w1 = w1
    w2 = w2
    TwitterDevs = {t1, t2}
    RedditDevs = {r1}
    Discovered = {r1, t2}
    Workers = {w1, w2}
    BatchSize = 1
    RateWindows = {1, 2}
    RedditBatch = 1
    Outcomes = {"ok", "temporary", "unread"}
    MaxTimeouts = 0
    Stalls = TRUE
    BudgetShort = FALSE
    QueryFails = FALSE
    MaxFaults = 2
    ScoutTimesOut = TRUE
    NoDev = NoDev
    NoSave = NoSave
INVARIANTS
    IInv
