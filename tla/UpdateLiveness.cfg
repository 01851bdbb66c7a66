SPECIFICATION FairSpec
CONSTANTS
    t1 = t1
    t2 = t2
    r1 = r1
    r2 = r2
    w1 = w1
    w2 = w2
    TwitterDevs = {t1, t2}
    RedditDevs = {r1, r2}
    Discovered = {}
    Workers = {w1, w2}
    BatchSize = 2
    RateWindows = {1}
    RedditBatch = 1
    Outcomes = {"ok", "temporary"}
    MaxTimeouts = 1
    Stalls = FALSE
    BudgetShort = FALSE
    QueryFails = FALSE
    MaxFaults = 1
    ScoutTimesOut = FALSE
    NoDev = NoDev
    NoSave = NoSave
PROPERTIES
    PhaseEnds
