SPECIFICATION Spec
CONSTANTS
    e1 = e1
    e2 = e2
    d1 = d1
    d2 = d2
    d3 = d3
    s1 = s1
    g1 = g1
    g2 = g2
    a1 = a1
    PartialTwitter = {e1}
    PartialReddit = {e2}
    Snapshots <- MCSnapshots
    Disabled = {d1, d2, d3, s1}
    Old = {s1}
    Verified = {}
    Score <- MCScore
    Trend <- MCTrend
    Advocates <- MCAdvocates
    TopApps = {a1}
    Percent = 50
    MaxTrending = 2
    Retries = 2
    MaxFaults = 3
INVARIANTS
    TypeOK
    DeletedRemembered
    QuotaKept
    WatchedKept
    BoardOnce
CHECK_DEADLOCK FALSE
