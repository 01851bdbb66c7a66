SPECIFICATION Spec
CONSTANTS
    a1 = a1
    a2 = a2
    b1 = b1
    r1 = r1
    r2 = r2
    r3 = r3
    r4 = r4
    s1 = s1
    s2 = s2
    d1 = d1
    d2 = d2
    g1 = g1
    Subs = {s1, s2}
    Pages <- MCPages
    Retweeted <- MCRetweeted
    Top <- MCTop
    PerSubreddit = 2
    Author <- MCAuthor
    GameOf <- MCGameOf
    NumBatches = 3
    Scrapers = 1
    Batchers = 1
    MaxFaults = 2
    None = None
INVARIANTS
    TypeOK
    SnapshotsHaveDevelopers
    NoPostTwice
PROPERTIES
    DiscoveryEnds
CHECK_DEADLOCK FALSE
