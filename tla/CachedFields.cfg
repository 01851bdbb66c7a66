SPECIFICATION FieldsSpec
SYMMETRY Symmetry
CONSTANTS
    t1 = t1
    t2 = t2
    r1 = r1
    g1 = g1
    TwitterDevs = {t1, t2}
    RedditDevs = {r1}
    Games = {g1}
    MaxAdds = 2
    MaxInterrupted = 1
INVARIANTS
    NothingLost
    VisitedOnce
CHECK_DEADLOCK FALSE
