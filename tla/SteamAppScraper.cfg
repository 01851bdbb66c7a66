SPECIFICATION FairSpec
CONSTANTS
    w1 = w1
    w2 = w2
    c1 = c1
    c2 = c2
    NumJobs = 3
    Workers = {w1, w2}
    MaxConcurrentWorkers = 1
    MaxJobs = 2
    Cleaners = 1
    Consumers = {c1, c2}
    NumPosts = 2
    JobsPerMinute = 1
    DropJobsThreshold = 1
INVARIANTS
    TypeOK
    OnlyUnawaitedPanic
    AcceptedAnswered
    AnswersAreWhole
PROPERTIES
    StopEnds
CHECK_DEADLOCK FALSE
