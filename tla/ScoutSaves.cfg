SPECIFICATION FairSpec
CONSTANTS
    d1 = d1
    d2 = d2
    Devs = {d1, d2}
    MaxSnaps = 1
    MaxFaults = 2
    ScoutTimesOut = FALSE
    Torn = Torn
    NoFile = NoFile
INVARIANTS TypeOK OneSave PastPhasesHaveTheirTimes
PROPERTIES ProcedureEnds
CHECK_DEADLOCK FALSE
