SPECIFICATION FairSpec
CONSTANTS
    t1 = t1
    t2 = t2
    r1 = r1
    r2 = r2
    t3 = t3
    Twitter = {t1, t2, t3}
    Reddit = {r1, r2}
    Ranking <- MCRanking
    Tried = {t1, t2, t3, r1}
    KeepEnabled = 1
    ToEnable = 2
    MaxFaults = 2
    NoSave = NoSave
INVARIANTS
    TypeOK
    DisabledStayDisabled
    EnabledAsPlanned
PROPERTIES
    PhasesEnd
CHECK_DEADLOCK FALSE
