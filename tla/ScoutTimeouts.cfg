SPECIFICATION Spec
CONSTANTS
    Devs = {}
    MaxSnaps = 1
    MaxFaults = 2
    ScoutTimesOut = TRUE
    Torn = Torn
    NoFile = NoFile
INVARIANTS PhasesInOrder OneResultPerFault
CHECK_DEADLOCK FALSE
