CONSTANTS
    s1 = s1
    s2 = s2
    Procs <- MCProcs
    NumSpecs = 2
    Broken <- MCBroken
    LeaseTTL = 1
    Interval = 1
    MaxTime = 2
    MaxStops = 1
SPECIFICATION FairSpec
INVARIANTS NothingInvented
PROPERTIES DueIsTried
CHECK_DEADLOCK FALSE
