CONSTANTS
    s1 = s1
    s2 = s2
    forced = forced
    Procs <- MCServers
    Forced = {}
    NumSpecs = 2
    Broken <- MCFirstBroken
    LeaseTTL = 3
    Interval = 3
    MaxHold = 2
    MaxTime = 7
    MaxCrashes = 0
    MaxCancels = 0
SPECIFICATION FairSpec
PROPERTIES AttemptsAreRecorded
CHECK_DEADLOCK FALSE
