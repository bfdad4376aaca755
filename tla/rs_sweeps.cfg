CONSTANTS
    s1 = s1
    s2 = s2
    forced = forced
    Procs <- MCProcs
    Forced <- MCForced
    NumSpecs = 3
    Broken <- MCBroken
    LeaseTTL = 2
    Interval = 2
    MaxHold = 1
    MaxTime = 4
    MaxCrashes = 1
    MaxCancels = 1
SPECIFICATION FairSpec
INVARIANTS OneSweeper LeaseCoversSweep NoEarlyRefetch
PROPERTIES ImplementsRecord SweepsReachEverySpec
CHECK_DEADLOCK FALSE
