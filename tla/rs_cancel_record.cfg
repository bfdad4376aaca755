CONSTANTS
    s1 = s1
    s2 = s2
    forced = forced
    Procs <- MCServers
    Forced = {}
    NumSpecs = 2
    Broken <- MCNoneBroken
    LeaseTTL = 3
    Interval = 3
    MaxHold = 2
    MaxTime = 6
    MaxCrashes = 0
    MaxCancels = 1
SPECIFICATION RecordCancelSpec
INVARIANTS OneSweeper
CHECK_DEADLOCK FALSE
