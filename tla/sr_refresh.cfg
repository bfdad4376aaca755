CONSTANTS
    p1 = p1
    p2 = p2
    list = list
    add = add
    report = report
    Procs <- TwoProcs
    Ops <- MCOps
    OpsOf <- MCOpsOf
    FirstVersions = {0, 1}
    MaxVersion = 3
    MaxFaults = 2
SPECIFICATION FairSpec
INVARIANTS TypeOK IndexMatchesLoaded
PROPERTIES ImplementsService DiskCatchesUp SweeperCatchesUp
CHECK_DEADLOCK FALSE
