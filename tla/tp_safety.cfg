CONSTANTS
    p1 = p1
    p2 = p2
    t1 = t1
    t2 = t2
    t3 = t3
    Procs <- MCProcs
    Tasks <- MCTasks
    ProcOf <- MCProcOf
    Keys = {k1}
    Nobody = Nobody
    NoToken = NoToken
    ExpiryBuffer = 1
    BareLifetime = 2
    Lifetimes <- MCLifetimes
    MaxTokens = 2
    MaxTime = 2
SPECIFICATION Spec
INVARIANTS FetchMutex NoStampede LockIffFetching RetiredStaysRetired
PROPERTIES NoReplay ImplementsStore
CHECK_DEADLOCK TRUE
