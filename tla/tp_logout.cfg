CONSTANTS
    p1 = p1
    p2 = p2
    t1 = t1
    t2 = t2
    t3 = t3
    Procs <- MCProcs
    Tasks <- MCTasks
    ProcOf <- MCProcOf
    Keys = {k1}
    Nobody = Nobody
    NoToken = NoToken
    ExpiryBuffer = 1
    BareLifetime = 2
    Lifetimes <- MCLifetimes
    MaxTokens = 1
    MaxTime = 0
SPECIFICATION FairLogoutSpec
INVARIANTS LogoutWipesInstalled OnlyUnlinkingLetsTwoFetch
PROPERTIES RequestsSettle LocksAreFreed
