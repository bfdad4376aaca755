CONSTANTS
    r1 = r1
    r2 = r2
    Ids <- MCIds
    Configs <- MCConfigs
    Requests <- MCRequests
    HeaderOf <- MCHeaderOf
    NoToken = NoToken
    MaxTokens = 2
    TTL = 1
    Threshold = 3
    Bodies <- MCBodies
    MaxTime = 2
SPECIFICATION Spec
INVARIANTS LinksStayGood OneCredential NothingForNothing
PROPERTIES RefusedStayUnsent
CHECK_DEADLOCK FALSE
