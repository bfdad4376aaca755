CONSTANTS
    Declarations <- MCDeclarations
    Users <- MCUsers
    Default = "carol"
    MaxTokens = 2
SPECIFICATION Spec
INVARIANTS ObedientHelpersServe
CHECK_DEADLOCK FALSE
