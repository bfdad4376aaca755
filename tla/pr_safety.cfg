CONSTANTS
    Declarations <- MCDeclarations
    Users <- MCUsers
    Default = "carol"
    MaxTokens = 2
SPECIFICATION Spec
INVARIANTS NeverAcrossIdentities ContractKept
CHECK_DEADLOCK FALSE
