SPECIFICATION Spec
CONSTANTS
    base_url <- Base
    Declarations <- MCDeclarations
    Requests <- MCRequests
    MaxDeclarations = 3
INVARIANTS
    Inv
    BadQueryIsRefused
CHECK_DEADLOCK FALSE
