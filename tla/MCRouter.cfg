SPECIFICATION Spec
CONSTANTS
    base_url <- Base
    Declarations <- MCDeclarations
    Requests <- MCRequests
    MaxDeclarations = 3
INVARIANTS
    AnsweredAsDeclared
    AllowIsRight
    HandedWhatWasSent
CHECK_DEADLOCK FALSE
