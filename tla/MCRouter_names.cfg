SPECIFICATION Spec
CONSTANTS
    base_url <- Base
    Declarations <- MCDeclarations
    Requests <- NameRequests
    MaxDeclarations = 3
INVARIANT CaptureNamesDoNotMatter
CHECK_DEADLOCK FALSE
