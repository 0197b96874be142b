SPECIFICATION Spec
CONSTANTS
    Scripts <- TlsScripts
    ErrorBody <- MCErrorBody
    Capacity = 2
    SendBuffer = 4
    Record = 3
    IovMax = 3
    Room = 3
INVARIANT ReplacesOnlyWhole
CHECK_DEADLOCK FALSE
