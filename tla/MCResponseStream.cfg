SPECIFICATION FairSpec
CONSTANTS
    Scripts <- MCScripts
    ErrorBody <- MCErrorBody
    Capacity = 2
    SendBuffer = 4
    Record = 3
    IovMax = 3
    Room = 3
INVARIANTS FramingAgrees NeverGarbled NotReplacedOnceStarted RetriedAsBefore
PROPERTY ResponseEnds
CHECK_DEADLOCK FALSE
