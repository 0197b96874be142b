SPECIFICATION FairSpec
CONSTANTS
    Libraries <- MCLibraries
    StatusPlugin = StatusPlugin
    HalfMax = 1
    Sessions = {s1, s2, s3}
    Loops = {l1, l2}
    s1 = s1
    s2 = s2
    s3 = s3
    l1 = l1
    l2 = l2
    LoopOf <- TwoLoops
    Rest = "rest"
    Names = {"a", "b", "c"}
    Requests <- MCRequests
    Workloads <- MCWorkloads
    Nobody = Nobody
    NoRequest = NoRequest
    NoAnswer = NoAnswer
    Dropped = Dropped
INVARIANTS LifeCycle ServedInOrder
PROPERTIES ImplementsDeviceList Answered
CHECK_DEADLOCK FALSE
