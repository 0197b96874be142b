SPECIFICATION FairSpec
CONSTANTS
    s1 = s1
    s2 = s2
    s3 = s3
    f1 = f1
    f2 = f2
    l1 = l1
    l2 = l2
    Paths = {f1, f2}
    Written = {f1}
    Sessions = {s1, s2, s3}
    Loops = {l1, l2}
    Loads <- MCLoads
    Addresses = {a1, a2, a3}
    Sizes = {0, 1}
    MaxVersion = 2
INVARIANTS
    NotStale
    AnnouncedIsSent
    InOrderOfUse
PROPERTIES
    SessionEnds
    DestroyReturns
    UnusedIsDropped
CHECK_DEADLOCK FALSE
