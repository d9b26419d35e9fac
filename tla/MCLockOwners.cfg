SPECIFICATION Spec
CONSTANTS
    p1 = p1
    p2 = p2
    p3 = p3
    Proc <- MCProc
    HostOf <- MCHostOf
    None = None
    ReadsMayFail = FALSE
    Hindered = {}
    Sleeps = 2
    MaxDeaths = 0
INVARIANT OneOwner
CHECK_DEADLOCK FALSE
