SPECIFICATION FairSpec
CONSTANTS
    p1 = p1
    p2 = p2
    p3 = p3
    Proc <- MCProc
    HostOf <- MCHostOf
    None = None
    ReadsMayFail = TRUE
    Hindered <- MCHindered
    Sleeps = 2
    MaxDeaths = 2
INVARIANTS
    TypeOK
    LocksAreWritten
    OwnersExcludeEachOther
    SuccessIsTrue
    NoLitter
\* The processes end, and nothing happens after that.
CHECK_DEADLOCK FALSE
PROPERTIES
    ConstructorReturns
    WaitReturns
