SPECIFICATION Spec
CONSTANTS
    a = a
    b = b
    Link = {l1, l2}
    Key <- MCKey
    Size <- MCSize
    MaxBytes = 2
    None = None
    Memory = Memory
    MaxCrashes = 1
SYMMETRY Alike
INVARIANTS
    TypeOK
    EntriesAreWhole
    BuffersStayWhole
    LostOnlyToPruning
    SuccessMeansObjects
    NoTempLeft
    PrunedToSize
\* The links end, and nothing happens after that.
CHECK_DEADLOCK FALSE
