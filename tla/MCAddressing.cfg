SPECIFICATION Spec
CONSTANTS
    WordSize = 32
    Entries = {16, 28}
    Offsets <- MCOffsets
    Align = 4
    StackSizes = {0, 4, 8}
    Adjusts = {0, 8}
    Values = {0, 7, 30}
    Constants <- MCConstants
INVARIANTS
    AddressKept
