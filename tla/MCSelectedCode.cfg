SPECIFICATION CodeSpec
CONSTANTS
    Bits = 1
    Last = 4
    f0 = f0
    f1 = f1
    Regs <- MCRegs
INVARIANTS
    SelectionKeepsMeaning
