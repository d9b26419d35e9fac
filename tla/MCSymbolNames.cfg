SPECIFICATION NamesSpec
CONSTANTS
    GlobalNames <- MCGlobalNames
    Anonymous = {1, 11}
    Labels <- MCLabels
    Tables <- MCTables
    Immediates = {0, 5, 10, 55, 99}
    MaxWritten = 2
INVARIANTS
    TextTellsSymbols
    InventedNamesDiffer
