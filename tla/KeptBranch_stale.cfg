SPECIFICATION Spec
CONSTANTS
    a = a
    b = b
    Machine = {a, b}
    NoTip = NoTip
    Main = Main
    Line = {1, 2, 3, 4, 5}
    MaxPieces = 2
    MaxMoves = 0
    MaxFaults = 0
SYMMETRY Symmetry
PROPERTIES
    SavedWorkStays
CHECK_DEADLOCK FALSE
