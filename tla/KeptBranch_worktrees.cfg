SPECIFICATION Spec
CONSTANTS
    a = a
    b = b
    Machine = {a, b}
    NoTip = NoTip
    Main = Main
    Line = {1, 2, 3, 4, 5}
    MaxPieces = 3
    MaxMoves = 1
    MaxFaults = 2
SYMMETRY Symmetry
INVARIANTS
    TypeOK
PROPERTIES
    OnlyAStaleMirrorOverwrites
    CommittedWorkStays
CHECK_DEADLOCK FALSE
