SPECIFICATION Spec
CONSTANTS
    Names <- MCNames
    Sum <- MCSum
    MaxNum = 2
    Ids = {f, g}
    Ghost = ghost
    SPE = 2
    MinLen = 2
    MaxLen = 6
    Faults = TRUE
SYMMETRY Symmetry
INVARIANTS DirectorySound
PROPERTIES OthersUntouched WalkComplete
