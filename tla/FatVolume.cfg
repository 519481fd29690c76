SPECIFICATION Spec
CONSTANTS
    N = 4
    PerSector = 1
    Slots = 2
    Names = {a, b}
    Ids = {f, g}
    Fils = {fp, fq}
    MaxSize = 2
    MaxDirs = 2
SYMMETRY Symmetry
CONSTRAINT NotHurt
INVARIANTS AlwaysSound SavedFilesSurvive
