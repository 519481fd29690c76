SPECIFICATION SpecAll
CONSTANTS
    N = 6
    Files = {f}
    Dirs = {d, e}
    MaxSize = 3
SYMMETRY Symmetry
INVARIANT DirSizeValid
