SPECIFICATION Spec
CONSTANTS
    N = 5
    Files = {f}
    Dirs = {d, e}
    MaxSize = 3
SYMMETRY Symmetry
INVARIANT ChainsReadRight
