SPECIFICATION HandlesSpec
CONSTANTS
    Vars = {v1, v2, v3}
    Addresses = {o1, o2, o3, o4}
SYMMETRY Symmetry
CHECK_DEADLOCK FALSE
INVARIANTS HandlesSafe StaleByCopy
