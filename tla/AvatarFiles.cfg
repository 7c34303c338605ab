SPECIFICATION Spec
CONSTANTS
    User = {u1, u2}
    Update = {w1, w2, w3, w4}
    None = None
SYMMETRY Symmetry
CHECK_DEADLOCK FALSE
INVARIANTS AvatarIsStored OrphansAreExplained
