SPECIFICATION Spec
CONSTANTS
    Runner = {r1, r2}
    Inode = {i1, i2, i3}
    Part = 2
    Overlap = FALSE
    MaxBuilt = 4
    None = None
INVARIANTS
    TypeOK
PROPERTIES
    OverwritesAtomically
CHECK_DEADLOCK FALSE
