SPECIFICATION Spec
CONSTANTS
    Runner = {r1, r2}
    Inode = {i1, i2, i3, i4, i5}
    Part = 2
    Overlap = TRUE
    MaxBuilt = 2
    None = None
INVARIANT
    ManifestIsWhole
CHECK_DEADLOCK FALSE
