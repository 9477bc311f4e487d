CONSTANTS
    x = x
    Imports = {m}
    Contents = {x, y}
    Refs = 2
    Bound <- MCBound
    Inodes = {i1, i2, i3}
    None = None
    MaxChanges = 3
SPECIFICATION Spec
INVARIANTS
    ObjectsMatchNames
    ManifestIsBacked
PROPERTIES
    AbortLeavesNoPart
CHECK_DEADLOCK FALSE
