CONSTANTS
    x = x
    Imports = {m, n}
    Contents = {x}
    Refs = 1
    Bound <- MCBound
    Inodes = {i1, i2, i3, i4}
    None = None
    MaxChanges = 0
SPECIFICATION Spec
INVARIANTS
    ObjectsMatchNames
CHECK_DEADLOCK FALSE
