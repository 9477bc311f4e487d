CONSTANTS
    a1 = a1
    a2 = a2
    b1 = b1
    a = a
    b = b
    p1 = p1
    p2 = p2
    Procs = {p1, p2}
    Nobody = Nobody
    Cases = {a, b}
    Bundles = {a1, a2, b1}
    CaseOf <- MCCaseOf
    Files = {1, 2}
    None = None
    Garbage = Garbage
    Foreign = Foreign
    MaxEdits <- MCMaxEdits
SYMMETRY Symmetry
SPECIFICATION Spec
INVARIANTS
    RowMatchesHistory
    RepeatsBounded
PROPERTIES
    AppendOnly
    ReindexSweeps
CHECK_DEADLOCK FALSE
