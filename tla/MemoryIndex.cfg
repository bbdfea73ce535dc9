CONSTANTS
    p1 = p1
    p2 = p2
    i1 = i1
    i2 = i2
    Item = {i1, i2}
    Proc = {p1, p2}
    None = None
    BatchLimit = 2
SYMMETRY Symmetry
SPECIFICATION Spec
INVARIANTS IndexTypeOK NoOrphans ActiveHasVector QuietReindexHeals
PROPERTY IndexPromiseKept
CHECK_DEADLOCK FALSE
