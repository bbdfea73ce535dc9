CONSTANTS
    note = note
    adr = adr
    p1 = p1
    p2 = p2
    Item = {note, adr}
    Proc = {p1, p2}
    FbKey = {f1}
    None = None
    Adr = {adr}
    Anchored = {adr}
    Scopes <- ProjectOnly
    Bucket <- OneBucket
    Similar <- PairAlike
    CompareLimit = 1
    DeleteModes = {"soft"}
    Retrieved = {note}
    BatchLimit = 2
    Grace = 1
    MaxTime = 1
SYMMETRY ProcSymmetry
SPECIFICATION Spec
PROPERTY SweepErasesExpired
CHECK_DEADLOCK FALSE
