CONSTANTS
    base = base
    wide = wide
    first = first
    both = both
    other = other
    edit1 = edit1
    edit2 = edit2
    ok1 = ok1
    ok2 = ok2
    no1 = no1
    out1 = out1
    reuse = reuse
    relate = relate
    None = None
    Proc = {p1, p2}
    Candidate = {base, wide}
    Growth = {first, both, other}
    Manifest <- Manifests
    Review = {edit1, edit2, ok1, ok2, no1, out1, reuse, relate}
    Request <- Requests
SYMMETRY ProcSymmetry
SPECIFICATION Spec
INVARIANTS ReviewTypeOK ProposedOnce KeysOnce VersionsLinear ApprovalSound Acyclic
CHECK_DEADLOCK FALSE
