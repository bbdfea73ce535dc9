CONSTANTS
    t1 = t1
    t2 = t2
    turn = turn
    u1 = u1
    u2 = u2
    k1 = k1
    k2 = k2
    m = m
    n = n
    None = None
    Task = {t1, t2}
    Turn = {turn}
    TurnOf <- OneTurn
    Use = {u1, u2}
    Key = {k1, k2}
    Text = {x}
    Memory = {m, n}
    Retrieved <- AllRetrieved
    Request <- Requests
    Proc = {p1, p2}
    MaxRows = 5
SYMMETRY ProcSymmetry
SPECIFICATION Spec
CHECK_DEADLOCK FALSE
PROPERTY ClosedToEvidence
