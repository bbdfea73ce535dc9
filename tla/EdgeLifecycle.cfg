CONSTANTS
    early = early
    again = again
    late = late
    back = back
    e = e
    f = f
    None = None
    Proc = {p1, p2}
    Run = {early, again, late, back}
    Request <- Requests
    Edge = {e, f}
    Foreign = {}
    Protected = {f}
    ColdAge = 1
    Dwell = 1
SYMMETRY ProcSymmetry
SPECIFICATION Spec
INVARIANTS EdgeTypeOK AuditTold RunOnce
PROPERTY NeverRevived
CHECK_DEADLOCK FALSE
