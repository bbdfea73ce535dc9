CONSTANTS
    p1 = p1
    Proc = {p1, p2}
    None = None
    Arg = "project"
    Scope = "project"
    Threshold = 2
    MinInterval = 1
    MaxInterval = 2
    DecayInterval = 2
    SweepInterval = 1
    RedLined = FALSE
    Recorded = {"own"}
    Others = 1
    Faults = 1
    MaxLag = 1
    Watched <- DecayOfP1
SPECIFICATION Spec
INVARIANTS MaintenanceTypeOK
PROPERTIES Backstop EventuallySwept OwnRhythm
CHECK_DEADLOCK FALSE
