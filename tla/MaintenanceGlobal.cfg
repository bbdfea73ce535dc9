CONSTANTS
    p1 = p1
    Proc = {p1}
    None = None
    Arg = "__global__"
    Scope = None
    Threshold = 2
    MinInterval = 1
    MaxInterval = 2
    DecayInterval = 2
    SweepInterval = 1
    RedLined = FALSE
    Recorded = {}
    Others = 1
    Faults = 1
    MaxLag = 1
    Watched <- DecayOfP1
SPECIFICATION Spec
PROPERTIES Backstop
CHECK_DEADLOCK FALSE
