CONSTANTS
    r1 = r1
    r2 = r2
    c = c
    usual = usual
    other = other
    None = None
    Proc = {p1, p2}
    Run = {r1}
    Item = {1, 2}
    Decision = {usual, other}
    Concept = {c}
    EdgeManifest <- Manifests
    ConceptManifest <- Proposals
    Batch = 1
    Limit = 2
    MaxDecay = 2
    Start <- Rows
    MaxAttempt = 2
    MaxMoves = 0
SPECIFICATION Spec
INVARIANT Resumable
CHECK_DEADLOCK FALSE
