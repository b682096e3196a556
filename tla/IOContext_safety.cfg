SPECIFICATION Spec
CONSTANTS
    Requests = {r1, r2}
    Contexts = {c1, c2}
    Extensions = {x1, x2}
    Fetches = {f1, f2}
    None = None
    Concurrent = 1
    Abandon = FALSE
SYMMETRY Symmetry
INVARIANTS
    NoPanic
    ExclusiveContext
    CleanPool
    SafeRelease
    LimiterBound
    IInv
    ExtendedStaysLive
