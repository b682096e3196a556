SPECIFICATION Spec
CONSTANTS
    Requests = {r1}
    Events = {e1}
    Extensions = {x1}
    None = None
    Leavers = {r1}
    ThrowAfterRespond = TRUE
INVARIANT NoPanic
CHECK_DEADLOCK FALSE
