SPECIFICATION Spec
CONSTANTS
    Requests = {r1, r2}
    Events = {e1, e2}
    Extensions = {x1}
    None = None
    Leavers = {r1}
    ThrowAfterRespond = FALSE
INVARIANTS
    EventsInv
    LoopNeverBlocks
    NoForeignWake
    NoPanic
PROPERTIES
    RequestReturns
    ImplementsExchange
