SPECIFICATION Spec
CONSTANTS
    Requests = {r1, r2}
    RequestContexts = {e1, e2}
    None = None
    Careless = {r1}
    Habits = {"throwAfterSend", "nextAfterSend", "statusOnly", "ignoreRes"}
INVARIANTS
    ContextsInv
    LoopNeverBlocks
    NoPanic
PROPERTIES
    RequestReturns
    ImplementsExchange
