SPECIFICATION Spec
CONSTANTS
    Requests = {r1, r2}
    Contexts = {c1}
    Extensions = {x1}
    Fetches = {f1, f2}
    None = None
    Concurrent = 1
    Abandon = FALSE
PROPERTIES
    WaitGroupRule
    ContextComesBack
    FetchSettles
    ImplementsLease
