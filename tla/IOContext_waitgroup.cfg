SPECIFICATION Spec
CONSTANTS
    Requests = {r1}
    Contexts = {c1}
    Extensions = {x1}
    Fetches = {f1, f2}
    None = None
    Concurrent = 1
    Abandon = TRUE
PROPERTIES
    WaitGroupRule
