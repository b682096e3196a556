SPECIFICATION Spec
CONSTANTS
    Requests = {r1, r2}
    Extensions = {x1}
    Events = {e1, e2}
    Fetchers = {f1}
    Responses = {p1}
    Streams = {s1}
    Headers = {h1}
    Capacity = 1
    None = None
INVARIANTS
    HoldersInv
    PooledClean
    OwnObjects
PROPERTY GivesBack
