SPECIFICATION Spec
CONSTANTS
    Requests = {r1, r2}
    Carriers = {c1}
    Extensions = {x1}
    MaxOps = 3
    MaxOdd = 1
    None = None
INVARIANTS
    BindingsInv
    ReadsCurrent
SYMMETRY Symmetry
