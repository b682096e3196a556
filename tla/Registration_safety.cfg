SPECIFICATION Spec
CONSTANTS
    Requests = {r1, r2}
    Calls = 3
SYMMETRY Symmetry
INVARIANTS
    HandlerStored
    OptionsStored

