SPECIFICATION Spec
CONSTANTS
    Requests = {}
    Chained = {}
    NumShards = 2
    CounterSize = 4
    Instances = {i1, i2, i3, i4}
    Loaders = {l1, l2}
    Stopper = st
    Interrupting = {l1, l2}
    Cooperative = {}
    Awaiting = {}
    None = None
SYMMETRY Symmetry
INVARIANTS
    InstalledRuns
    LoopsInv
    StaysReady
