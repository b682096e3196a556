SPECIFICATION Spec
CONSTANTS
    Requests = {r1, r2, r3}
    Chained = {r2}
    NumShards = 2
    CounterSize = 4
    Instances = {i1, i2}
    Loaders = {l1}
    Stopper = st
    Interrupting = {st}
    Cooperative = {r1, r2}
    Awaiting = {r1}
    None = None
INVARIANT RoundRobin
PROPERTIES
    AnsweredOrStuck
    InterruptFrees
