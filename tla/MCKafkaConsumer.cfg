\* No symmetry: liveness is checked too.
SPECIFICATION FairSpec
CONSTANTS
    Consumers = {c1, c2}
    Partitions = {p1, p2}
    None = None
    MaxOffset = 2
    Kinds = {"crash", "signal", "fetch", "rebalance"}
    MaxDisruptions = 1
CHECK_DEADLOCK FALSE
INVARIANTS IInv CommittedWasHandled ResumesAfterSuccess
PROPERTIES ImplementsAtLeastOnce EveryMessageHandled
