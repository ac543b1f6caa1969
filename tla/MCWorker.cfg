SPECIFICATION Spec
CONSTANTS
    e1 = e1
    x = x
    email = email
    other = other
    p1 = p1
    None = None
    Malformed = Malformed
    NoType = NoType
    NotFound = NotFound
    Failed = Failed
    Tasks <- OneTask
    Types = {email, other}
    TypeOf <- MCTypeOf
    Partitions = {p1}
    PartitionOf <- MCPartitionOf
    WorkerType = email
    Registered = {email}
    Workers = {w1, w2}
    MaxLog = 1
    MaxRetries = 1
    KeysExpire = TRUE
    MaxFaults = 1
    Kinds = {"crash", "signal", "fetch", "rebalance"}
    MaxDisruptions = 2
CHECK_DEADLOCK FALSE
SYMMETRY Symmetry
INVARIANTS DoneIsReal DeadIsEarned AttemptsAreCalls
