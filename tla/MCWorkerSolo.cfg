SPECIFICATION FairSpec
CONSTANTS
    e1 = e1
    x = x
    email = email
    other = other
    p1 = p1
    None = None
    Malformed = Malformed
    NoType = NoType
    NotFound = NotFound
    Failed = Failed
    Tasks <- MixedTasks
    Types = {email, other}
    TypeOf <- MCTypeOf
    Partitions = {p1}
    PartitionOf <- MCPartitionOf
    WorkerType = email
    Registered = {email}
    Workers = {w1}
    MaxLog = 2
    MaxRetries = 1
    KeysExpire = FALSE
    MaxFaults = 0
    Kinds = {"crash", "fetch", "rebalance"}
    MaxDisruptions = 2
CHECK_DEADLOCK FALSE
INVARIANTS AcceptedIsTerminal
PROPERTIES TerminalIsFinal NoCallOnceTerminal TasksFinish ImplementsLifecycle
