SPECIFICATION Spec
CONSTANTS
    e1 = e1
    n = n
    email = email
    other = other
    p1 = p1
    None = None
    Malformed = Malformed
    NoType = NoType
    NotFound = NotFound
    Failed = Failed
    Tasks <- ForeignTasks
    Types = {email, other}
    TypeOf <- MCTypeOf
    Partitions = {p1}
    PartitionOf <- MCPartitionOf
    WorkerType = email
    Registered = {email}
    Workers = {}
    Dispatchers = {d1, d2}
    RateLimited = TRUE
    MaxLog = 2
    MaxRetries = 1
    KeysExpire = FALSE
    MaxFaults = 1
    Kinds = {}
    MaxDisruptions = 0
    DKinds = {"crash", "signal", "fetch", "rebalance"}
    MaxDDisruptions = 2
    Foreigners <- SomeForeigners
CHECK_DEADLOCK FALSE
SYMMETRY Symmetry
INVARIANTS RoutedIsSomewhere WorkIsRouted LostWasSkipped
