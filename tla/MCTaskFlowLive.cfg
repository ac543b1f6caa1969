SPECIFICATION FairSpec
CONSTANTS
    e1 = e1
    n = n
    email = email
    other = other
    p1 = p1
    None = None
    Malformed = Malformed
    NoType = NoType
    NotFound = NotFound
    Failed = Failed
    Tasks <- OneTask
    Types = {email, other}
    TypeOf <- MCTypeOf
    Partitions = {p1}
    PartitionOf <- MCPartitionOf
    WorkerType = email
    Registered = {email}
    Workers = {w1, w2}
    Dispatchers = {d1}
    RateLimited = FALSE
    MaxLog = 1
    MaxRetries = 1
    KeysExpire = TRUE
    MaxFaults = 0
    Kinds = {"rebalance"}
    MaxDisruptions = 1
    DKinds = {}
    MaxDDisruptions = 0
    Foreigners = {}
CHECK_DEADLOCK FALSE
PROPERTIES AcceptedTasksEnd
