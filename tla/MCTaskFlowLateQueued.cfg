SPECIFICATION Spec
CONSTANTS
    e1 = e1
    n = n
    email = email
    other = other
    p1 = p1
    None = None
    Malformed = Malformed
    NoType = NoType
    NotFound = NotFound
    Failed = Failed
    Tasks <- OneTask
    Types = {email, other}
    TypeOf <- MCTypeOf
    Partitions = {p1}
    PartitionOf <- MCPartitionOf
    WorkerType = email
    Registered = {email}
    Workers = {w1}
    Dispatchers = {d1}
    RateLimited = FALSE
    MaxLog = 1
    MaxRetries = 0
    KeysExpire = FALSE
    MaxFaults = 0
    Kinds = {}
    MaxDisruptions = 0
    DKinds = {}
    MaxDDisruptions = 0
    Foreigners = {}
CHECK_DEADLOCK FALSE
PROPERTIES TerminalIsFinal
