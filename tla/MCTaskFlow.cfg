SPECIFICATION Spec
CONSTANTS
    e1 = e1
    n = n
    email = email
    other = other
    p1 = p1
    None = None
    Malformed = Malformed
    NoType = NoType
    NotFound = NotFound
    Failed = Failed
    Tasks <- OneTask
    Types = {email, other}
    TypeOf <- MCTypeOf
    Partitions = {p1}
    PartitionOf <- MCPartitionOf
    WorkerType = email
    Registered = {email}
    Workers = {w1}
    Dispatchers = {d1}
    RateLimited = FALSE
    MaxLog = 1
    MaxRetries = 1
    KeysExpire = TRUE
    MaxFaults = 1
    Kinds = {"crash", "signal"}
    MaxDisruptions = 1
    DKinds = {"crash"}
    MaxDDisruptions = 1
    Foreigners = {}
CHECK_DEADLOCK FALSE
INVARIANTS FlowInv AcceptedIsAccounted
PROPERTIES GatewayWritesFirst RecordsAreThePipelines
