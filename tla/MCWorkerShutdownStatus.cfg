SPECIFICATION Spec
CONSTANTS
    e1 = e1
    x = x
    email = email
    other = other
    p1 = p1
    None = None
    Malformed = Malformed
    NoType = NoType
    NotFound = NotFound
    Failed = Failed
    Tasks <- OneTask
    Types = {email, other}
    TypeOf <- MCTypeOf
    Partitions = {p1}
    PartitionOf <- MCPartitionOf
    WorkerType = email
    Registered = {email}
    Workers = {w1}
    MaxLog = 1
    MaxRetries = 1
    KeysExpire = FALSE
    MaxFaults = 0
    Kinds = {"signal"}
    MaxDisruptions = 1
CHECK_DEADLOCK FALSE
INVARIANTS AcceptedIsTerminal
