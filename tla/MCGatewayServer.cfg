SPECIFICATION FairSpec
CONSTANTS
    a = a
    b = b
    email = email
    p1 = p1
    None = None
    Malformed = Malformed
    NoType = NoType
    NotFound = NotFound
    Failed = Failed
    Tasks = {a, b}
    Types = {email}
    TypeOf <- MCTypeOf
    Partitions = {p1}
    PartitionOf <- MCPartitionOf
    Clients = {c1}
    Target <- MCTarget
    Reports = {"RUNNING", "DONE", "DEAD"}
    Outcomes = {"DONE"}
    Counts = {1}
    MaxLog = 2
    KeysExpire = TRUE
    MaxFaults = 1
CHECK_DEADLOCK FALSE
INVARIANTS AnswersGoBackOnlyWithRecords NotFoundIsExplained BulkAnswerIsTrue
PROPERTIES StreamsEnd ShutdownEnds
