SPECIFICATION FairSpec
CONSTANTS
    Schedulers = {s1, s2}
    Jobs = {j, b}
    BadCron = {b}
    None = None
    Gone = Gone
    LeaderTTL = 4
    CheckInterval = 2
    Period = 2
    MaxDisruptions = 1
    MaxFaults = 1
INVARIANTS IInv OneFiresAtATime LoadedIsDue OwedIsDue TakeoverIsBounded
PROPERTY DueJobsFire
