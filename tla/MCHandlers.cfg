SPECIFICATION FairSpec
CONSTANTS
    MaxRetries = 3
    TaskTimeout = 3
    ClientTimeout = 2
    BaseDelay = 1
CHECK_DEADLOCK FALSE
INVARIANTS IInv DoneIsTaken WaitIsBounded
PROPERTIES LoopEnds SendersEnd
