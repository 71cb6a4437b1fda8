SPECIFICATION FairSpec
CONSTANTS
    e1 = e1
    e2 = e2
    t1 = t1
    t2 = t2
    NoEvent = NoEvent
    Events <- TwoEvents
    Threads <- TwoThreads
    Ticks = 2
    Tolerance = 1
    Requests <- SampleRequests
    MaxFaults = 2
INVARIANTS
    TypeOK
    HandledAtMostOnce
    StatusTellsTheTruth
    UndecidedHasOwner
    OnlyVerifiedRecorded
PROPERTIES
    VerdictIsFinal
    ImplementsPromise
    SenderComesToRest
