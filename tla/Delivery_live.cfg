SPECIFICATION FairSpec
CONSTANTS
    Workers = {w1, w2}
    Jobs = {j1}
    Garbage = garbage
    Requests = {r1}
    NoRequest = none
    MaxAttempts = 2
    BatchSize = 1
    MaxEntries = 2
    MaxDeadLetters = 3
    MaxForeign = 0
    MaxExpiries = 0
    MaxFaults = 0
    MaxLeaseFaults = 1
INVARIANTS
    PendingListExact
    ExclusiveDelivery
    AttemptsBounded
    BuriedOnce
    ReplayNotWedged
PROPERTIES
    EveryEntryLeaves
    EveryReplayEnds
