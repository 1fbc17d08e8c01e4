SPECIFICATION FairSpec
CONSTANTS
    Schedulers = {s1}
    Requests = {q1}
    Mails <- MCMails
    PageSize = 2
    MaxMessages = 3
    MaxParts = 2
    MaxExpiries = 1
    MaxFaults = 1
INVARIANTS
    ReadMeansQueued
    QueuedOnce
PROPERTY EveryMessageServed
