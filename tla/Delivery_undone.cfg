SPECIFICATION Spec
CONSTANTS
    Workers = {w1, w2}
    Jobs = {j1}
    Garbage = garbage
    Requests = {r1, r2}
    NoRequest = none
    MaxAttempts = 2
    BatchSize = 2
    MaxEntries = 2
    MaxDeadLetters = 2
    MaxForeign = 1
    MaxExpiries = 1
    MaxFaults = 1
    MaxLeaseFaults = 0
SYMMETRY Symmetry
INVARIANTS
    RedeliveryReusesRun
