SPECIFICATION FairSpec
CONSTANTS
    d1 = d1
    d2 = d2
    d3 = d3
    Documents = {d1, d2, d3}
    Manual = manual
    NoDoc = nodoc
    Extractions <- MCExtractions
    Scanners = {s1}
    NoOne = nobody
    Slas = {1, 2}
    MaxClock = 2
    MaxRestarts = 1
    MaxFaults = 0
INVARIANT ExceptionIsCurrent
PROPERTIES
    OverdueIsFlagged
    EveryScanEnds
