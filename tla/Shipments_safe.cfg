SPECIFICATION Spec
CONSTANTS
    d1 = d1
    d2 = d2
    d3 = d3
    Documents = {d1, d2, d3}
    Manual = manual
    NoDoc = nodoc
    Extractions <- MCExtractions
    Scanners = {s1, s2}
    NoOne = nobody
    Slas = {1}
    MaxClock = 2
    MaxRestarts = 0
    MaxFaults = 1
SYMMETRY Symmetry
INVARIANTS
    StatusIsTruthful
    SlotsMatchFlags
    EventsChain
PROPERTY CanonicalStays
