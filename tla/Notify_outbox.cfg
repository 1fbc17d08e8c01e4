SPECIFICATION FairSpec
CONSTANTS
    Processes = {p1, p2, p3}
    MaxEvents = 3
    MaxRefusals = 2
    MaxFaults = 2
INVARIANTS
    OneSender
    StuckOnlyByFault
PROPERTIES
    ImplementsOutbox
    EveryEventMailed
