SPECIFICATION FairSpec
CONSTANTS
    MaxSeq = 2
    Relays = {r1, r2}
    MaxReplay = 1
    MaxFaults = 2
INVARIANT NoUnknownGap
PROPERTIES
    InOrder
    EventuallySeen
CHECK_DEADLOCK FALSE
