SPECIFICATION Spec
CONSTANTS
    MaxSeq = 2
    Relays = {r1}
    MaxReplay = 1
    MaxFaults = 1
INVARIANTS
    AtLeastOnce
CHECK_DEADLOCK FALSE
