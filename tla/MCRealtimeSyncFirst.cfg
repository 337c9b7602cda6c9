SPECIFICATION Spec
CONSTANTS
    MaxSeq = 2
    Relays = {r1}
    MaxReplay = 1
    MaxFaults = 1
INVARIANTS
    FirstConnectCovered
CHECK_DEADLOCK FALSE
