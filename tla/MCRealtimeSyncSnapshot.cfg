SPECIFICATION Spec
CONSTANTS
    MaxSeq = 2
    Relays = {r1}
    MaxReplay = 1
    MaxFaults = 0
INVARIANTS
    SnapshotCurrent
CHECK_DEADLOCK FALSE
