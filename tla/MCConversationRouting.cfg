SPECIFICATION Spec
CONSTANTS
    MaxTickets = 3
    MaxTime = 2
    Grace = 1
    Messages = {m1}
    Routers = {r1, r2}
    Sweepers = {}
    None = None
SYMMETRY MCSymmetry
INVARIANTS TimersMatchState NoSendConflict OneActive NoMergeChains
PROPERTIES LandsOnLive
CHECK_DEADLOCK FALSE
