SPECIFICATION FairSpec
CONSTANTS
    MaxTickets = 2
    MaxTime = 2
    Grace = 1
    Messages = {m1}
    Routers = {r1}
    Sweepers = {s1, s2}
    None = None
INVARIANTS RemindOnce ClaimsWhatItPeeked
PROPERTIES SweptEventually
CHECK_DEADLOCK FALSE
