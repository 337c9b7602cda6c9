SPECIFICATION Spec
CONSTANTS
    Events = {e1, e2}
    Senders = {s1, s2}
    NoEvent = NoEvent
    MaxAttempts = 2
    MaxFaults = 1
INVARIANT WorstIsOneTooMany
CHECK_DEADLOCK FALSE
