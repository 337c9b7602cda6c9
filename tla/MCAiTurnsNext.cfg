SPECIFICATION Spec
CONSTANTS
    Runs = {r1, r2}
    MaxAttempts = 2
    MaxEntries = 3
    MaxIncidents = 1
INVARIANT AnswersFromTheNext
CHECK_DEADLOCK FALSE
