SPECIFICATION PFairSpec
CONSTANTS
    Events = {1}
    Workers = {w1, w2}
    Consumers = {c1}
    Routes <- MCRoutes
    BatchSize = 1
    NoWorker = NoWorker
    MaxFaults = 1
    Slots = {s1, s2}
    NoJob = NoJob
    MaxAttempts = 2
    MaxStalls = 1
    Host <- MCHost
INVARIANTS
    ExactlyOnce
    NothingForgotten
PROPERTIES
    EventuallySettled
    DeliverySpec
