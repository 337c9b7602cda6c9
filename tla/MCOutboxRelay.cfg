SPECIFICATION Spec
CONSTANTS
    Events = {1, 2, 3}
    Workers = {w1, w2}
    Consumers = {c1}
    Routes <- MCRoutes
    BatchSize = 2
    NoWorker = NoWorker
    MaxFaults = 2
INVARIANTS
    SeqDense
    EmitAfterCommit
    JobsBeforePublish
PROPERTIES
    LogSpec
