SPECIFICATION ServicesSpec
CONSTANTS
    Components = {"relay", "jobs", "scan", "webhooks", "sla", "assistant", "automation", "digest", "sessions",
                  "policy", "views"}
    RelayWorkers = {w1, w2}
    a1 = a1  a2 = a2
    Nil = Nil
    Consumers = {c1}
    Events = {e1}
    Slots = {s1, s2, s3}
    NoJob = NoJob
    MaxAttempts = 3
    MaxStalls = 2
    Senders = {w1, w2}
    HookAttempts = 2
    HookTimeout = 1
    HookLease = 2
    HookDelay = 2
    HookGrace = 1
    HookQueue = 1
    HookFaults = 2
    Messages = {e1, e2}
    NoMessage = Nil
    DigestAttempts = 2
    DigestFaults = 2
    FileRuns = {r1, r2}
    NoFileRun = Nil
    ScanAttempts = 3
    ScanStalls = 1
    ScanFaults = 2
    Versions = {1, 2}
    IndexWaits = 1
    IndexAttempts = 2
    IndexStalls = 1
    IndexFaults = 1
    AiRuns = {r1, r2}
    AiAttempts = 2
    ChatEntries = 3
    AiIncidents = 1
    Rules = {a1, a2}
    Nobody = Nil
    Values = {0, 1}
    Rulebooks <- MCRulebooks
    MaxDepth = 2
    RuleSlots = {s1, s2}
    RuleChanges = 1
    RulePeriods = 1
    RuleFaults = 1
    Policies = {p1}
    NoPolicy = Nil
    Minutes <- MCMinutes
    Early = 1
    SweepLag = 1
    MaxTime = 2
    SlaChanges = 2
    SlaFaults = 1
    Lookups = {l1, l2}
    IdleLimit = 2
    TouchInterval = 1
    CacheTtl = 2
    SessionFaults = 1
    Changes = {e1, e2}
    ViewWorkers = {w1}
    Requests = {l1, l2}
    NoRequest = Nil
    NoCount = Nil
    ViewFaults = 1
INVARIANTS
    ServicesTypeOK
    AddedIsKept
    CleanIsScanned
    UsesUpAttempts
    OneSender
    OneAlive
    Converged
    SaidOnce
    AnswersInPlace
    SilentWhenStopped
    RepliesOnce
    ChainsEnd
    BurstHasJob
    RevokedStops
    NewestServed
    ShowsLatest
CONSTRAINT ServicesConstraint
CHECK_DEADLOCK FALSE
