SPECIFICATION Spec
CONSTANTS
    TrackedOps = {"Scan", "CenterAll"}
    UntrackedOps = {}
    MaxId = 1
    QueueCapacity = 1
    DownCapacity = 1
    UpCapacity = 1
    SendBurst = 2
    AckBurst = 1
    MaxRetries = 1
    MaxRestarts = 1
    MirrorTraffic = TRUE
    Preemptive = FALSE
INVARIANTS NoImmediateRepeat AppliedWasApplied
PROPERTY ImplementsService
