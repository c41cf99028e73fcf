SPECIFICATION FairSpec
CONSTANTS
    TrackedOps = {"DebugEnable", "DebugDisable"}
    UntrackedOps = {}
    MaxId = 2
    QueueCapacity = 1
    DownCapacity = 1
    UpCapacity = 1
    SendBurst = 1
    AckBurst = 1
    MaxRetries = 0
    MaxRestarts = 0
    MirrorTraffic = FALSE
    Preemptive = TRUE
PROPERTY ViewConverges
