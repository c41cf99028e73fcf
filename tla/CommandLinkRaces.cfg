SPECIFICATION Spec
CONSTANTS
    TrackedOps = {"DebugDisable", "TeleopMirror"}
    UntrackedOps = {"TeleopLoadFeedbackUplink"}
    MaxId = 2
    QueueCapacity = 1
    DownCapacity = 2
    UpCapacity = 1
    SendBurst = 2
    AckBurst = 1
    MaxRetries = 1
    MaxRestarts = 0
    MirrorTraffic = FALSE
    Preemptive = TRUE
INVARIANTS TypeOK AppliedWasHandled 
