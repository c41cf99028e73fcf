SPECIFICATION FairSpec
CONSTANTS
    MaxSessions = 2
    MaxAttempts = 2
    Capacity = 1
    Faults = {"lost offer", "lost end", "refused ack", "slow join"}
    MaxFaults = 2
    Preemptive = FALSE
PROPERTY LinkEstablished
