SPECIFICATION FairSpec
CONSTANTS
    MaxSessions = 2
    MaxAttempts = 2
    Capacity = 2
    Faults = {"lost offer", "lost ack", "lost end", "refused offer", "refused resends", "refused ack", "no access point", "slow join", "dropped link", "leader restart", "follower restart"}
    MaxFaults = 2
    Preemptive = TRUE
INVARIANTS TypeOK ReadyWasAcked
PROPERTY LinkDissolves
