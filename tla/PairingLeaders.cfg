SPECIFICATION FairSpec
CONSTANTS
    Leaders = {l1, l2}
    Followers = {f1}
    NoMac = NoMac
    Timeout = 2
    Capacity = 2
    MaxDisturbances = 1
    LeaderTraffic = TRUE
    Preemptive = FALSE
INVARIANTS TypeOK 
PROPERTIES PairingKept NoFalsePair Converges
