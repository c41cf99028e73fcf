SPECIFICATION FairSpec
CONSTANTS
    Leaders = {l1}
    Followers = {f1, f2}
    NoMac = NoMac
    Timeout = 1
    Capacity = 1
    MaxDisturbances = 1
    LeaderTraffic = FALSE
    Preemptive = FALSE
PROPERTIES Expires
