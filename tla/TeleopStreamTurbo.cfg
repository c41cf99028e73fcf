SPECIFICATION FairSpec
CONSTANTS
    Joints = {j1, j2}
    Filters = {{j1, j2}}
    MaxPosition = 1
    ButtonAgain = FALSE
    MinDelta = 1
    Turbo = TRUE
    KeyframeEvery = 1
    MaxReleases = 1
    Capacity = 1
    Faults = {"lost frame"}
    MaxFaults = 1
    Preemptive = FALSE
INVARIANTS TypeOK ReleaseHolds PreparedHasTorque
PROPERTIES Heals ImplementsFollowedArm
