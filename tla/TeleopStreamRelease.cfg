SPECIFICATION Spec
CONSTANTS
    Joints = {j1, j2}
    Filters = {{j1, j2}}
    MaxPosition = 1
    ButtonAgain = FALSE
    MinDelta = 1
    Turbo = FALSE
    KeyframeEvery = 1
    MaxReleases = 1
    Capacity = 1
    Faults = {}
    MaxFaults = 0
    Preemptive = TRUE
INVARIANT ReleaseHolds
