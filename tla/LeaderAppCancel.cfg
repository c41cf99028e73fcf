SPECIFICATION Spec
CONSTANTS
    Followed = {"Leader", "Follower"}
    Selectable = {"CalibrationLeader", "CalibrationFollower"}
    Commands = {}
PROPERTY CancelKeepsProfiles
