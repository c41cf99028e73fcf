SPECIFICATION PartsSpec
CONSTANTS
    Followed = {}
    Selectable = {"CalibrationFollower", "TeleopEspNow", "TeleopWifi", "Passthrough", "OtaReady"}
    Commands = {"TeleopStart", "TeleopStop", "EspNow", "Finish"}
    MaxDpadSteps = 2
    PadButtons = {"A"}
    kMaxPending = 2
    MaxPresses = 3
    MaxPadFaults = 2
    Loads = {1, 20}
    HapticFaults = {"lost feedback", "no snapshot", "no gripper", "no hold", "half hold", "no release"}
    MaxHapticFaults = 1
    Servos = {1, 2}
    ServoIds = {1, 2, 3}
    BusSessions = {
        {"setServoId"},
        {"calibrate", "scan", "moveBatch"},
        {"positionMode", "wheelMode", "torqueOff"}}
    TaskOps = {"refresh"}
    MaxBusFaults = 1
INVARIANTS
    TypeOK CalibrationSession LinkSession MirrorWhenMeant RadioPolicy
    WindowShowsCursor StackIsPath
    PadTypeOK PairedIsSecured
    HapticTypeOK StiffIsMeant
    BusTypeOK
PROPERTIES  ResetWasConfirmed PadReconnects PressesDrain GripperLetsGo ReportedDone CountHeals
