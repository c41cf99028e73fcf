SPECIFICATION HapticSpec
CONSTANTS
    Loads = {1, 20}
    HapticFaults = {}
    MaxHapticFaults = 0
PROPERTY ContactNotAbsorbed
