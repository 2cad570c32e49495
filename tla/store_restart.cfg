SPECIFICATION SafeSpec
CONSTANTS
    Threads = {"writer"}
    Keys = {k1, k2}
    ValueSizes = {1, 2}
    MaxFileSize = 7
    MaxFiles = 2
    MaxWrites = 4
    MaxCrashes = 1
    MaxShutdowns = 1
    MaxIterators = 0
    Faults = {"short"}
    NoHint = NoHint
SYMMETRY KeySymmetry
INVARIANTS RecoverySound RestartPreservesIndex HintMatchesData
CHECK_DEADLOCK FALSE
