SPECIFICATION SafeSpec
CONSTANTS
    Threads = {c1}
    Keys = {k1, k2}
    ValueSizes = {1}
    MaxFileSize = 3
    MaxFiles = 2
    MaxWrites = 2
    MaxCrashes = 1
    MaxShutdowns = 0
    MaxIterators = 1
    Faults = {}
    NoHint = NoHint
INVARIANTS NoLostWrite
CHECK_DEADLOCK FALSE
