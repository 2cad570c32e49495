SPECIFICATION SafeSpec
CONSTANTS
    Threads = {"writer", c1}
    Keys = {k1}
    ValueSizes = {1}
    MaxFileSize = 20
    MaxFiles = 1
    MaxWrites = 2
    MaxCrashes = 0
    MaxShutdowns = 0
    MaxIterators = 1
    Faults = {}
    NoHint = NoHint
INVARIANTS NoLostWrite
CHECK_DEADLOCK FALSE
