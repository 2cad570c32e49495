SPECIFICATION Spec
CONSTANTS
    Threads = {c1}
    Keys = {k1}
    ValueSizes = {0, 1}
    MaxFileSize = 7
    MaxFiles = 1
    MaxWrites = 2
    MaxCrashes = 0
    MaxShutdowns = 0
    MaxIterators = 1
    Faults = {}
    NoHint = NoHint
PROPERTIES WriteReturns
CHECK_DEADLOCK FALSE
