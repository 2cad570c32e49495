SPECIFICATION ReaderSafeSpec
CONSTANTS
    Threads = {c1}
    Readers = {r1}
    Keys = {k1, k2}
    ValueSizes = {1}
    MaxFileSize = 6
    MaxFiles = 2
    MaxWrites = 4
    MaxGets = 1
    MaxCrashes = 0
    MaxShutdowns = 0
    MaxIterators = 0
    Faults = {}
    AppSerialises = FALSE
    NoHint = NoHint
INVARIANTS GetOwnValue
CHECK_DEADLOCK FALSE
