SPECIFICATION ReaderSpec
CONSTANTS
    Threads = {c1, c2}
    Readers = {r1}
    Keys = {k1}
    ValueSizes = {1}
    MaxFileSize = 3
    MaxFiles = 1
    MaxWrites = 2
    MaxGets = 2
    MaxCrashes = 0
    MaxShutdowns = 0
    MaxIterators = 1
    Faults = {"thread", "getmem"}
    AppSerialises = FALSE
    NoHint = NoHint
PROPERTIES WriteReturns GetReturns IdleClosed
CHECK_DEADLOCK FALSE
