SPECIFICATION SafeSpec
CONSTANTS
    Threads = {"writer", c1}
    Keys = {k1}
    ValueSizes = {0, 1}
    MaxFileSize = 5
    MaxFiles = 2
    MaxWrites = 3
    MaxCrashes = 0
    MaxShutdowns = 0
    MaxIterators = 1
    Faults = {"short", "write", "read", "open", "nomem", "unlink", "thread"}
    NoHint = NoHint
INVARIANTS TypeOK LogLocks KeydirSound
PROPERTIES FilesAppendOnly
CHECK_DEADLOCK FALSE
