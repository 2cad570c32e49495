SPECIFICATION ReaderSafeSpec
CONSTANTS
    Threads = {"writer", c1}
    Readers = {r1, r2}
    Keys = {k1, k2, k3}
    ValueSizes = {1, 2}
    MaxFileSize = 6
    MaxFiles = 1
    MaxWrites = 3
    MaxGets = 2
    MaxCrashes = 0
    MaxShutdowns = 0
    MaxIterators = 0
    Faults = {"read", "reopen"}
    AppSerialises = TRUE
    NoHint = NoHint
SYMMETRY ReaderSymmetry
INVARIANTS ReaderTypeOK DescriptorsOwned KeydirSound GetLatest NoCorruptRead
CHECK_DEADLOCK FALSE
