SPECIFICATION CompactorSpec
CONSTANTS
    Keys = {k1, k2}
    PerFile = 1
    MaxFiles = 2
    MaxPuts = 2
    MaxCompactions = 2
    MaxCrashes = 1
    Faults = {"nomem", "read", "open", "write", "unlink", "rename"}
    Absent = Absent
INVARIANTS CompactorTypeOK ListSorted StoreSurvives TempsHoldStore
PROPERTIES PutsContinue CompactionEnds
CHECK_DEADLOCK FALSE
