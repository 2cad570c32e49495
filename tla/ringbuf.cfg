SPECIFICATION Spec
CONSTANTS
    Producers = {p1, p2}
    Record = {r1, r2}
    Capacity = 3
    MaxPuts = 4
    Faults = {"nomem"}
    AppQuiesces = TRUE
INVARIANTS TypeOK BufferInv FifoDelivery NoLostWakeup NoUseAfterFree
PROPERTIES RefinesQueue ServesQueue AcceptedIsTaken ShutdownCompletes PutReturns
CHECK_DEADLOCK FALSE
