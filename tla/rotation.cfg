SPECIFICATION InTimeSpec
CONSTANTS
    Threads = {t1, t2}
    PerFile = 1
    MaxFiles = 2
    MaxWrites = 4
    MaxReads = 1
INVARIANTS NumbersMeanFiles IndexLeadsHomeInTime HeadWritable
SYMMETRY Symmetry
CHECK_DEADLOCK FALSE
