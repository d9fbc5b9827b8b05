SPECIFICATION FairSpec
CONSTANTS
    SECTSIZE = 4
    ELFHDR = 4
    Port = 3
    MemSize = 96
    KERNBASE <- MCKernbase
    PTSIZE = 128
    Depth = 2
    Images <- MCImages
INVARIANTS
    TypeOK
    NoStrayCopies
    KernelAsLinked
    BacktraceListsCalls
PROPERTIES
    MonitorReached
\* The loader stops for good when it finds no kernel.
CHECK_DEADLOCK FALSE
