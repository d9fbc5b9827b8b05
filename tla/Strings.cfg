SPECIFICATION Spec
CONSTANTS
    MemSize <- MCMemSize
    LongBits = 8
    Cases <- MCCases
INVARIANTS
    TypeOK
    BlocksAsSpecified
    StringsAsSpecified
\* The routine returns.
CHECK_DEADLOCK FALSE
