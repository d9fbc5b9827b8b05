SPECIFICATION KSpec
CONSTANTS
    Tables <- MCTables
    Types <- MCTypes
    Addrs <- MCAddrs
    ULIM <- MCULIM
    BadStrx = BadStrx
INVARIANTS
    KTypeOK
    AttributionCorrect
\* The function returns.
CHECK_DEADLOCK FALSE
