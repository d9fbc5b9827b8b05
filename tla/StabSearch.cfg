SPECIFICATION MCSpec
CONSTANTS
    Tables <- MCTables
    Types <- MCTypes
    Addrs <- MCAddrs
INVARIANTS
    TypeOK
    SearchCorrect
PROPERTIES
    Terminates
\* The function returns.
CHECK_DEADLOCK FALSE
