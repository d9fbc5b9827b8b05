SPECIFICATION FairSpec
CONSTANTS
    IntBits = 4
    LongLongBits = 6
    MAXERROR = 7
    E_INVAL = 3
    error_string <- MCErrorString
    Calls <- MCCalls
    Characters <- MCCharacters
    Directives <- MCDirectives
INVARIANTS
    TypeOK
    OutputAsSpecified
    BufferHoldsPrefix
PROPERTIES
    FormatReturns
\* The call returns.
CHECK_DEADLOCK FALSE
