SPECIFICATION InputSpec
CONSTANTS
    Inputs <- MCInputs
    MAXARGS = 3
    Parse <- MCParse
    EndsAs <- MCEndsAs
    nbuf = 9
    BUFSIZ = 10
    MaxStrays = 2
INVARIANTS
    InputTypeOK
    CommandsAsTyped
    LinesStayWhole
