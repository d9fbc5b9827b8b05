SPECIFICATION MSpec
CONSTANTS
    CRT_ROWS = 3
    CRT_COLS = 3
    BUFLEN = 6
    MAXARGS = 3
    Prompt <- MCPrompt
    Input <- MCInput
    Output <- MCOutput
INVARIANTS
    MTypeOK
    EchoMatchesLine
    ArgumentsAreWords
