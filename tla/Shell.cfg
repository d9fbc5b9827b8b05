SPECIFICATION FairSpec
CONSTANTS
    Scripts <- AllSessions
    Program <- MCProgram
    InitFiles <- MCInitFiles
    Dirs <- MCDirs
    MaxPid = 5
    PipeCap = 1
    MaxFail = 2
INVARIANTS
    TypeOK
    OutputAsSequential
    ProgramsHoldOnlyStdio
PROPERTIES
    OutputOnlyBeforePrompt
    Quiesces
\* The session ends when the input does.
CHECK_DEADLOCK FALSE
