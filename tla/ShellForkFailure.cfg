SPECIFICATION Spec
CONSTANTS
    Scripts <- WithFailures
    Program <- MCProgram
    InitFiles <- MCInitFiles
    Dirs <- MCDirs
    MaxPid = 3
    PipeCap = 1
    MaxFail = 1
PROPERTIES
    ForkFailureExits
\* The session ends when the input does.
CHECK_DEADLOCK FALSE
