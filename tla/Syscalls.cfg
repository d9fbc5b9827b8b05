SPECIFICATION FairSpec
CONSTANTS
    Procs = {1, 2, 3}
    Teams <- MCTeams
    Uses <- MCUses
    Stack <- MCStack
    Half = 4
    IntSize = 1
    DateSize = 2
    MaxLag = 1
INVARIANTS
    TypeOK
    BlocksInside
PROPERTIES
    SleepsLongEnough
    SleepEnds
